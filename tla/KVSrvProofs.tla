---------------------------- MODULE KVSrvProofs ----------------------------
(***************************************************************************)
(* Theorems about KVSrv: the server forgets what nobody asks for again,    *)
(* and server and clerks together implement KVStore.                       *)
(***************************************************************************)
EXTENDS KVSrv, FiniteSetTheorems, TLAPS

\* Every leaf is tried with Zenon for a moment, then with SMT, then with each of
\* them for longer.
USE ZenonT(2), SMTT(10), ZenonT(20), SMTT(40)

Values == Seq(Letter)

Places == {"idle", "calling", "replied", "deleting", "deleted"}

\* Before its first operation a clerk has an arbitrary one.
NoOperation == CHOOSE o \in Operation : TRUE

ClerkState == [at : Places, op : Operation \cup {NoOperation}, n : Nat, reply : Values]

Types ==
    /\ kvMp \in [Key -> Seq(Values)]
    /\ idMp \subseteq [id : Client \X Nat, value : Values]
    /\ clerk \in [Client -> ClerkState]
    /\ \A c \in Client : clerk[c].at # "idle" => clerk[c].op \in Operation

\* idMp is a map.
OneEach == \A e, f \in idMp : e.id = f.id => e = f

\* An entry belongs to the operation its clerk is at.
Pending ==
    \A e \in idMp : LET c == e.id[1] IN
        e.id = Id(c) /\ clerk[c].at \in {"calling", "replied", "deleting"}

\* What a clerk that may have to call again was answered can be had again: it is
\* remembered, or it is that of a Get that found no value.
AnsweredBy(r, m) ==
    /\ r.op.op = "Put" => m # <<>> /\ r.reply = <<>>
    /\ r.op.op = "Append" => m = <<r.reply>>
    /\ r.op.op = "Get" => m \in {<<>>, <<r.reply>>}

Answered ==
    \A c \in Client : clerk[c].at = "replied" => AnsweredBy(clerk[c], Remembered(Id(c)))

IInv == Types /\ OneEach /\ Pending /\ Answered

-----------------------------------------------------------------------------
(* What is remembered.                                                     *)

\* The entry of an id is the one that is found.
LEMMA Found ==
  ASSUME OneEach, NEW e \in idMp
  PROVE  Remembered(e.id) = <<e.value>>
  <1>1. (CHOOSE f \in idMp : f.id = e.id) = e
    BY DEF OneEach
  <1> QED
    BY <1>1 DEF Remembered

\* Without an entry nothing is found.
LEMMA NotFound ==
  ASSUME NEW id, \A e \in idMp : e.id # id
  PROVE  Remembered(id) = <<>>
  BY DEF Remembered

\* What is found is the value of an entry.
LEMMA FoundIsEntry ==
  ASSUME NEW id, Remembered(id) # <<>>
  PROVE  \E e \in idMp : e.id = id /\ Remembered(id) = <<e.value>>
  <1>1. \E e \in idMp : e.id = id
    BY DEF Remembered
  <1>2. PICK e : e = CHOOSE f \in idMp : f.id = id
    OBVIOUS
  <1>3. e \in idMp /\ e.id = id
    BY <1>1, <1>2
  <1> QED
    BY <1>1, <1>2, <1>3 DEF Remembered

\* Nothing is remembered of an id that is not that of a pending operation.
LEMMA Fresh ==
  ASSUME Pending, NEW c \in Client, NEW n,
         clerk[c].at \notin {"calling", "replied", "deleting"} \/ n # clerk[c].n
  PROVE  Remembered(<<c, n>>) = <<>>
  <1>1. ASSUME NEW e \in idMp, e.id = <<c, n>> PROVE FALSE
    <2>1. e.id[1] = c
      BY <1>1
    <2>2. e.id = Id(c) /\ clerk[c].at \in {"calling", "replied", "deleting"}
      BY <2>1 DEF Pending
    <2> QED
      BY <1>1, <2>2 DEF Id
  <1> QED
    BY <1>1, NotFound

\* Remembering a value adds it to the map.
LEMMA AddsEntry ==
  ASSUME OneEach, NEW id, NEW v, Remembered(id) = <<>>, Remember(id, v)
  PROVE  /\ OneEach'
         /\ Remembered(id)' = <<v>>
         /\ \A other : other # id => Remembered(other)' = Remembered(other)
  <1> DEFINE new == [id |-> id, value |-> v]
  <1>1. idMp' = idMp \cup {new}
    BY DEF Remember
  <1>2. \A e \in idMp : e.id # id
    BY Found
  <1>3. OneEach'
    BY <1>1, <1>2 DEF OneEach
  <1>4. Remembered(id)' = <<v>>
    <2>1. new \in idMp' /\ new.id = id /\ \A e \in idMp' : e.id = id => e = new
      BY <1>1, <1>2
    <2>2. (CHOOSE e \in idMp' : e.id = id) = new
      BY <2>1
    <2> QED
      BY <2>1, <2>2 DEF Remembered
  <1>5. ASSUME NEW other, other # id
        PROVE  Remembered(other)' = Remembered(other)
    <2>1. CASE \E e \in idMp : e.id = other
      <3>1. PICK e \in idMp : e.id = other
        BY <2>1
      <3>2. (CHOOSE f \in idMp : f.id = other) = e
        BY <3>1 DEF OneEach
      <3>3. e \in idMp' /\ \A f \in idMp' : f.id = other => f = e
        BY <1>1, <1>5, <3>1 DEF OneEach
      <3>4. (CHOOSE f \in idMp' : f.id = other) = e
        BY <3>1, <3>3
      <3> QED
        BY <3>1, <3>2, <3>3, <3>4 DEF Remembered
    <2>2. CASE ~\E e \in idMp : e.id = other
      <3>1. ~\E e \in idMp' : e.id = other
        BY <1>1, <1>5, <2>2
      <3> QED
        BY <2>2, <3>1 DEF Remembered
    <2> QED
      BY <2>1, <2>2
  <1> QED
    BY <1>3, <1>4, <1>5

\* Deleting an id leaves the other entries alone.
LEMMA DropsEntry ==
  ASSUME OneEach, NEW id, idMp' = {e \in idMp : e.id # id}
  PROVE  OneEach' /\ \A other : other # id => Remembered(other)' = Remembered(other)
  <1>1. OneEach'
    BY DEF OneEach
  <1>2. ASSUME NEW other, other # id
        PROVE  Remembered(other)' = Remembered(other)
    <2>1. {e \in idMp' : e.id = other} = {e \in idMp : e.id = other}
      BY <1>2
    <2>2. CASE \E e \in idMp : e.id = other
      <3>1. PICK e \in idMp : e.id = other
        BY <2>2
      <3>2. (CHOOSE f \in idMp : f.id = other) = e
        BY <3>1 DEF OneEach
      <3>3. e \in idMp' /\ \A f \in idMp' : f.id = other => f = e
        BY <1>2, <3>1 DEF OneEach
      <3>4. (CHOOSE f \in idMp' : f.id = other) = e
        BY <3>1, <3>3
      <3> QED
        BY <3>1, <3>2, <3>3, <3>4 DEF Remembered
    <2>3. CASE ~\E e \in idMp : e.id = other
      BY <2>3 DEF Remembered
    <2> QED
      BY <2>2, <2>3
  <1> QED
    BY <1>1, <1>2

-----------------------------------------------------------------------------
(* A step of clerk c or of its handler.                                    *)

\* Everybody else's operations, results and entries stay as they are.
Elsewhere(c, r) ==
    /\ clerk' = [clerk EXCEPT ![c] = r]
    /\ \A d \in Client \ {c} : \A n \in Nat : Remembered(<<d, n>>)' = Remembered(<<d, n>>)

LEMMA Mapped ==
  ASSUME Types, NEW c \in Client, NEW r \in ClerkState, NEW m, Elsewhere(c, r),
         m = Remembered(<<c, r.n>>)'
  PROVE  /\ CallMap' = [CallMap EXCEPT ![c] = IF r.at = "idle" THEN <<>> ELSE <<r.op>>]
         /\ ResultMap' = [ResultMap EXCEPT ![c] = ResultOf(r, m)]
  <1>1. /\ clerk'[c] = r
        /\ \A d \in Client \ {c} : clerk'[d] = clerk[d] /\ clerk[d].n \in Nat
    BY DEF Types, Elsewhere, ClerkState
  <1>2. CallMap' = [CallMap EXCEPT ![c] = IF r.at = "idle" THEN <<>> ELSE <<r.op>>]
    BY <1>1 DEF CallMap
  <1>3. Remembered(Id(c))' = m
    BY <1>1 DEF Id, Remembered
  <1>4. ASSUME NEW d \in Client \ {c} PROVE Remembered(Id(d))' = Remembered(Id(d))
    <2>1. PICK n \in Nat : n = clerk[d].n /\ n = clerk'[d].n
      BY <1>1
    <2>2. Remembered(<<d, n>>)' = Remembered(<<d, n>>)
      BY DEF Elsewhere
    <2> QED
      BY <2>1, <2>2 DEF Id, Remembered
  <1>5. ResultMap' = [d \in Client |-> ResultOf(clerk'[d], Remembered(Id(d))')]
    BY DEF ResultMap, ResultOf
  <1>6. ResultMap' = [d \in Client |-> IF d = c THEN ResultOf(r, m) ELSE ResultMap[d]]
    BY <1>1, <1>3, <1>4, <1>5 DEF ResultMap
  <1> QED
    BY <1>2, <1>6 DEF ResultMap

\* The invariant holds for the others because nothing of theirs changes, and for c
\* if it holds for the new state r of c.
LEMMA Preserved ==
  ASSUME IInv, NEW c \in Client, NEW r \in ClerkState, Elsewhere(c, r),
         kvMp' \in [Key -> Seq(Values)],
         idMp' \subseteq [id : Client \X Nat, value : Values], OneEach',
         r.at # "idle" => r.op \in Operation,
         \A e \in idMp' : e.id[1] # c => e \in idMp,
         \A e \in idMp' : e.id[1] = c =>
             e.id = <<c, r.n>> /\ r.at \in {"calling", "replied", "deleting"},
         r.at = "replied" => AnsweredBy(r, Remembered(<<c, r.n>>)')
  PROVE  IInv'
  <1>1. /\ clerk' \in [Client -> ClerkState] /\ clerk'[c] = r
        /\ \A d \in Client \ {c} : clerk'[d] = clerk[d] /\ clerk[d].n \in Nat
    BY DEF IInv, Types, Elsewhere, ClerkState
  <1>2. Types'
    BY <1>1 DEF IInv, Types
  <1>3. Pending'
    <2> SUFFICES ASSUME NEW e \in idMp'
                 PROVE  /\ e.id = <<e.id[1], clerk'[e.id[1]].n>>
                        /\ clerk'[e.id[1]].at \in {"calling", "replied", "deleting"}
      BY DEF Pending, Id
    <2>1. CASE e.id[1] = c
      BY <1>1, <2>1
    <2>2. CASE e.id[1] # c
      <3>1. e \in idMp /\ e.id[1] \in Client
        BY <2>2 DEF IInv, Types
      <3> QED
        BY <1>1, <2>2, <3>1 DEF IInv, Pending, Id
    <2> QED
      BY <2>1, <2>2
  <1>4. Answered'
    <2> SUFFICES ASSUME NEW d \in Client, clerk'[d].at = "replied"
                 PROVE  AnsweredBy(clerk'[d], Remembered(Id(d))')
      BY DEF Answered, AnsweredBy
    <2>1. CASE d = c
      <3>1. Remembered(Id(d))' = Remembered(<<c, r.n>>)'
        BY <1>1, <2>1 DEF Id, Remembered
      <3> QED
        BY <1>1, <2>1, <3>1
    <2>2. CASE d # c
      <3>1. PICK n \in Nat : n = clerk[d].n /\ n = clerk'[d].n
        BY <1>1, <2>2
      <3>2. Remembered(<<d, n>>)' = Remembered(<<d, n>>)
        BY <2>2 DEF Elsewhere
      <3>3. Remembered(Id(d))' = Remembered(Id(d))
        BY <3>1, <3>2 DEF Id, Remembered
      <3> QED
        BY <1>1, <2>2, <3>3 DEF IInv, Answered
    <2> QED
      BY <2>1, <2>2
  <1> QED
    BY <1>2, <1>3, <1>4 DEF IInv

\* A step that leaves idMp alone.
LEMMA SameEntries ==
  ASSUME IInv, NEW c \in Client, NEW r \in ClerkState,
         clerk' = [clerk EXCEPT ![c] = r], idMp' = idMp, kvMp' = kvMp,
         r.at # "idle" => r.op \in Operation,
         Remembered(Id(c)) # <<>> =>
             r.n = clerk[c].n /\ r.at \in {"calling", "replied", "deleting"},
         r.at = "replied" => AnsweredBy(r, Remembered(<<c, r.n>>))
  PROVE  /\ IInv'
         /\ Elsewhere(c, r)
         /\ Remembered(<<c, r.n>>)' = Remembered(<<c, r.n>>)
         /\ StoreMap' = StoreMap
  <1>1. \A id : Remembered(id)' = Remembered(id)
    BY DEF Remembered
  <1>2. Elsewhere(c, r)
    BY <1>1 DEF Elsewhere
  <1>3. ASSUME NEW e \in idMp, e.id[1] = c
        PROVE  e.id = <<c, r.n>> /\ r.at \in {"calling", "replied", "deleting"}
    <2>1. e.id = Id(c)
      BY <1>3 DEF IInv, Pending
    <2>2. Remembered(Id(c)) = <<e.value>>
      BY <2>1, Found DEF IInv
    <2> QED
      BY <2>1, <2>2 DEF Id
  <1>4. IInv'
    <2>1. /\ kvMp' \in [Key -> Seq(Values)]
          /\ idMp' \subseteq [id : Client \X Nat, value : Values]
          /\ OneEach'
      BY DEF IInv, Types, OneEach
    <2>2. r.at = "replied" => AnsweredBy(r, Remembered(<<c, r.n>>)')
      BY <1>1
    <2>3. /\ \A e \in idMp' : e.id[1] # c => e \in idMp
          /\ \A e \in idMp' : e.id[1] = c =>
                e.id = <<c, r.n>> /\ r.at \in {"calling", "replied", "deleting"}
      BY <1>3
    <2> QED
      BY <1>2, <2>1, <2>2, <2>3, Preserved
  <1> QED
    BY <1>1, <1>2, <1>4 DEF StoreMap, Value

\* A handler that remembers what it answers.
LEMMA NewEntry ==
  ASSUME IInv, NEW c \in Client, NEW v \in Values, NEW w \in Values,
         clerk[c].at = "calling", Remembered(Id(c)) = <<>>,
         Reply(c, w), Remember(Id(c), v), kvMp' \in [Key -> Seq(Values)],
         AnsweredBy([clerk[c] EXCEPT !.at = "replied", !.reply = w], <<v>>)
  PROVE  /\ IInv'
         /\ CallMap' = CallMap
         /\ ResultMap[c] = <<>>
         /\ ResultMap' = [ResultMap EXCEPT ![c] = <<w>>]
  <1>0. PICK r : r = [clerk[c] EXCEPT !.at = "replied", !.reply = w]
    OBVIOUS
  <1>1. /\ r \in ClerkState /\ r.n = clerk[c].n /\ r.op = clerk[c].op
        /\ r.at = "replied" /\ r.reply = w /\ r.op \in Operation
        /\ clerk \in [Client -> ClerkState]
    BY <1>0 DEF IInv, Types, ClerkState, Places
  <1>2. clerk' = [clerk EXCEPT ![c] = r]
    BY <1>0, <1>1 DEF Reply
  <1>3. PICK id : id = Id(c) /\ id = <<c, r.n>> /\ id \in Client \X Nat
    BY <1>1 DEF Id, ClerkState
  <1>4. /\ OneEach'
        /\ Remembered(id)' = <<v>>
        /\ \A other : other # id => Remembered(other)' = Remembered(other)
    BY <1>3, AddsEntry DEF IInv
  <1>5. Elsewhere(c, r)
    BY <1>2, <1>3, <1>4 DEF Elsewhere
  <1>6. Remembered(<<c, r.n>>)' = <<v>>
    BY <1>3, <1>4
  <1>7. IInv'
    <2>1. idMp' = idMp \cup {[id |-> id, value |-> v]}
      BY <1>3 DEF Remember
    <2>2. idMp' \subseteq [id : Client \X Nat, value : Values]
      BY <1>3, <2>1 DEF IInv, Types
    <2>3. \A e \in idMp' : e.id[1] # c => e \in idMp
      BY <1>3, <2>1
    <2>4. \A e \in idMp' : e.id[1] = c =>
             e.id = <<c, r.n>> /\ r.at \in {"calling", "replied", "deleting"}
      <3>1. \A e \in idMp : e.id[1] = c => e.id = id
        BY <1>3 DEF IInv, Pending
      <3> QED
        BY <1>1, <1>3, <2>1, <3>1
    <2>5. AnsweredBy(r, Remembered(<<c, r.n>>)')
      BY <1>0, <1>6
    <2> QED
      BY <1>1, <1>4, <1>5, <2>2, <2>3, <2>4, <2>5, Preserved
  <1>8. ResultOf(r, <<v>>) = <<w>> /\ ResultMap[c] = <<>>
    BY <1>1 DEF ResultOf, ResultMap
  <1>9. CallMap[c] = <<r.op>>
    BY <1>1 DEF CallMap
  <1>10. /\ CallMap' = [CallMap EXCEPT ![c] = <<r.op>>]
         /\ ResultMap' = [ResultMap EXCEPT ![c] = <<w>>]
    BY <1>1, <1>5, <1>6, <1>8, Mapped DEF IInv
  <1> QED
    BY <1>7, <1>8, <1>9, <1>10 DEF CallMap

-----------------------------------------------------------------------------
(* The actions.  Each keeps the invariant, and is a step of KVStore or      *)
(* changes nothing there.                                                  *)

Refines == KV!Next \/ UNCHANGED KV!vars

LEMMA BeginStep ==
  ASSUME IInv, NEW c \in Client, NEW o \in Operation, Begin(c, o)
  PROVE  IInv' /\ Refines
  <1>0. PICK r : r = [at |-> "calling", op |-> o, n |-> clerk[c].n + 1, reply |-> <<>>]
    OBVIOUS
  <1>1. /\ r \in ClerkState /\ r.at = "calling" /\ r.op = o /\ r.n = clerk[c].n + 1
        /\ clerk[c].at = "idle" /\ clerk[c].n \in Nat
        /\ clerk' = [clerk EXCEPT ![c] = r] /\ idMp' = idMp /\ kvMp' = kvMp
    BY <1>0 DEF Begin, IInv, Types, ClerkState, Places, Values
  <1>2. Remembered(Id(c)) = <<>> /\ Remembered(<<c, r.n>>) = <<>>
    BY <1>1, Fresh DEF IInv, Id
  <1>3. /\ IInv' /\ Elsewhere(c, r) /\ StoreMap' = StoreMap
        /\ Remembered(<<c, r.n>>)' = <<>>
    BY <1>1, <1>2, SameEntries
  <1>4. /\ CallMap' = [CallMap EXCEPT ![c] = <<o>>]
        /\ ResultMap' = [ResultMap EXCEPT ![c] = ResultOf(r, <<>>)]
    <2>1. PICK m : m = Remembered(<<c, r.n>>)'
      OBVIOUS
    <2>2. Types /\ r \in ClerkState /\ Elsewhere(c, r)
      BY <1>1, <1>3 DEF IInv
    <2>3. /\ CallMap' = [CallMap EXCEPT ![c] = IF r.at = "idle" THEN <<>> ELSE <<r.op>>]
          /\ ResultMap' = [ResultMap EXCEPT ![c] = ResultOf(r, m)]
      BY <2>1, <2>2, Mapped
    <2> QED
      BY <1>1, <1>3, <2>1, <2>3
  <1>5. CallMap[c] = <<>> /\ ResultMap[c] = <<>> /\ ResultOf(r, <<>>) = <<>>
    BY <1>1 DEF CallMap, ResultMap, ResultOf
  <1>6. ResultMap' = ResultMap
    BY <1>4, <1>5 DEF ResultMap
  <1>7. KV!Invoke(c, o)
    BY <1>3, <1>4, <1>5, <1>6 DEF KV!Invoke, KV!Absent
  <1> QED
    BY <1>3, <1>7 DEF Refines, KV!Next, KV!Operation, Operation

\* A handler that answers v and changes nothing else; m is what is remembered.
LEMMA ReplySame ==
  ASSUME IInv, NEW c \in Client, clerk[c].at = "calling", NEW v \in Values, Reply(c, v),
         idMp' = idMp, kvMp' = kvMp,
         AnsweredBy([clerk[c] EXCEPT !.at = "replied", !.reply = v], Remembered(Id(c)))
  PROVE  /\ IInv' /\ CallMap' = CallMap /\ StoreMap' = StoreMap
         /\ ResultMap' = [ResultMap EXCEPT ![c] = <<v>>]
  <1>0. PICK r : r = [clerk[c] EXCEPT !.at = "replied", !.reply = v]
    OBVIOUS
  <1>1. /\ r \in ClerkState /\ r.at = "replied" /\ r.reply = v
        /\ r.n = clerk[c].n /\ r.op = clerk[c].op /\ r.op \in Operation
        /\ clerk' = [clerk EXCEPT ![c] = r] /\ clerk \in [Client -> ClerkState]
    BY <1>0 DEF Reply, IInv, Types, ClerkState, Places
  <1>2. Remembered(Id(c)) = Remembered(<<c, r.n>>)
    BY <1>1 DEF Id
  <1>3. IInv' /\ Elsewhere(c, r) /\ StoreMap' = StoreMap
    BY <1>0, <1>1, <1>2, SameEntries
  <1>4. PICK m : m = Remembered(<<c, r.n>>)'
    OBVIOUS
  <1>5. /\ CallMap' = [CallMap EXCEPT ![c] = <<r.op>>]
        /\ ResultMap' = [ResultMap EXCEPT ![c] = ResultOf(r, m)]
    <2>1. Types /\ r \in ClerkState /\ Elsewhere(c, r)
      BY <1>1, <1>3 DEF IInv
    <2>2. /\ CallMap' = [CallMap EXCEPT ![c] = IF r.at = "idle" THEN <<>> ELSE <<r.op>>]
          /\ ResultMap' = [ResultMap EXCEPT ![c] = ResultOf(r, m)]
      BY <1>4, <2>1, Mapped
    <2> QED
      BY <1>1, <2>2
  <1>6. ResultOf(r, m) = <<v>> /\ CallMap[c] = <<r.op>>
    BY <1>1 DEF ResultOf, CallMap
  <1> QED
    BY <1>3, <1>5, <1>6 DEF CallMap

\* What is remembered of a client's operation is a value.
LEMMA RememberedValue ==
  ASSUME IInv, NEW id, Remembered(id) # <<>>
  PROVE  Remembered(id)[1] \in Values /\ Remembered(id) = <<Remembered(id)[1]>>
  <1>1. PICK e \in idMp : e.id = id /\ Remembered(id) = <<e.value>>
    BY FoundIsEntry
  <1> QED
    BY <1>1 DEF IInv, Types

LEMMA ValueType ==
  ASSUME IInv, NEW k \in Key
  PROVE  Value(k) \in Values
  BY DEF IInv, Types, Value, Values

\* The operation o of c takes effect: it finds old, leaves new and returns v.
LEMMA IsPerform ==
  ASSUME NEW c \in Client, NEW o, NEW old, NEW new, NEW v,
         CallMap[c] = <<o>>, ResultMap[c] = <<>>, StoreMap[o.key] = old,
         new = IF o.op = "Get" THEN old ELSE IF o.op = "Put" THEN o.arg ELSE old \o o.arg,
         v = IF o.op = "Get" \/ o.op = "Append" THEN old ELSE <<>>,
         StoreMap' = [StoreMap EXCEPT ![o.key] = new],
         ResultMap' = [ResultMap EXCEPT ![c] = <<v>>], CallMap' = CallMap
  PROVE  Refines
  <1>1. CallMap[c] # <<>> /\ CallMap[c][1] = o
    OBVIOUS
  <1>2. KV!Perform(c)
    BY <1>1 DEF KV!Perform, KV!Absent
  <1> QED
    BY <1>2 DEF Refines, KV!Next

LEMMA GetStep ==
  ASSUME IInv, NEW c \in Client, Get(c)
  PROVE  IInv' /\ Refines
  <1>0. PICK o : o = clerk[c].op
    OBVIOUS
  <1>1. /\ clerk[c].at = "calling" /\ o.op = "Get" /\ o \in Operation /\ o.key \in Key
        /\ clerk \in [Client -> ClerkState] /\ kvMp' = kvMp
    BY <1>0 DEF Get, IInv, Types, Operation
  <1>2. CallMap[c] = <<o>>
    BY <1>0, <1>1 DEF CallMap
  <1>3. CASE Remembered(Id(c)) # <<>>
    <2>1. PICK v \in Values : Remembered(Id(c)) = <<v>>
      BY <1>3, RememberedValue
    <2>2. Reply(c, v) /\ idMp' = idMp
      BY <1>3, <2>1 DEF Get
    <2>3. AnsweredBy([clerk[c] EXCEPT !.at = "replied", !.reply = v], Remembered(Id(c)))
      BY <1>0, <1>1, <2>1 DEF AnsweredBy, ClerkState
    <2>4. /\ IInv' /\ CallMap' = CallMap /\ StoreMap' = StoreMap
          /\ ResultMap' = [ResultMap EXCEPT ![c] = <<v>>]
      BY <1>1, <2>2, <2>3, ReplySame
    <2>5. ResultMap[c] = <<v>>
      BY <1>0, <1>1, <2>1 DEF ResultMap, ResultOf
    <2>6. ResultMap' = ResultMap
      BY <2>4, <2>5 DEF ResultMap
    <2> QED
      BY <2>4, <2>6 DEF Refines, KV!vars
  <1>4. CASE Remembered(Id(c)) = <<>>
    <2>1. PICK v \in Values : v = Value(o.key)
      BY <1>1, ValueType
    <2>2. ResultMap[c] = <<>>
      BY <1>1, <1>4 DEF ResultMap, ResultOf
    <2>3. /\ IInv' /\ CallMap' = CallMap /\ StoreMap' = StoreMap
          /\ ResultMap' = [ResultMap EXCEPT ![c] = <<v>>]
      <3>1. CASE kvMp[o.key] = <<>>
        <4>1. Reply(c, v) /\ idMp' = idMp
          BY <1>0, <1>4, <2>1, <3>1 DEF Get, Value
        <4>2. AnsweredBy([clerk[c] EXCEPT !.at = "replied", !.reply = v], Remembered(Id(c)))
          BY <1>0, <1>1, <1>4 DEF AnsweredBy, ClerkState
        <4> QED
          BY <1>1, <4>1, <4>2, ReplySame
      <3>2. CASE kvMp[o.key] # <<>>
        <4>1. Reply(c, v) /\ Remember(Id(c), v)
          BY <1>0, <1>4, <2>1, <3>2 DEF Get
        <4>2. AnsweredBy([clerk[c] EXCEPT !.at = "replied", !.reply = v], <<v>>)
          BY <1>0, <1>1 DEF AnsweredBy, ClerkState
        <4>3. kvMp' \in [Key -> Seq(Values)] /\ StoreMap' = StoreMap
          BY <1>1 DEF IInv, Types, StoreMap, Value
        <4> QED
          BY <1>1, <1>4, <4>1, <4>2, <4>3, NewEntry
      <3> QED
        BY <3>1, <3>2
    <2>4. StoreMap[o.key] = v /\ StoreMap' = [StoreMap EXCEPT ![o.key] = v]
      BY <1>1, <2>1, <2>3 DEF StoreMap
    <2>5. Refines
      <3>1. /\ v = IF o.op = "Get" THEN v ELSE IF o.op = "Put" THEN o.arg ELSE v \o o.arg
            /\ v = IF o.op = "Get" \/ o.op = "Append" THEN v ELSE <<>>
        BY <1>1
      <3>2. CallMap' = CallMap /\ ResultMap' = [ResultMap EXCEPT ![c] = <<v>>]
        BY <2>3
      <3> QED
        BY <1>2, <2>2, <2>4, <3>1, <3>2, IsPerform
    <2> QED
      BY <2>3, <2>5
  <1> QED
    BY <1>3, <1>4

LEMMA PutStep ==
  ASSUME IInv, NEW c \in Client, Put(c)
  PROVE  IInv' /\ Refines
  <1>0. PICK o : o = clerk[c].op
    OBVIOUS
  <1>1. /\ clerk[c].at = "calling" /\ o.op = "Put" /\ o \in Operation /\ o.key \in Key
        /\ o.arg \in Values /\ clerk \in [Client -> ClerkState]
        /\ Reply(c, <<>>) /\ <<>> \in Values
    <2>1. clerk \in [Client -> ClerkState] /\ clerk[c].at = "calling" /\ Reply(c, <<>>)
      BY DEF Put, IInv, Types
    <2>2. o \in Operation /\ o.op = "Put"
      BY <1>0, <2>1 DEF Put, IInv, Types
    <2>3. o.key \in Key /\ \E x \in Letter : o.arg = <<x>>
      BY <2>2 DEF Operation
    <2> QED
      BY <2>1, <2>2, <2>3 DEF Values
  <1>2. CallMap[c] = <<o>>
    BY <1>0, <1>1 DEF CallMap
  <1>3. CASE Remembered(Id(c)) # <<>>
    <2>1. idMp' = idMp /\ kvMp' = kvMp
      BY <1>3 DEF Put
    <2>2. AnsweredBy([clerk[c] EXCEPT !.at = "replied", !.reply = <<>>], Remembered(Id(c)))
      BY <1>0, <1>1, <1>3 DEF AnsweredBy, ClerkState
    <2>3. /\ IInv' /\ CallMap' = CallMap /\ StoreMap' = StoreMap
          /\ ResultMap' = [ResultMap EXCEPT ![c] = <<<<>>>>]
      BY <1>1, <2>1, <2>2, ReplySame
    <2>4. ResultMap[c] = <<<<>>>>
      BY <1>0, <1>1, <1>3 DEF ResultMap, ResultOf
    <2>5. ResultMap' = ResultMap
      BY <2>3, <2>4 DEF ResultMap
    <2> QED
      BY <2>3, <2>5 DEF Refines, KV!vars
  <1>4. CASE Remembered(Id(c)) = <<>>
    <2>1. kvMp' = [kvMp EXCEPT ![o.key] = <<o.arg>>] /\ Remember(Id(c), o.arg)
      BY <1>0, <1>4 DEF Put
    <2>2. AnsweredBy([clerk[c] EXCEPT !.at = "replied", !.reply = <<>>], <<o.arg>>)
      BY <1>0, <1>1 DEF AnsweredBy, ClerkState
    <2>3. kvMp \in [Key -> Seq(Values)] /\ kvMp' \in [Key -> Seq(Values)]
      BY <1>1, <2>1 DEF IInv, Types
    <2>4. /\ IInv' /\ CallMap' = CallMap /\ ResultMap[c] = <<>>
          /\ ResultMap' = [ResultMap EXCEPT ![c] = <<<<>>>>]
      BY <1>1, <1>4, <2>1, <2>2, <2>3, NewEntry
    <2>5. StoreMap' = [StoreMap EXCEPT ![o.key] = o.arg]
      BY <1>1, <2>1, <2>3 DEF StoreMap, Value
    <2>6. Refines
      BY <1>1, <1>2, <2>4, <2>5, IsPerform
    <2> QED
      BY <2>4, <2>6
  <1> QED
    BY <1>3, <1>4

LEMMA AppendStep ==
  ASSUME IInv, NEW c \in Client, AppendTo(c)
  PROVE  IInv' /\ Refines
  <1>0. PICK o : o = clerk[c].op
    OBVIOUS
  <1>1. /\ clerk[c].at = "calling" /\ o.op = "Append" /\ o \in Operation /\ o.key \in Key
        /\ o.arg \in Values /\ clerk \in [Client -> ClerkState]
    <2>1. clerk \in [Client -> ClerkState] /\ clerk[c].at = "calling"
      BY DEF AppendTo, IInv, Types
    <2>2. o \in Operation /\ o.op = "Append"
      BY <1>0, <2>1 DEF AppendTo, IInv, Types
    <2>3. o.key \in Key /\ \E x \in Letter : o.arg = <<x>>
      BY <2>2 DEF Operation
    <2> QED
      BY <2>1, <2>2, <2>3 DEF Values
  <1>2. CallMap[c] = <<o>>
    BY <1>0, <1>1 DEF CallMap
  <1>3. CASE Remembered(Id(c)) # <<>>
    <2>1. PICK v \in Values : Remembered(Id(c)) = <<v>>
      BY <1>3, RememberedValue
    <2>2. Reply(c, v) /\ idMp' = idMp /\ kvMp' = kvMp
      BY <1>3, <2>1 DEF AppendTo
    <2>3. AnsweredBy([clerk[c] EXCEPT !.at = "replied", !.reply = v], Remembered(Id(c)))
      BY <1>0, <1>1, <2>1 DEF AnsweredBy, ClerkState
    <2>4. /\ IInv' /\ CallMap' = CallMap /\ StoreMap' = StoreMap
          /\ ResultMap' = [ResultMap EXCEPT ![c] = <<v>>]
      BY <1>1, <2>2, <2>3, ReplySame
    <2>5. ResultMap[c] = <<v>>
      BY <1>0, <1>1, <2>1 DEF ResultMap, ResultOf
    <2>6. ResultMap' = ResultMap
      BY <2>4, <2>5 DEF ResultMap
    <2> QED
      BY <2>4, <2>6 DEF Refines, KV!vars
  <1>4. CASE Remembered(Id(c)) = <<>>
    <2>1. PICK v \in Values : v = Value(o.key)
      BY <1>1, ValueType
    <2>2. PICK new \in Values : new = v \o o.arg
      <3>1. o.arg \in Seq(Letter) /\ v \in Seq(Letter)
        BY <1>1, <2>1 DEF Values
      <3>2. v \o o.arg \in Seq(Letter)
        BY <3>1
      <3> QED
        BY <3>2 DEF Values
    <2>3. /\ kvMp' = [kvMp EXCEPT ![o.key] = <<new>>]
          /\ Reply(c, v) /\ Remember(Id(c), v)
      BY <1>0, <1>4, <2>1, <2>2 DEF AppendTo
    <2>4. AnsweredBy([clerk[c] EXCEPT !.at = "replied", !.reply = v], <<v>>)
      BY <1>0, <1>1 DEF AnsweredBy, ClerkState
    <2>5. kvMp \in [Key -> Seq(Values)] /\ kvMp' \in [Key -> Seq(Values)]
      BY <1>1, <2>3 DEF IInv, Types
    <2>6. /\ IInv' /\ CallMap' = CallMap /\ ResultMap[c] = <<>>
          /\ ResultMap' = [ResultMap EXCEPT ![c] = <<v>>]
      BY <1>1, <1>4, <2>3, <2>4, <2>5, NewEntry
    <2>7. StoreMap[o.key] = v /\ StoreMap' = [StoreMap EXCEPT ![o.key] = new]
      BY <1>1, <2>1, <2>3, <2>5 DEF StoreMap, Value
    <2>8. Refines
      BY <1>1, <1>2, <2>2, <2>6, <2>7, IsPerform
    <2> QED
      BY <2>6, <2>8
  <1> QED
    BY <1>3, <1>4

LEMMA DeleteIdStep ==
  ASSUME IInv, NEW c \in Client, DeleteId(c)
  PROVE  IInv' /\ Refines
  <1>0. PICK r : r = [clerk[c] EXCEPT !.at = "deleted"]
    OBVIOUS
  <1>1. /\ r \in ClerkState /\ r.at = "deleted" /\ r.n = clerk[c].n
        /\ r.op = clerk[c].op /\ r.reply = clerk[c].reply /\ r.op \in Operation
        /\ clerk[c].at = "deleting" /\ clerk \in [Client -> ClerkState]
        /\ clerk' = [clerk EXCEPT ![c] = r] /\ kvMp' = kvMp
    BY <1>0 DEF DeleteId, IInv, Types, ClerkState, Places
  <1>2. PICK id : id = Id(c) /\ id = <<c, r.n>>
    BY <1>1 DEF Id
  <1>3. idMp' = {e \in idMp : e.id # id}
    BY <1>2 DEF DeleteId
  <1>4. OneEach' /\ \A other : other # id => Remembered(other)' = Remembered(other)
    BY <1>3, DropsEntry DEF IInv
  <1>5. Elsewhere(c, r)
    BY <1>1, <1>2, <1>4 DEF Elsewhere
  <1>6. IInv'
    <2>1. /\ kvMp' \in [Key -> Seq(Values)]
          /\ idMp' \subseteq [id : Client \X Nat, value : Values]
      BY <1>1, <1>3 DEF IInv, Types
    <2>2. \A e \in idMp : e.id[1] = c => e.id = id
      BY <1>2 DEF IInv, Pending
    <2>3. \A e \in idMp' : e \in idMp /\ e.id[1] # c
      BY <1>3, <2>2
    <2> QED
      BY <1>1, <1>4, <1>5, <2>1, <2>3, Preserved
  <1>7. CallMap' = CallMap /\ ResultMap' = ResultMap
    <2>1. PICK m : m = Remembered(<<c, r.n>>)'
      OBVIOUS
    <2>2. Types /\ r \in ClerkState
      BY <1>1 DEF IInv
    <2>3. /\ CallMap' = [CallMap EXCEPT ![c] = IF r.at = "idle" THEN <<>> ELSE <<r.op>>]
          /\ ResultMap' = [ResultMap EXCEPT ![c] = ResultOf(r, m)]
      BY <1>5, <2>1, <2>2, Mapped
    <2>4. ResultOf(r, m) = ResultMap[c] /\ CallMap[c] = <<r.op>>
      BY <1>1 DEF ResultOf, ResultMap, CallMap
    <2> QED
      BY <1>1, <2>3, <2>4 DEF CallMap, ResultMap
  <1>8. StoreMap' = StoreMap
    BY <1>1 DEF StoreMap, Value
  <1> QED
    BY <1>6, <1>7, <1>8 DEF Refines, KV!vars

\* A step of the clerk after the reply: r is its new state.
LEMMA ClerkMoves ==
  ASSUME IInv, NEW c \in Client, NEW r \in ClerkState,
         clerk' = [clerk EXCEPT ![c] = r], idMp' = idMp, kvMp' = kvMp,
         r.op = clerk[c].op, r.n = clerk[c].n, clerk[c].at # "idle",
         \/ clerk[c].at = "replied" /\ r.at \in {"calling", "deleting"}
         \/ clerk[c].at = "deleted" /\ r.at \in {"deleting", "idle"}
  PROVE  /\ IInv' /\ StoreMap' = StoreMap
         /\ CallMap' = [CallMap EXCEPT ![c] = IF r.at = "idle" THEN <<>> ELSE <<r.op>>]
         /\ ResultMap' = [ResultMap EXCEPT ![c] = ResultOf(r, Remembered(Id(c)))]
  <1>1. r.op \in Operation
    BY DEF IInv, Types
  <1>2. clerk[c].at = "deleted" => Remembered(Id(c)) = <<>>
    BY Fresh DEF IInv, Id
  <1>3. PICK m : m = Remembered(<<c, r.n>>)
    OBVIOUS
  <1>4. m = Remembered(Id(c))
    BY <1>3 DEF Id
  <1>5. IInv' /\ Elsewhere(c, r) /\ Remembered(<<c, r.n>>)' = m /\ StoreMap' = StoreMap
    BY <1>1, <1>2, <1>3, SameEntries
  <1>6. Types
    BY DEF IInv
  <1>7. /\ CallMap' = [CallMap EXCEPT ![c] = IF r.at = "idle" THEN <<>> ELSE <<r.op>>]
        /\ ResultMap' = [ResultMap EXCEPT ![c] = ResultOf(r, m)]
    BY <1>5, <1>6, Mapped
  <1> QED
    BY <1>4, <1>5, <1>7

\* A Get that found no value is undone in KVStore, every other result stays.
LEMMA LoseReplyStep ==
  ASSUME IInv, NEW c \in Client, LoseReply(c)
  PROVE  IInv' /\ Refines
  <1>0. PICK r : r = [clerk[c] EXCEPT !.at = IF clerk[c].at = "replied" THEN "calling" ELSE "deleting"]
    OBVIOUS
  <1>1. /\ clerk \in [Client -> ClerkState] /\ idMp' = idMp /\ kvMp' = kvMp
        /\ clerk[c].at \in {"replied", "deleted"} /\ clerk[c].op \in Operation
    BY DEF LoseReply, IInv, Types
  <1>2. /\ r \in ClerkState /\ r.n = clerk[c].n /\ r.op = clerk[c].op
        /\ r.reply = clerk[c].reply /\ clerk' = [clerk EXCEPT ![c] = r]
        /\ \/ clerk[c].at = "replied" /\ r.at = "calling"
           \/ clerk[c].at = "deleted" /\ r.at = "deleting"
    BY <1>0, <1>1 DEF LoseReply, ClerkState, Places
  <1>3. PICK m : m = Remembered(Id(c))
    OBVIOUS
  <1>4. /\ IInv' /\ StoreMap' = StoreMap
        /\ CallMap' = [CallMap EXCEPT ![c] = <<r.op>>]
        /\ ResultMap' = [ResultMap EXCEPT ![c] = ResultOf(r, m)]
    BY <1>1, <1>2, <1>3, ClerkMoves
  <1>5. CallMap[c] = <<r.op>> /\ ResultMap[c] = <<r.reply>> /\ CallMap' = CallMap
    <2>1. CallMap[c] = <<r.op>> /\ ResultMap[c] = <<r.reply>>
      BY <1>1, <1>2 DEF CallMap, ResultMap, ResultOf
    <2> QED
      BY <1>4, <2>1 DEF CallMap
  <1>6. CASE ResultOf(r, m) = <<r.reply>>
    <2>1. ResultMap' = ResultMap
      BY <1>4, <1>5, <1>6 DEF ResultMap
    <2> QED
      BY <1>4, <1>5, <2>1 DEF Refines, KV!vars
  <1>7. CASE ResultOf(r, m) # <<r.reply>>
    <2>1. clerk[c].at = "replied" /\ r.at = "calling"
      BY <1>2, <1>7 DEF ResultOf
    <2>2. AnsweredBy(clerk[c], m)
      BY <1>3, <2>1 DEF IInv, Answered
    <2>3. AnsweredBy(r, m)
      BY <1>2, <2>2 DEF AnsweredBy
    <2>4. r.op.op \in {"Get", "Put", "Append"}
      BY <1>1, <1>2 DEF Operation
    <2>5. r.op.op = "Get" /\ m = <<>>
      BY <1>7, <2>1, <2>3, <2>4 DEF ResultOf, AnsweredBy
    <2>6. ResultOf(r, m) = <<>>
      BY <2>1, <2>5 DEF ResultOf
    <2>7. CallMap[c] # <<>> /\ CallMap[c][1] = r.op
      BY <1>5
    <2>8. KV!Retract(c)
      BY <1>4, <1>5, <2>5, <2>6, <2>7 DEF KV!Retract, KV!Absent
    <2> QED
      BY <1>4, <2>8 DEF Refines, KV!Next
  <1> QED
    BY <1>6, <1>7

LEMMA ReceiveStep ==
  ASSUME IInv, NEW c \in Client, Receive(c)
  PROVE  IInv' /\ Refines
  <1>1. /\ clerk \in [Client -> ClerkState] /\ idMp' = idMp /\ kvMp' = kvMp
        /\ clerk[c].at \in {"replied", "deleted"} /\ clerk[c].op \in Operation
    BY DEF Receive, IInv, Types
  <1>2. PICK m : m = Remembered(Id(c))
    OBVIOUS
  <1>3. ResultMap[c] = <<clerk[c].reply>> /\ CallMap[c] = <<clerk[c].op>>
    BY <1>1 DEF ResultMap, ResultOf, CallMap
  <1>4. CASE clerk[c].at = "replied"
    <2>0. PICK r : r = [clerk[c] EXCEPT !.at = "deleting"]
      OBVIOUS
    <2>1. /\ r \in ClerkState /\ r.n = clerk[c].n /\ r.op = clerk[c].op /\ r.at = "deleting"
          /\ r.reply = clerk[c].reply /\ clerk' = [clerk EXCEPT ![c] = r]
      BY <1>1, <1>4, <2>0 DEF Receive, ClerkState, Places
    <2>2. /\ IInv' /\ StoreMap' = StoreMap
          /\ CallMap' = [CallMap EXCEPT ![c] = <<r.op>>]
          /\ ResultMap' = [ResultMap EXCEPT ![c] = ResultOf(r, m)]
      BY <1>1, <1>2, <1>4, <2>1, ClerkMoves
    <2>3. ResultOf(r, m) = <<r.reply>>
      BY <2>1 DEF ResultOf
    <2>4. CallMap' = CallMap
      BY <1>3, <2>1, <2>2 DEF CallMap
    <2>5. ResultMap' = ResultMap
      BY <1>3, <2>1, <2>2, <2>3 DEF ResultMap
    <2> QED
      BY <2>2, <2>4, <2>5 DEF Refines, KV!vars
  <1>5. CASE clerk[c].at = "deleted"
    <2>0. PICK r : r = [clerk[c] EXCEPT !.at = "idle", !.reply = <<>>]
      OBVIOUS
    <2>1. /\ r \in ClerkState /\ r.n = clerk[c].n /\ r.op = clerk[c].op /\ r.at = "idle"
          /\ clerk' = [clerk EXCEPT ![c] = r]
      <3>1. clerk[c] \in ClerkState /\ <<>> \in Values
        BY <1>1 DEF Values
      <3>2. r \in ClerkState /\ r.n = clerk[c].n /\ r.op = clerk[c].op /\ r.at = "idle"
        BY <2>0, <3>1 DEF ClerkState, Places
      <3>3. clerk' = [clerk EXCEPT ![c] = r]
        BY <1>1, <1>5, <2>0, <3>1 DEF Receive, ClerkState
      <3> QED
        BY <3>2, <3>3
    <2>2. /\ IInv' /\ StoreMap' = StoreMap
          /\ CallMap' = [CallMap EXCEPT ![c] = <<>>]
          /\ ResultMap' = [ResultMap EXCEPT ![c] = ResultOf(r, m)]
      BY <1>1, <1>2, <1>5, <2>1, ClerkMoves
    <2>3. ResultOf(r, m) = <<>> /\ ResultMap[c] # <<>>
      BY <1>3, <2>1 DEF ResultOf
    <2>4. KV!Return(c)
      BY <2>2, <2>3 DEF KV!Return, KV!Absent
    <2> QED
      BY <2>2, <2>4 DEF Refines, KV!Next
  <1> QED
    BY <1>1, <1>4, <1>5

-----------------------------------------------------------------------------
(* The theorems.                                                           *)

LEMMA Initially ==
  ASSUME Init
  PROVE  IInv /\ KV!Init
  <1>1. Types
    BY DEF Init, Types, ClerkState, Places, Values, NoOperation
  <1>2. OneEach /\ Pending /\ Answered
    BY DEF Init, OneEach, Pending, Answered
  <1>3. KV!Init
    BY DEF Init, KV!Init, KV!Absent, StoreMap, CallMap, ResultMap, ResultOf, Value
  <1> QED
    BY <1>1, <1>2, <1>3 DEF IInv

LEMMA Steps ==
  ASSUME IInv, [Next]_vars
  PROVE  IInv' /\ Refines
  <1>1. ASSUME NEW c \in Client, NEW o \in Operation, Begin(c, o) PROVE IInv' /\ Refines
    BY <1>1, BeginStep
  <1>2. ASSUME NEW c \in Client, Handle(c) PROVE IInv' /\ Refines
    BY <1>2, GetStep, PutStep, AppendStep, DeleteIdStep DEF Handle
  <1>3. ASSUME NEW c \in Client, LoseReply(c) \/ Receive(c) PROVE IInv' /\ Refines
    BY <1>3, LoseReplyStep, ReceiveStep
  <1>4. CASE UNCHANGED vars
    <2>1. kvMp' = kvMp /\ idMp' = idMp /\ clerk' = clerk
      BY <1>4 DEF vars
    <2>2. IInv'
      BY <2>1 DEF IInv, Types, OneEach, Pending, Answered, AnsweredBy, Id, Remembered
    <2>3. UNCHANGED KV!vars
      BY <2>1 DEF KV!vars, StoreMap, CallMap, ResultMap, ResultOf, Value, Id, Remembered
    <2> QED
      BY <2>2, <2>3 DEF Refines
  <1> QED
    BY <1>1, <1>2, <1>3, <1>4 DEF Next

\* Between its operations a clerk leaves nothing behind on the server, what is
\* remembered of an operation belongs to a clerk that may ask for it again, and a
\* clerk whose reply was lost can be answered as before.
THEOREM Invariance == Spec => []IInv
  <1>1. Init => IInv
    BY Initially
  <1>2. IInv /\ [Next]_vars => IInv'
    BY Steps
  <1> QED
    BY <1>1, <1>2, PTL DEF Spec

\* One entry for a clerk: there are no more entries than clerks.
LEMMA FewEntries ==
  ASSUME IInv
  PROVE  RemembersOnlyPending
  <1> DEFINE owner == [e \in idMp |-> e.id[1]]
  <1>1. owner \in [idMp -> Client]
    BY DEF IInv, Types
  <1>2. \A e, f \in idMp : owner[e] = owner[f] => e = f
    BY DEF IInv, Pending, OneEach
  <1>3. owner \in Injection(idMp, Client)
    BY <1>1, <1>2 DEF Injection, IsInjective
  <1>4. PICK f \in Injection(idMp, Client) : TRUE
    BY <1>3
  <1>5. Cardinality(idMp) <= Cardinality(Client)
    BY <1>4, ClientAssumption, FS_Injection
  <1> QED
    BY <1>5 DEF IInv, Pending, RemembersOnlyPending

\* The server remembers at most one result of each clerk, whatever is lost and
\* however many operations there were: its memory is bounded by the clerks.
THEOREM MemoryBounded == Spec => []RemembersOnlyPending
  BY Invariance, FewEntries, PTL

\* Server and clerks implement KVStore: every operation takes effect exactly once
\* between its call and its return, for any clerks, keys and number of operations.
THEOREM Implements == Spec => Linearizable
  <1>1. Init => KV!Init
    BY Initially
  <1>2. IInv /\ [Next]_vars => [KV!Next]_(KV!vars)
    BY Steps DEF Refines
  <1> QED
    BY <1>1, <1>2, Invariance, PTL DEF Spec, KV!Spec, Linearizable

=============================================================================
