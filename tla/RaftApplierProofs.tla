------------------------- MODULE RaftApplierProofs -------------------------
(***************************************************************************)
(* Proofs about RaftApplier, for any number of terms, entries, snapshots   *)
(* and restarts: what the applier reads outside the lock is committed, a   *)
(* request is intact in its term, and the key/value service misses nothing.*)
(***************************************************************************)
EXTENDS RaftApplier, TLAPS

\* Every leaf is tried with Zenon for a moment, then with SMT, then with each of
\* them for longer.
USE ZenonT(2), SMTT(10), ZenonT(20), SMTT(40)

Slices ==
    [from : Nat \ {0}, cells : Seq(Nat), made : Seq(Nat), shared : BOOLEAN, term : Nat]

Types ==
    /\ term \in Nat /\ leading \in BOOLEAN
    /\ log \in Seq(Nat) /\ chosen \in Seq(Nat)
    /\ first \in Nat /\ commit \in Nat /\ lastApplied \in Nat /\ seen \in Nat
    /\ batch \in Slices /\ request \in Slices
    /\ peer \in [term : Nat, log : Seq(Nat)]
    /\ pushing \subseteq [index : Nat, pushed : BOOLEAN]

\* The log has what is committed up to m.
Agree(m) ==
    m <= Len(log) /\ m <= Len(chosen) /\ \A j \in 1 .. m : log[j] = chosen[j]

\* The leader of the latest term has what is committed, and a log with an entry of
\* its term has what it has up to there.
Cluster ==
    /\ leading => term # peer.term
    /\ peer.term >= term => IsPrefix(chosen, peer.log)
    /\ leading /\ term >= peer.term => IsPrefix(chosen, log)
    /\ \A k \in 1 .. Len(log) : log[k] <= term \/ log[k] <= peer.term
    /\ \A k \in 1 .. Len(peer.log) : peer.log[k] <= peer.term
    /\ \A k \in 1 .. Len(log) :
         log[k] = peer.term =>
            k <= Len(peer.log) /\ \A j \in 1 .. k : log[j] = peer.log[j]

\* What is committed, in the snapshot or in the applier's slice stays in the log,
\* although CommitIndex may go back.
Committed ==
    Agree(commit) /\ Agree(first) /\ Agree(batch.from - 1 + Len(batch.cells))

Intact ==
    \A i \in 1 .. Len(batch.cells) : batch.cells[i] = chosen[batch.from - 1 + i]

\* Whoever encodes a request of the current term leads it.
Requested ==
    /\ request.term <= term
    /\ request.term = term =>
         /\ request.cells = request.made
         /\ leading \/ request.cells = <<>>

IInv == Types /\ Cluster /\ Committed /\ Intact /\ Requested

-----------------------------------------------------------------------------
(* Sequences.                                                              *)

\* The first n elements of s.
LEMMA FirstOf ==
  ASSUME NEW s \in Seq(Nat), NEW n \in 0 .. Len(s)
  PROVE  /\ SubSeq(s, 1, n) \in Seq(Nat) /\ Len(SubSeq(s, 1, n)) = n
         /\ \A j \in 1 .. n : SubSeq(s, 1, n)[j] = s[j]
  OBVIOUS

LEMMA Appended ==
  ASSUME NEW s \in Seq(Nat), NEW x \in Nat
  PROVE  /\ Append(s, x) \in Seq(Nat) /\ Len(Append(s, x)) = Len(s) + 1
         /\ Append(s, x)[Len(s) + 1] = x
         /\ \A j \in 1 .. Len(s) : Append(s, x)[j] = s[j]
  OBVIOUS

LEMMA Concatenated ==
  ASSUME NEW s \in Seq(Nat), NEW t \in Seq(Nat)
  PROVE  /\ s \o t \in Seq(Nat) /\ Len(s \o t) = Len(s) + Len(t)
         /\ \A j \in 1 .. Len(s) + Len(t) :
              (s \o t)[j] = IF j <= Len(s) THEN s[j] ELSE t[j - Len(s)]
  OBVIOUS

\* The place of the j-th entry of a slice in the log.
LEMMA Within ==
  ASSUME NEW f \in Nat \ {0}, NEW a \in Nat, NEW b \in Nat, NEW j \in 1 .. a, f - 1 + a <= b
  PROVE  f + j - 1 \in 1 .. b /\ f + j - 1 = f - 1 + j
  OBVIOUS

\* What append does to the cells of a slice that shares the array.
LEMMA WrittenCells ==
  ASSUME NEW s \in Slices, NEW k \in Nat \ {0}, NEW es \in Seq(Nat)
  PROVE  LET w == Written(s, k, es) IN
         /\ w \in Slices /\ w.from = s.from /\ w.term = s.term /\ w.made = s.made
         /\ Len(w.cells) = Len(s.cells)
         /\ \A i \in 1 .. Len(s.cells) :
              \/ w.cells[i] = s.cells[i]
              \/ s.from + i - k \in 1 .. Len(es) /\ w.cells[i] = es[s.from + i - k]
  <1> DEFINE n == Len(s.cells)
             new == [i \in DOMAIN s.cells |-> LET j == s.from + i - k IN
                        IF j \in DOMAIN es THEN es[j] ELSE s.cells[i]]
             w == Written(s, k, es)
  <1>1. /\ s.cells \in Seq(Nat) /\ n \in Nat /\ DOMAIN s.cells = 1 .. n
        /\ DOMAIN es = 1 .. Len(es) /\ s.from \in Nat
    BY DEF Slices
  <1>2. \A i \in 1 .. n :
          /\ new[i] \in Nat
          /\ \/ new[i] = s.cells[i]
             \/ s.from + i - k \in 1 .. Len(es) /\ new[i] = es[s.from + i - k]
    BY <1>1
  <1>3. new \in Seq(Nat) /\ Len(new) = n
    <2>1. new \in [1 .. n -> Nat]
      BY <1>1, <1>2
    <2> QED
      BY <1>1, <2>1
  <1>4. CASE ~s.shared
    BY <1>4 DEF Written
  <1>5. CASE s.shared
    <2>1. w = [s EXCEPT !.cells = new, !.shared = FALSE]
      BY <1>5 DEF Written, Parted
    <2>2. /\ w \in Slices /\ w.from = s.from /\ w.term = s.term /\ w.made = s.made
          /\ w.cells = new
      BY <2>1, <1>3 DEF Slices
    <2> QED
      BY <2>2, <1>2, <1>3
  <1> QED
    BY <1>4, <1>5 DEF Slices

-----------------------------------------------------------------------------
(* What the types say of single fields.                                    *)

LEMMA Facts ==
  ASSUME Types
  PROVE  /\ Len(log) \in Nat /\ Len(chosen) \in Nat
         /\ \A k \in 1 .. Len(log) : log[k] \in Nat
         /\ \A k \in 1 .. Len(chosen) : chosen[k] \in Nat
         /\ batch.from \in Nat \ {0} /\ batch.cells \in Seq(Nat) /\ Len(batch.cells) \in Nat
         /\ request.term \in Nat /\ request.cells \in Seq(Nat) /\ Len(request.cells) \in Nat
         /\ peer.term \in Nat /\ peer.log \in Seq(Nat) /\ Len(peer.log) \in Nat
         /\ \A k \in 1 .. Len(peer.log) : peer.log[k] \in Nat
         /\ batch.from - 1 + Len(batch.cells) \in Nat
  <1>1. /\ log \in Seq(Nat) /\ chosen \in Seq(Nat)
        /\ batch.from \in Nat \ {0} /\ batch.cells \in Seq(Nat)
        /\ request.term \in Nat /\ request.cells \in Seq(Nat)
        /\ peer.term \in Nat /\ peer.log \in Seq(Nat)
    BY DEF Types, Slices
  <1>s. \A s \in Seq(Nat) : Len(s) \in Nat /\ \A k \in 1 .. Len(s) : s[k] \in Nat
    OBVIOUS
  <1>2. Len(log) \in Nat /\ \A k \in 1 .. Len(log) : log[k] \in Nat
    BY <1>1, <1>s
  <1>3. Len(chosen) \in Nat /\ \A k \in 1 .. Len(chosen) : chosen[k] \in Nat
    BY <1>1, <1>s
  <1>4. Len(peer.log) \in Nat /\ \A k \in 1 .. Len(peer.log) : peer.log[k] \in Nat
    BY <1>1, <1>s
  <1>5. Len(batch.cells) \in Nat /\ Len(request.cells) \in Nat
    BY <1>1
  <1>6. batch.from - 1 + Len(batch.cells) \in Nat
    BY <1>1, <1>5
  <1> QED
    BY <1>1, <1>2, <1>3, <1>4, <1>5, <1>6

LEMMA InitIInv == Init => IInv
  <1> SUFFICES ASSUME Init PROVE IInv
    OBVIOUS
  <1>1. /\ log = <<>> /\ chosen = <<>> /\ term = 0 /\ leading = FALSE
        /\ peer.term = 0 /\ peer.log = <<>> /\ first = 0 /\ commit = 0
        /\ batch.from = 1 /\ batch.cells = <<>>
        /\ request.term = 0 /\ request.cells = <<>> /\ request.made = <<>>
    BY DEF Init, NoSlice
  <1>a. <<>> \in Seq(Nat)
    OBVIOUS
  <1>b. NoSlice \in Slices
    BY <1>a DEF Slices, NoSlice
  <1>2. Types
    BY <1>a, <1>b DEF Init, Types
  <1>3. Cluster
    BY <1>1 DEF Cluster, IsPrefix
  <1>4. Committed /\ Intact
    BY <1>1 DEF Committed, Agree, Intact
  <1> QED
    BY <1>1, <1>2, <1>3, <1>4 DEF IInv, Requested

-----------------------------------------------------------------------------
(* The rest of the cluster.                                                *)

\* Nothing that the applier and the log depend on changes.
LEMMA SameLog ==
  ASSUME Committed, Intact, UNCHANGED <<log, chosen, batch, commit, first>>
  PROVE  Committed' /\ Intact'
  BY DEF Committed, Agree, Intact

\* More is committed than was.
LEMMA MoreChosen ==
  ASSUME Types, Committed, Intact, chosen' \in Seq(Nat), IsPrefix(chosen, chosen'),
         UNCHANGED <<log, batch, first>>
  PROVE  /\ \A m \in Nat : Agree(m) => Agree(m)'
         /\ Agree(first)' /\ Agree(batch.from - 1 + Len(batch.cells))' /\ Intact'
  <1>1. Len(chosen) \in Nat /\ Len(chosen') \in Nat /\ Len(log) \in Nat
    BY Facts
  <1>2. ASSUME NEW m \in Nat, Agree(m) PROVE Agree(m)'
    <2>1. log' = log
      OBVIOUS
    <2>2. m <= Len(log') /\ m <= Len(chosen') /\ \A j \in 1 .. m : j \in 1 .. Len(chosen)
      BY <1>1, <1>2, <2>1 DEF Agree, IsPrefix
    <2>3. \A j \in 1 .. m : log'[j] = chosen'[j]
      BY <1>2, <2>1, <2>2 DEF Agree, IsPrefix
    <2> QED
      BY <2>2, <2>3 DEF Agree
  <1>3. batch.from - 1 + Len(batch.cells) \in Nat /\ first \in Nat
    BY Facts DEF Types
  <1>4. Agree(first)' /\ Agree(batch.from - 1 + Len(batch.cells))'
    BY <1>2, <1>3 DEF Committed, Agree
  <1>5. \A i \in 1 .. Len(batch.cells) : batch.from - 1 + i \in 1 .. Len(chosen)
    <2>1. batch.from \in Nat \ {0} /\ Len(batch.cells) \in Nat
      BY Facts
    <2>2. batch.from - 1 + Len(batch.cells) <= Len(chosen)
      BY DEF Committed, Agree
    <2> QED
      BY <1>1, <2>1, <2>2
  <1>6. Intact'
    BY <1>5 DEF Intact, IsPrefix
  <1> QED
    BY <1>2, <1>4, <1>6

LEMMA PeerElectedStep ==
  ASSUME IInv, PeerElected
  PROVE  IInv'
  <1>1. PICK l \in {log, peer.log} : \E n \in Len(chosen) .. Len(l) :
          /\ IsPrefix(chosen, l)
          /\ peer' = [term |-> Newest + 1, log |-> SubSeq(l, 1, n)]
    BY DEF PeerElected
  <1>2. PICK n \in Len(chosen) .. Len(l) :
          /\ IsPrefix(chosen, l)
          /\ peer' = [term |-> Newest + 1, log |-> SubSeq(l, 1, n)]
    BY <1>1
  <1>t. /\ Types /\ term \in Nat /\ peer.term \in Nat
        /\ log \in Seq(Nat) /\ peer.log \in Seq(Nat) /\ chosen \in Seq(Nat)
        /\ Len(log) \in Nat /\ Len(peer.log) \in Nat /\ Len(chosen) \in Nat
    BY Facts DEF IInv, Types
  <1>3. /\ l \in Seq(Nat) /\ Len(l) \in Nat /\ n \in 0 .. Len(l) /\ Newest \in Nat
        /\ Newest >= term /\ Newest >= peer.term
    BY <1>t DEF Newest, Max2
  <1>u. /\ \A j \in 1 .. Len(log) : log[j] \in Nat /\ log[j] <= Newest
        /\ \A j \in 1 .. Len(peer.log) : peer.log[j] \in Nat /\ peer.log[j] <= Newest
    <2>1. ASSUME NEW j \in 1 .. Len(log) PROVE log[j] \in Nat /\ log[j] <= Newest
      <3>1. log[j] \in Nat
        BY <1>t, Facts
      <3>2. log[j] <= term \/ log[j] <= peer.term
        BY DEF IInv, Cluster
      <3> QED
        BY <1>3, <1>t, <3>1, <3>2
    <2>2. ASSUME NEW j \in 1 .. Len(peer.log)
          PROVE  peer.log[j] \in Nat /\ peer.log[j] <= Newest
      <3>1. peer.log[j] \in Nat
        BY <1>t, Facts
      <3>2. peer.log[j] <= peer.term
        BY DEF IInv, Cluster
      <3> QED
        BY <1>3, <1>t, <3>1, <3>2
    <2> QED
      BY <2>1, <2>2
  <1>4. IsPrefix(chosen, l)
    BY <1>2, <1>3, <1>t
  <1>5. /\ peer'.log \in Seq(Nat) /\ Len(peer'.log) = n
        /\ \A j \in 1 .. n : peer'.log[j] = l[j]
    BY <1>2, <1>3, FirstOf
  <1>6. \A j \in 1 .. Len(l) : l[j] \in Nat /\ l[j] <= Newest
    BY <1>u
  <1>7. /\ UNCHANGED <<term, leading, log, first, commit, lastApplied, batch, request,
                       pushing, seen, chosen>>
        /\ peer'.term = Newest + 1 /\ peer' \in [term : Nat, log : Seq(Nat)]
    BY <1>2, <1>3, <1>5 DEF PeerElected
  <1>8. Types'
    BY <1>7 DEF IInv, Types
  <1>9. IsPrefix(chosen, peer'.log)
    <2>1. Len(chosen) <= Len(peer'.log) /\ \A j \in 1 .. Len(chosen) : j \in 1 .. n
      BY <1>2, <1>3, <1>5, <1>t
    <2>2. \A j \in 1 .. Len(chosen) : chosen[j] = peer'.log[j]
      BY <1>4, <1>5, <2>1 DEF IsPrefix
    <2> QED
      BY <2>1, <2>2 DEF IsPrefix
  <1>10. Cluster'
    <2>2. ~(term >= peer'.term) /\ term # peer'.term
      BY <1>3, <1>7, <1>t
    <2>3. \A k \in 1 .. Len(log) : log[k] # peer'.term /\ log[k] <= peer'.term
      BY <1>u, <1>3, <1>7
    <2>4. \A k \in 1 .. Len(peer'.log) : peer'.log[k] <= peer'.term
      <3>1. ASSUME NEW k \in 1 .. n PROVE peer'.log[k] <= peer'.term
        <4>1. k \in 1 .. Len(l)
          BY <1>3
        <4>2. peer'.log[k] = l[k] /\ l[k] \in Nat /\ l[k] <= Newest
          BY <1>5, <1>6, <4>1
        <4> QED
          BY <1>3, <1>7, <4>2
      <3> QED
        BY <1>5, <3>1
    <2> QED
      BY <2>2, <2>3, <2>4, <1>7, <1>9 DEF Cluster, IsPrefix
  <1> QED
    BY <1>7, <1>8, <1>10, SameLog DEF IInv, Requested

LEMMA PeerStartStep ==
  ASSUME IInv, PeerStart
  PROVE  IInv'
  <1>t. /\ Types /\ peer.log \in Seq(Nat) /\ peer.term \in Nat /\ Len(peer.log) \in Nat
        /\ Len(log) \in Nat /\ Len(chosen) \in Nat
    BY Facts DEF IInv
  <1>1. /\ peer' = [peer EXCEPT !.log = Append(@, peer.term)]
        /\ UNCHANGED <<term, leading, log, first, commit, lastApplied, batch, request,
                       pushing, seen, chosen>>
    BY DEF PeerStart
  <1>2. /\ peer'.log = Append(peer.log, peer.term) /\ peer'.term = peer.term
        /\ peer' \in [term : Nat, log : Seq(Nat)]
    BY <1>1, <1>t, Appended DEF Types
  <1>3. /\ Len(peer'.log) = Len(peer.log) + 1 /\ peer'.log[Len(peer.log) + 1] = peer.term
        /\ \A j \in 1 .. Len(peer.log) : peer'.log[j] = peer.log[j]
    BY <1>t, <1>2, Appended
  <1>4. Types'
    BY <1>1, <1>2, <1>t DEF Types
  <1>5. peer'.term >= term' => IsPrefix(chosen', peer'.log)
    <2> SUFFICES ASSUME peer.term >= term PROVE IsPrefix(chosen, peer'.log)
      BY <1>1, <1>2
    <2>1. IsPrefix(chosen, peer.log)
      BY DEF IInv, Cluster
    <2>2. Len(chosen) <= Len(peer'.log) /\ \A j \in 1 .. Len(chosen) : j \in 1 .. Len(peer.log)
      BY <1>t, <1>3, <2>1 DEF IsPrefix
    <2> QED
      BY <1>3, <2>1, <2>2 DEF IsPrefix
  <1>6. \A k \in 1 .. Len(peer'.log) : peer'.log[k] <= peer'.term
    <2>1. ASSUME NEW k \in 1 .. Len(peer.log) + 1 PROVE peer'.log[k] <= peer.term
      <3>1. CASE k = Len(peer.log) + 1
        BY <3>1, <1>3, <1>t
      <3>2. CASE k \in 1 .. Len(peer.log)
        BY <3>2, <1>3 DEF IInv, Cluster
      <3> QED
        BY <3>1, <3>2, <1>t
    <2> QED
      BY <2>1, <1>2, <1>3
  <1>7. ASSUME NEW k \in 1 .. Len(log'), log'[k] = peer'.term
        PROVE  k <= Len(peer'.log) /\ \A j \in 1 .. k : log'[j] = peer'.log[j]
    <2>1. k \in 1 .. Len(log) /\ k <= Len(peer.log) /\ \A j \in 1 .. k : log[j] = peer.log[j]
      BY <1>1, <1>2, <1>7 DEF IInv, Cluster
    <2>2. k <= Len(peer'.log) /\ \A j \in 1 .. k : j \in 1 .. Len(peer.log)
      BY <2>1, <1>3, <1>t
    <2> QED
      BY <1>1, <1>3, <2>1, <2>2
  <1>8. Cluster'
    <2>1. /\ leading' => term' # peer'.term
          /\ \A k \in 1 .. Len(log') : log'[k] <= term' \/ log'[k] <= peer'.term
          /\ leading' /\ term' >= peer'.term => IsPrefix(chosen', log')
      BY <1>1, <1>2 DEF IInv, Cluster, IsPrefix
    <2> QED
      BY <1>5, <1>6, <1>7, <2>1 DEF Cluster
  <1> QED
    BY <1>1, <1>4, <1>8, SameLog DEF IInv, Requested

LEMMA PeerCommitStep ==
  ASSUME IInv, PeerCommit
  PROVE  IInv'
  <1>1. PICK n \in Len(chosen) + 1 .. Len(peer.log) : chosen' = SubSeq(peer.log, 1, n)
    BY DEF PeerCommit
  <1>t. /\ Types /\ peer.log \in Seq(Nat) /\ peer.term \in Nat /\ term \in Nat
        /\ Len(peer.log) \in Nat /\ Len(chosen) \in Nat /\ commit \in Nat
    BY Facts DEF IInv, Types
  <1>a. peer.term >= term
    BY <1>t DEF PeerCommit, Newest, Max2
  <1>b. n \in 0 .. Len(peer.log) /\ n >= Len(chosen)
    <2>1. Len(peer.log) \in Nat /\ Len(chosen) \in Nat
      BY <1>t
    <2> QED
      BY <2>1
  <1>2. n \in 0 .. Len(peer.log) /\ n >= Len(chosen) /\ peer.term >= term
    BY <1>a, <1>b
  <1>3. /\ chosen' \in Seq(Nat) /\ Len(chosen') = n
        /\ \A j \in 1 .. n : chosen'[j] = peer.log[j]
    BY <1>1, <1>2, <1>t, FirstOf
  <1>4. IsPrefix(chosen, chosen') /\ IsPrefix(chosen', peer.log)
    <2>1. IsPrefix(chosen, peer.log)
      BY <1>2 DEF IInv, Cluster
    <2>2. \A j \in 1 .. Len(chosen) : j \in 1 .. n
      BY <1>2, <1>t
    <2> QED
      BY <1>2, <1>3, <2>1, <2>2 DEF IsPrefix
  <1>5. UNCHANGED <<term, leading, log, first, commit, lastApplied, batch, request,
                    pushing, seen, peer>>
    BY DEF PeerCommit
  <1>6. Types'
    BY <1>3, <1>5, <1>t DEF Types
  <1>7. Cluster'
    <2>1. ~(leading' /\ term' >= peer'.term)
      BY <1>2, <1>5, <1>t DEF IInv, Cluster
    <2> QED
      BY <1>4, <1>5, <2>1 DEF IInv, Cluster, IsPrefix
  <1>8. /\ Agree(commit)' /\ Agree(first)' /\ Intact'
        /\ Agree(batch.from - 1 + Len(batch.cells))'
    <2>1. /\ \A m \in Nat : Agree(m) => Agree(m)'
          /\ Agree(first)' /\ Agree(batch.from - 1 + Len(batch.cells))' /\ Intact'
      BY <1>3, <1>4, <1>5, <1>t, MoreChosen DEF IInv
    <2>2. Agree(commit)'
      BY <1>5, <1>t, <2>1 DEF IInv, Committed, Agree
    <2> QED
      BY <2>1, <2>2
  <1> QED
    BY <1>5, <1>6, <1>7, <1>8 DEF IInv, Committed, Requested

-----------------------------------------------------------------------------
(* A leader.                                                               *)

LEMMA ElectedStep ==
  ASSUME IInv, Elected
  PROVE  IInv'
  <1>t. /\ Types /\ log \in Seq(Nat) /\ chosen \in Seq(Nat) /\ term \in Nat
        /\ peer.term \in Nat /\ request.term \in Nat /\ Len(log) \in Nat
    BY Facts DEF IInv, Types
  <1>1. /\ UNCHANGED <<log, first, commit, lastApplied, batch, request, pushing, seen, peer, chosen>>
        /\ term' = Newest + 1 /\ leading' = TRUE /\ IsPrefix(chosen, log)
    BY DEF Elected
  <1>2. /\ term' \in Nat /\ term' > term /\ term' > peer.term
    BY <1>1, <1>t DEF Newest, Max2
  <1>3. Types'
    BY <1>1, <1>2, <1>t DEF Types
  <1>4. IsPrefix(chosen, log)
    BY <1>1, <1>t
  <1>5. Cluster'
    <2>1. \A k \in 1 .. Len(log) : log[k] <= term' \/ log[k] <= peer.term
      <3> SUFFICES ASSUME NEW k \in 1 .. Len(log) PROVE log[k] <= term' \/ log[k] <= peer.term
        OBVIOUS
      <3>1. log[k] \in Nat /\ (log[k] <= term \/ log[k] <= peer.term)
        BY <1>t, Facts DEF IInv, Cluster
      <3> QED
        BY <3>1, <1>2, <1>t
    <2>2. ~(peer.term >= term') /\ term' # peer.term
      BY <1>2, <1>t
    <2> QED
      BY <1>1, <1>4, <2>1, <2>2 DEF IInv, Cluster, IsPrefix
  <1>6. Requested'
    <2>1. request.term <= term
      BY DEF IInv, Requested
    <2>2. request.term < term'
      BY <1>2, <1>t, <2>1
    <2> QED
      BY <1>1, <1>2, <1>t, <2>2 DEF Requested
  <1> QED
    BY <1>1, <1>3, <1>5, <1>6, SameLog DEF IInv

\* A slice of its own is still a slice with the same contents.
LEMMA PartedSlice ==
  ASSUME NEW s \in Slices
  PROVE  /\ Parted(s) \in Slices /\ Parted(s).from = s.from /\ Parted(s).cells = s.cells
         /\ Parted(s).made = s.made /\ Parted(s).term = s.term
  BY DEF Parted, Slices

LEMMA StartStep ==
  ASSUME IInv, Start
  PROVE  IInv'
  <1>t. /\ Types /\ log \in Seq(Nat) /\ Len(log) \in Nat /\ Len(chosen) \in Nat
        /\ term \in Nat /\ peer.term \in Nat /\ batch \in Slices /\ request \in Slices
        /\ commit \in Nat /\ first \in Nat /\ batch.from - 1 + Len(batch.cells) \in Nat
    BY Facts DEF IInv, Types
  <1>1. /\ UNCHANGED <<term, leading, first, commit, lastApplied, pushing, seen, peer, chosen>>
        /\ log' = Append(log, term) /\ leading
    BY DEF Start
  <1>2. /\ log' \in Seq(Nat) /\ Len(log') = Len(log) + 1 /\ log'[Len(log) + 1] = term
        /\ \A j \in 1 .. Len(log) : log'[j] = log[j]
    BY <1>1, <1>t, Appended
  <1>3. /\ batch' \in Slices /\ batch'.from = batch.from /\ batch'.cells = batch.cells
        /\ request' \in Slices /\ request'.cells = request.cells
        /\ request'.made = request.made /\ request'.term = request.term
    BY <1>t, PartedSlice DEF Start
  <1>4. Types'
    BY <1>1, <1>2, <1>3, <1>t DEF Types
  <1>5. term # peer.term
    BY <1>1 DEF IInv, Cluster
  <1>6. Cluster'
    <2>1. leading' /\ term' >= peer'.term => IsPrefix(chosen', log')
      <3> SUFFICES ASSUME term >= peer.term PROVE IsPrefix(chosen, log')
        BY <1>1
      <3>1. IsPrefix(chosen, log)
        BY <1>1 DEF IInv, Cluster
      <3>2. Len(chosen) <= Len(log') /\ \A j \in 1 .. Len(chosen) : j \in 1 .. Len(log)
        BY <1>2, <1>t, <3>1 DEF IsPrefix
      <3> QED
        BY <1>2, <3>1, <3>2 DEF IsPrefix
    <2>2. \A k \in 1 .. Len(log') : log'[k] <= term \/ log'[k] <= peer.term
      <3>1. ASSUME NEW k \in 1 .. Len(log) + 1 PROVE log'[k] <= term \/ log'[k] <= peer.term
        <4>1. CASE k = Len(log) + 1
          BY <4>1, <1>2, <1>t
        <4>2. CASE k \in 1 .. Len(log)
          BY <4>2, <1>2 DEF IInv, Cluster
        <4> QED
          BY <4>1, <4>2, <1>t
      <3> QED
        BY <3>1, <1>2
    <2>3. ASSUME NEW k \in 1 .. Len(log'), log'[k] = peer.term
          PROVE  k <= Len(peer.log) /\ \A j \in 1 .. k : log'[j] = peer.log[j]
      <3>1. k \in 1 .. Len(log) /\ \A j \in 1 .. k : j \in 1 .. Len(log)
        BY <1>2, <1>5, <1>t, <2>3
      <3>2. log[k] = peer.term
        BY <1>2, <2>3, <3>1
      <3>3. k <= Len(peer.log) /\ \A j \in 1 .. k : log[j] = peer.log[j]
        BY <3>1, <3>2 DEF IInv, Cluster
      <3> QED
        BY <1>2, <3>1, <3>3
    <2>4. /\ leading' => term' # peer'.term
          /\ peer'.term >= term' => IsPrefix(chosen', peer'.log)
          /\ \A k \in 1 .. Len(peer'.log) : peer'.log[k] <= peer'.term
      BY <1>1 DEF IInv, Cluster, IsPrefix
    <2> QED
      BY <1>1, <2>1, <2>2, <2>3, <2>4 DEF Cluster
  <1>7. ASSUME NEW m \in Nat, Agree(m) PROVE Agree(m)'
    <2>1. m <= Len(log') /\ m <= Len(chosen) /\ \A j \in 1 .. m : j \in 1 .. Len(log)
      BY <1>2, <1>7, <1>t DEF Agree
    <2> QED
      BY <1>1, <1>2, <1>7, <2>1 DEF Agree
  <1>8. Committed' /\ Intact'
    <2>1. Agree(commit)' /\ Agree(first)' /\ Agree(batch.from - 1 + Len(batch.cells))'
      BY <1>1, <1>3, <1>7, <1>t DEF IInv, Committed, Agree
    <2> QED
      BY <1>1, <1>3, <2>1 DEF IInv, Committed, Intact
  <1> QED
    BY <1>1, <1>3, <1>4, <1>6, <1>8 DEF IInv, Requested

LEMMA LeaderCommitStep ==
  ASSUME IInv, LeaderCommit
  PROVE  IInv'
  <1>t. /\ Types /\ log \in Seq(Nat) /\ chosen \in Seq(Nat) /\ Len(log) \in Nat
        /\ Len(chosen) \in Nat /\ term \in Nat /\ peer.term \in Nat /\ commit \in Nat
    BY Facts DEF IInv, Types
  <1>1. PICK n \in commit + 1 .. Len(log) :
          /\ commit' = n
          /\ chosen' = IF n > Len(chosen) THEN SubSeq(log, 1, n) ELSE chosen
    BY DEF LeaderCommit
  <1>2. /\ leading /\ term >= peer.term /\ term # peer.term
        /\ UNCHANGED <<term, leading, log, first, lastApplied, batch, request,
                       pushing, seen, peer>>
    BY <1>t DEF LeaderCommit, Newest, Max2, IInv, Cluster
  <1>3. IsPrefix(chosen, log) /\ n \in 0 .. Len(log) /\ n \in Nat
    BY <1>1, <1>2, <1>t DEF IInv, Cluster
  <1>4. /\ chosen' \in Seq(Nat) /\ n <= Len(chosen') /\ IsPrefix(chosen, chosen')
        /\ IsPrefix(chosen', log)
    <2>1. CASE n > Len(chosen)
      <3>1. chosen' = SubSeq(log, 1, n)
        BY <1>1, <2>1
      <3>2. /\ chosen' \in Seq(Nat) /\ Len(chosen') = n
            /\ \A j \in 1 .. n : chosen'[j] = log[j]
        BY <1>3, <1>t, <3>1, FirstOf
      <3>3. \A j \in 1 .. Len(chosen) : j \in 1 .. n
        BY <1>t, <1>3, <2>1
      <3>4. IsPrefix(chosen, chosen')
        <4>1. Len(chosen) <= Len(chosen')
          BY <1>t, <2>1, <3>2, <1>3
        <4>2. \A j \in 1 .. Len(chosen) : chosen[j] = chosen'[j]
          BY <1>3, <3>2, <3>3 DEF IsPrefix
        <4> QED
          BY <4>1, <4>2 DEF IsPrefix
      <3>5. IsPrefix(chosen', log)
        BY <1>3, <3>2 DEF IsPrefix
      <3> QED
        BY <1>3, <3>2, <3>4, <3>5
    <2>2. CASE ~(n > Len(chosen))
      BY <1>1, <1>3, <1>t, <2>2 DEF IsPrefix
    <2> QED
      BY <2>1, <2>2
  <1>5. Types'
    BY <1>1, <1>2, <1>3, <1>4, <1>t DEF Types
  <1>6. Cluster'
    <2>1. ~(peer.term >= term)
      BY <1>2, <1>t
    <2> QED
      BY <1>2, <1>4, <2>1 DEF IInv, Cluster, IsPrefix
  <1>7. Agree(commit)'
    <2>1. \A j \in 1 .. n : j \in 1 .. Len(chosen')
      BY <1>3, <1>4
    <2> QED
      BY <1>1, <1>2, <1>3, <1>4, <2>1 DEF Agree, IsPrefix
  <1>8. Agree(first)' /\ Agree(batch.from - 1 + Len(batch.cells))' /\ Intact'
    BY <1>2, <1>4, <1>t, MoreChosen DEF IInv
  <1> QED
    BY <1>2, <1>5, <1>6, <1>7, <1>8 DEF IInv, Committed, Requested

-----------------------------------------------------------------------------
(* A replicator, the applier, the snapshot goroutines and a restart.       *)

LEMMA RequestStep ==
  ASSUME IInv, Request
  PROVE  IInv'
  <1>t. Types /\ log \in Seq(Nat) /\ Len(log) \in Nat /\ first \in Nat /\ term \in Nat
    BY Facts DEF IInv, Types
  <1>1. PICK k \in first + 1 .. Len(log) : request' = Slice(k, Len(log))
    BY DEF Request
  <1>2. /\ UNCHANGED <<term, leading, log, first, commit, lastApplied, batch,
                       pushing, seen, peer, chosen>>
        /\ leading
    BY DEF Request
  <1>3. SubSeq(log, k, Len(log)) \in Seq(Nat) /\ k \in Nat \ {0}
    BY <1>1, <1>t
  <1>4. /\ request' \in Slices /\ request'.term = term /\ request'.cells = request'.made
    BY <1>1, <1>3, <1>t DEF Slice, Slices
  <1>5. Types'
    BY <1>2, <1>4, <1>t DEF Types
  <1>6. Cluster'
    BY <1>2 DEF IInv, Cluster, IsPrefix
  <1>7. Requested'
    BY <1>2, <1>4, <1>t DEF Requested
  <1> QED
    BY <1>2, <1>5, <1>6, <1>7, SameLog DEF IInv

\* No slice is a slice.
LEMMA NoSliceIs ==
  NoSlice \in Slices /\ NoSlice.from = 1 /\ NoSlice.cells = <<>> /\ NoSlice.made = <<>>
  /\ NoSlice.term = 0
  <1>1. <<>> \in Seq(Nat)
    OBVIOUS
  <1> QED
    BY <1>1 DEF NoSlice, Slices

LEMMA EncodeStep ==
  ASSUME IInv, Encode
  PROVE  IInv'
  <1>1. UNCHANGED <<term, leading, log, first, commit, lastApplied, batch,
                    pushing, seen, peer, chosen>>
    BY DEF Encode
  <1>2. request' \in Slices /\ request'.term = 0 /\ request'.cells = <<>> /\ request'.made = <<>>
    BY NoSliceIs DEF Encode
  <1>3. Types' /\ term \in Nat
    BY <1>1, <1>2 DEF IInv, Types
  <1>4. Cluster'
    BY <1>1 DEF IInv, Cluster, IsPrefix
  <1>5. Requested'
    BY <1>1, <1>2, <1>3 DEF Requested
  <1> QED
    BY <1>1, <1>3, <1>4, <1>5, SameLog DEF IInv

\* A log agrees with what is committed up to any earlier index, too.
LEMMA AgreeBelow ==
  ASSUME Types, NEW m \in Nat, NEW k \in 0 .. m, Agree(m)
  PROVE  Agree(k)
  <1>1. Len(log) \in Nat /\ Len(chosen) \in Nat
    BY Facts
  <1>2. k <= Len(log) /\ k <= Len(chosen) /\ \A j \in 1 .. k : j \in 1 .. m
    BY <1>1 DEF Agree
  <1> QED
    BY <1>2 DEF Agree

LEMMA TakeStep ==
  ASSUME IInv, Take
  PROVE  IInv'
  <1>t. /\ Types /\ log \in Seq(Nat) /\ Len(log) \in Nat /\ Len(chosen) \in Nat
        /\ first \in Nat /\ commit \in Nat /\ lastApplied \in Nat /\ term \in Nat
    BY Facts DEF IInv, Types
  <1>1. UNCHANGED <<term, leading, log, first, commit, lastApplied, request,
                    pushing, seen, peer, chosen>>
    BY DEF Take
  <1>2. Cluster' /\ Requested'
    BY <1>1 DEF IInv, Cluster, IsPrefix, Requested
  <1>3. CASE batch' = batch
    <2>1. Types'
      BY <1>1, <1>3, <1>t DEF Types
    <2> QED
      BY <1>1, <1>2, <1>3, <2>1, SameLog DEF IInv
  <1>4. CASE needApplyingLog /\ batch' = Slice(Max2(lastApplied, first) + 1, commit)
    <2>1. commit > lastApplied /\ Max2(lastApplied, first) = lastApplied
      BY <1>4, <1>t DEF needApplyingLog, Max2
    <2>a. batch' = Slice(lastApplied + 1, commit)
      BY <1>4, <2>1
    <2>2. Agree(commit)
      BY DEF IInv, Committed
    <2>3. commit <= Len(log)
      BY <2>2 DEF Agree
    <2> DEFINE c == SubSeq(log, lastApplied + 1, commit)
    <2>4. /\ c \in Seq(Nat) /\ Len(c) = commit - lastApplied
          /\ \A i \in 1 .. commit - lastApplied : c[i] = log[lastApplied + i]
      BY <1>t, <2>1, <2>3
    <2>5. /\ batch' \in Slices /\ batch'.from = lastApplied + 1 /\ batch'.cells = c
      <3>1. lastApplied + 1 \in Nat \ {0} /\ c \in Seq(Nat)
        BY <1>t, <2>4
      <3> HIDE DEF c
      <3> QED
        BY <2>a, <3>1, <1>t DEF Slice, Slices, c
    <2> HIDE DEF c
    <2>6. Types'
      BY <1>1, <1>t, <2>5 DEF Types
    <2>7. batch'.from - 1 + Len(batch'.cells) = commit
      BY <1>t, <2>4, <2>5
    <2>8. Committed'
      BY <1>1, <2>7 DEF IInv, Committed, Agree
    <2>9. Intact'
      <3>1. ASSUME NEW i \in 1 .. commit - lastApplied
            PROVE  c[i] = chosen[lastApplied + 1 - 1 + i]
        <4>1. lastApplied + i \in 1 .. commit /\ lastApplied + 1 - 1 + i = lastApplied + i
          BY <1>t
        <4>2. log[lastApplied + i] = chosen[lastApplied + i]
          BY <2>2, <4>1 DEF Agree
        <4> QED
          BY <2>4, <4>1, <4>2
      <3>2. /\ Len(batch'.cells) = commit - lastApplied /\ batch'.from = lastApplied + 1
            /\ batch'.cells = c /\ chosen' = chosen
        BY <1>1, <2>4, <2>5
      <3>3. \A i \in 1 .. Len(batch'.cells) : batch'.cells[i] = chosen'[batch'.from - 1 + i]
        <4> SUFFICES ASSUME NEW i \in 1 .. Len(batch'.cells)
                     PROVE  batch'.cells[i] = chosen'[batch'.from - 1 + i]
          OBVIOUS
        <4>1. c[i] = chosen[lastApplied + 1 - 1 + i]
          BY <3>1, <3>2
        <4> QED
          BY <1>t, <3>2, <4>1
      <3> QED
        BY <3>3 DEF Intact
    <2> QED
      BY <1>2, <2>6, <2>8, <2>9 DEF IInv
  <1> QED
    BY <1>3, <1>4 DEF Take

\* The applier has no slice.
LEMMA NoBatch ==
  ASSUME log' \in Seq(Nat), chosen' \in Seq(Nat), batch' = NoSlice
  PROVE  Agree(batch.from - 1 + Len(batch.cells))' /\ Intact'
  <1>1. /\ batch'.from = 1 /\ batch'.cells = <<>> /\ Len(batch'.cells) = 0
        /\ batch'.from - 1 + Len(batch'.cells) = 0
    BY NoSliceIs
  <1>2. 0 <= Len(log') /\ 0 <= Len(chosen')
    OBVIOUS
  <1> QED
    BY <1>1, <1>2 DEF Agree, Intact

LEMMA PushedStep ==
  ASSUME IInv, Pushed
  PROVE  IInv'
  <1>t. Types /\ log \in Seq(Nat) /\ chosen \in Seq(Nat)
    BY DEF IInv, Types
  <1>1. /\ UNCHANGED <<term, leading, log, first, commit, request,
                       pushing, seen, peer, chosen>>
        /\ batch' = NoSlice /\ lastApplied' = Max2(lastApplied, batch.from - 1)
    BY DEF Pushed
  <1>2. Cluster' /\ Requested'
    BY <1>1 DEF IInv, Cluster, IsPrefix, Requested
  <1>3. lastApplied' \in Nat
    <2>1. lastApplied \in Nat /\ batch.from \in Nat \ {0}
      BY <1>t, Facts DEF Types
    <2> QED
      BY <1>1, <2>1 DEF Max2
  <1>4. Types'
    BY <1>1, <1>3, <1>t, NoSliceIs DEF Types
  <1>5. Committed' /\ Intact'
    <2>1. Agree(batch.from - 1 + Len(batch.cells))' /\ Intact'
      BY <1>1, <1>t, NoBatch
    <2> QED
      BY <1>1, <2>1 DEF IInv, Committed, Agree
  <1> QED
    BY <1>2, <1>4, <1>5 DEF IInv

LEMMA PushStep ==
  ASSUME IInv, Push
  PROVE  IInv'
  <1>t. /\ Types /\ batch \in Slices /\ request \in Slices /\ first \in Nat /\ seen \in Nat
        /\ batch.from \in Nat \ {0} /\ batch.cells \in Seq(Nat) /\ Len(batch.cells) \in Nat
    BY Facts DEF IInv, Types
  <1>1. /\ UNCHANGED <<term, leading, log, commit, lastApplied, pushing, peer, chosen>>
        /\ batch' = [batch EXCEPT !.from = @ + 1, !.cells = Tail(@),
                                  !.shared = @ /\ first' = first]
        /\ batch.cells # <<>> /\ Receive(batch.from)
    BY DEF Push
  <1>2. /\ seen' = Max2(seen, batch.from)
        /\ first' = first \/ first' = batch.from
        /\ request' = request \/ request' = Parted(request)
    BY <1>1 DEF Receive
  <1>3. /\ request' \in Slices /\ request'.cells = request.cells
        /\ request'.made = request.made /\ request'.term = request.term
    BY <1>2, <1>t, PartedSlice
  <1>4. /\ batch'.from = batch.from + 1 /\ batch'.cells = Tail(batch.cells)
    BY <1>1, <1>t DEF Slices
  <1>5. /\ Tail(batch.cells) \in Seq(Nat) /\ Len(Tail(batch.cells)) = Len(batch.cells) - 1
        /\ Len(batch.cells) >= 1
        /\ \A i \in 1 .. Len(batch.cells) - 1 : Tail(batch.cells)[i] = batch.cells[i + 1]
    BY <1>1, <1>t
  <1>6. batch' \in Slices
    <2> DEFINE b == (batch.shared /\ first' = first)
    <2>1. b \in BOOLEAN
      BY DEF b
    <2>2. batch' = [batch EXCEPT !.from = batch.from + 1, !.cells = Tail(batch.cells),
                                 !.shared = b]
      BY <1>1
    <2>3. batch.from + 1 \in Nat \ {0}
      BY <1>t
    <2> HIDE DEF b
    <2> QED
      BY <1>5, <1>t, <2>1, <2>2, <2>3 DEF Slices
  <1>7. seen' \in Nat /\ first' \in Nat
    BY <1>2, <1>t DEF Max2
  <1>8. Types'
    BY <1>1, <1>3, <1>6, <1>7, <1>t DEF Types
  <1>9. Cluster' /\ Requested'
    BY <1>1, <1>3 DEF IInv, Cluster, IsPrefix, Requested
  <1>10. Agree(batch.from - 1 + Len(batch.cells)) /\ Agree(first) /\ Agree(commit)
    BY DEF IInv, Committed
  <1>11. Agree(batch.from)
    <2>1. /\ batch.from - 1 + Len(batch.cells) \in Nat
          /\ batch.from \in 0 .. batch.from - 1 + Len(batch.cells)
      BY <1>5, <1>t
    <2> QED
      BY <1>10, <1>t, <2>1, AgreeBelow
  <1>12. Committed'
    <2>1. batch'.from - 1 + Len(batch'.cells) = batch.from - 1 + Len(batch.cells)
      BY <1>4, <1>5, <1>t
    <2>2. Agree(first)'
      BY <1>1, <1>2, <1>10, <1>11 DEF Agree
    <2> QED
      BY <1>1, <1>10, <2>1, <2>2 DEF Committed, Agree
  <1>13. Intact'
    <2>1. ASSUME NEW i \in 1 .. Len(batch.cells) - 1
          PROVE  Tail(batch.cells)[i] = chosen[batch.from + 1 - 1 + i]
      <3>0. batch.from \in Nat /\ Len(batch.cells) \in Nat
        BY <1>t
      <3>1. /\ i + 1 \in 1 .. Len(batch.cells)
            /\ batch.from - 1 + (i + 1) = batch.from + 1 - 1 + i
        BY <3>0
      <3>2. batch.cells[i + 1] = chosen[batch.from - 1 + (i + 1)]
        BY <3>1 DEF IInv, Intact
      <3> QED
        BY <1>5, <3>1, <3>2
    <2>2. ASSUME NEW i \in 1 .. Len(batch'.cells)
          PROVE  batch'.cells[i] = chosen'[batch'.from - 1 + i]
      <3>1. i \in 1 .. Len(batch.cells) - 1
        BY <1>4, <1>5
      <3>2. Tail(batch.cells)[i] = chosen[batch.from + 1 - 1 + i]
        BY <2>1, <3>1
      <3>3. batch'.from - 1 + i = batch.from + 1 - 1 + i /\ chosen' = chosen
        BY <1>1, <1>4, <1>t
      <3> QED
        BY <1>4, <3>2, <3>3
    <2> QED
      BY <2>2 DEF Intact
  <1> QED
    BY <1>8, <1>9, <1>12, <1>13 DEF IInv

LEMMA PushSnapshotStep ==
  ASSUME IInv, NEW x \in pushing, PushSnapshot(x)
  PROVE  IInv'
  <1>t. Types
    BY DEF IInv
  <1>1. /\ UNCHANGED <<term, leading, log, first, commit, lastApplied, batch, request,
                       peer, chosen>>
        /\ pushing' = (pushing \ {x}) \cup {[x EXCEPT !.pushed = TRUE]}
        /\ Ingest(x.index)
    BY DEF PushSnapshot
  <1>2. /\ x \in [index : Nat, pushed : BOOLEAN] /\ seen \in Nat
        /\ pushing \subseteq [index : Nat, pushed : BOOLEAN]
    BY <1>t DEF Types
  <1>3. seen' \in Nat
    BY <1>1, <1>2 DEF Ingest, Max2
  <1>4. pushing' \subseteq [index : Nat, pushed : BOOLEAN]
    BY <1>1, <1>2
  <1>5. Types'
    BY <1>1, <1>3, <1>4, <1>t DEF Types
  <1>6. Cluster' /\ Requested'
    BY <1>1 DEF IInv, Cluster, IsPrefix, Requested
  <1> QED
    BY <1>1, <1>5, <1>6, SameLog DEF IInv

LEMMA PushedSnapshotStep ==
  ASSUME IInv, NEW x \in pushing, PushedSnapshot(x)
  PROVE  IInv'
  <1>t. Types
    BY DEF IInv
  <1>1. /\ UNCHANGED <<term, leading, log, first, commit, seen, batch, request, peer, chosen>>
        /\ pushing' = pushing \ {x} /\ lastApplied' = Max2(lastApplied, x.index)
    BY DEF PushedSnapshot
  <1>2. x.index \in Nat /\ lastApplied \in Nat /\ pushing' \subseteq pushing
    BY <1>1, <1>t DEF Types
  <1>3. lastApplied' \in Nat
    BY <1>1, <1>2 DEF Max2
  <1>5. Types'
    BY <1>1, <1>2, <1>3, <1>t DEF Types
  <1>6. Cluster' /\ Requested'
    BY <1>1 DEF IInv, Cluster, IsPrefix, Requested
  <1> QED
    BY <1>1, <1>5, <1>6, SameLog DEF IInv

LEMMA RestartStep ==
  ASSUME IInv, Restart
  PROVE  IInv'
  <1>t. Types /\ log \in Seq(Nat) /\ chosen \in Seq(Nat) /\ first \in Nat /\ term \in Nat
    BY DEF IInv, Types
  <1>1. /\ UNCHANGED <<term, log, first, peer, chosen>>
        /\ leading' = FALSE /\ commit' = first /\ lastApplied' = 0 /\ seen' = 0
        /\ batch' = NoSlice /\ request' = NoSlice
        /\ pushing' = IF first > 0 THEN {[index |-> first, pushed |-> FALSE]} ELSE {}
    BY DEF Restart
  <1>2. pushing' \subseteq [index : Nat, pushed : BOOLEAN]
    <2>1. [index |-> first, pushed |-> FALSE] \in [index : Nat, pushed : BOOLEAN]
      BY <1>t
    <2>2. pushing' \subseteq {[index |-> first, pushed |-> FALSE]}
      BY <1>1
    <2> QED
      BY <2>1, <2>2
  <1>3. Types'
    BY <1>1, <1>2, <1>t, NoSliceIs DEF Types
  <1>4. Cluster'
    BY <1>1 DEF IInv, Cluster, IsPrefix
  <1>5. Requested'
    <2>1. request'.term = 0 /\ request'.cells = request'.made /\ request'.cells = <<>>
      BY <1>1, NoSliceIs
    <2> QED
      BY <1>1, <1>t, <2>1 DEF Requested
  <1>6. Committed' /\ Intact'
    <2>1. Agree(batch.from - 1 + Len(batch.cells))' /\ Intact'
      BY <1>1, <1>t, NoBatch
    <2> QED
      BY <1>1, <2>1 DEF IInv, Committed, Agree
  <1> QED
    BY <1>3, <1>4, <1>5, <1>6 DEF IInv

-----------------------------------------------------------------------------
(* Handlers of a follower.                                                 *)

\* Logs that have the same entry at an index are the same up to it; a leader's own
\* entries are in its own log.
Matching ==
    /\ \A k \in 1 .. Len(log) : k <= Len(peer.log) /\ log[k] = peer.log[k] =>
         \A j \in 1 .. k : log[j] = peer.log[j]
    /\ leading => \A k \in 1 .. Len(peer.log) : peer.log[k] = term =>
         k <= Len(log) /\ \A j \in 1 .. k : log[j] = peer.log[j]

\* The peer follows the leader of the latest term.
LEMMA Follows ==
  ASSUME Types, Requested, leading => term # peer.term,
         peer.term >= term, term' = peer.term, leading' = FALSE,
         request' \in Slices, request'.term = request.term, request'.made = request.made,
         Len(request'.cells) = Len(request.cells)
  PROVE  Requested'
  <1>1. term \in Nat /\ peer.term \in Nat /\ request.term \in Nat
    BY Facts DEF Types
  <1>2. request'.term <= term'
    BY <1>1 DEF Requested
  <1>3. ASSUME request'.term = term' PROVE request'.cells = request'.made /\ request'.cells = <<>>
    <2>1. request.term = term /\ term = peer.term
      BY <1>1, <1>3 DEF Requested
    <2>2. request.cells = <<>> /\ request.made = <<>>
      BY <2>1 DEF Requested
    <2>3. Len(request'.cells) = 0 /\ request'.cells \in Seq(Nat)
      BY <2>2 DEF Slices
    <2>4. request'.cells = <<>>
      BY <2>3
    <2> QED
      BY <2>2, <2>4
  <1> QED
    BY <1>2, <1>3 DEF Requested

\* A log that is a prefix of the latest leader's fits into the cluster.
LEMMA FollowsLog ==
  ASSUME IInv, peer.term >= term, term' = peer.term, leading' = FALSE,
         UNCHANGED <<peer, chosen>>, log' \in Seq(Nat), IsPrefix(log', peer.log)
  PROVE  Cluster'
  <1>1. /\ Len(log') \in Nat /\ Len(peer.log) \in Nat /\ IsPrefix(chosen, peer.log)
        /\ \A k \in 1 .. Len(peer.log) : peer.log[k] <= peer.term
    BY Facts DEF IInv, Cluster
  <1>2. ASSUME NEW k \in 1 .. Len(log')
        PROVE  /\ k <= Len(peer.log) /\ log'[k] <= peer.term
               /\ \A j \in 1 .. k : log'[j] = peer.log[j]
    <2>1. k \in 1 .. Len(peer.log) /\ \A j \in 1 .. k : j \in 1 .. Len(log')
      BY <1>1 DEF IsPrefix
    <2> QED
      BY <1>1, <2>1 DEF IsPrefix
  <1> QED
    BY <1>1, <1>2 DEF Cluster, IsPrefix

\* The log and the peer's stay as they are, and the term becomes the leader's.
LEMMA FollowsSame ==
  ASSUME IInv, peer.term >= term, term' = peer.term, leading' = FALSE,
         UNCHANGED <<peer, chosen, log>>
  PROVE  Cluster'
  <1>1. /\ term \in Nat /\ peer.term \in Nat /\ IsPrefix(chosen, peer.log)
        /\ \A k \in 1 .. Len(log) : log[k] \in Nat
    BY Facts DEF IInv, Types, Cluster
  <1>2. \A k \in 1 .. Len(log) : log[k] <= peer.term
    <2> SUFFICES ASSUME NEW k \in 1 .. Len(log) PROVE log[k] <= peer.term
      OBVIOUS
    <2>1. log[k] <= term \/ log[k] <= peer.term
      BY DEF IInv, Cluster
    <2> QED
      BY <1>1, <2>1
  <1> QED
    BY <1>1, <1>2 DEF IInv, Cluster, IsPrefix

LEMMA RejectEntriesStep ==
  ASSUME IInv, RejectEntries
  PROVE  IInv'
  <1>1. /\ peer.term >= term /\ term' = peer.term /\ leading' = FALSE
        /\ UNCHANGED <<log, first, commit, lastApplied, batch, request,
                       pushing, seen, peer, chosen>>
    BY DEF RejectEntries
  <1>2. Types /\ request \in Slices /\ Requested /\ (leading => term # peer.term)
    BY DEF IInv, Types, Cluster
  <1>3. Requested'
    BY <1>1, <1>2, Follows
  <1>4. peer.term \in Nat
    BY <1>2, Facts
  <1>5. Types'
    BY <1>1, <1>2, <1>4 DEF Types
  <1> QED
    BY <1>1, <1>3, <1>5, FollowsSame, SameLog DEF IInv

LEMMA InstallSnapshotStep ==
  ASSUME IInv, Matching, NEW i \in 1 .. Len(chosen), InstallSnapshot(i)
  PROVE  IInv'
  <1>t. /\ Types /\ log \in Seq(Nat) /\ chosen \in Seq(Nat) /\ Len(log) \in Nat
        /\ Len(chosen) \in Nat /\ Len(peer.log) \in Nat /\ peer.term \in Nat
        /\ batch \in Slices /\ request \in Slices /\ first \in Nat /\ commit \in Nat
        /\ batch.from - 1 + Len(batch.cells) \in Nat
        /\ pushing \subseteq [index : Nat, pushed : BOOLEAN]
    BY Facts DEF IInv, Types
  <1>1. /\ peer.term >= term /\ term' = peer.term /\ leading' = FALSE
        /\ log' = IF i \in DOMAIN log /\ log[i] = chosen[i] THEN log ELSE SubSeq(chosen, 1, i)
        /\ first' = i /\ commit' = i
        /\ pushing' = pushing \cup {[index |-> i, pushed |-> FALSE]}
        /\ batch' = Parted(batch) /\ request' = Parted(request)
        /\ UNCHANGED <<lastApplied, seen, peer, chosen>>
    BY DEF InstallSnapshot
  <1>2. /\ batch' \in Slices /\ batch'.from = batch.from /\ batch'.cells = batch.cells
        /\ request' \in Slices /\ request'.cells = request.cells
        /\ request'.made = request.made /\ request'.term = request.term
    BY <1>1, <1>t, PartedSlice
  <1>3. Requested'
    <2>1. Requested /\ (leading => term # peer.term)
      BY DEF IInv, Cluster
    <2> QED
      BY <1>1, <1>2, <1>t, <2>1, Follows
  <1>4. IsPrefix(chosen, peer.log)
    BY <1>1 DEF IInv, Cluster
  <1>5. Agree(batch.from - 1 + Len(batch.cells))
    BY DEF IInv, Committed
  <1>6. /\ log' \in Seq(Nat) /\ Cluster' /\ Agree(i)'
        /\ Agree(batch.from - 1 + Len(batch.cells))'
    <2>1. CASE i \in DOMAIN log /\ log[i] = chosen[i]
      <3>1. log' = log /\ i \in 1 .. Len(log) /\ log[i] = chosen[i]
        BY <1>1, <1>t, <2>1
      <3>2. log[i] = peer.log[i] /\ i <= Len(peer.log) /\ \A j \in 1 .. i : j \in 1 .. Len(chosen)
        BY <1>4, <1>t, <3>1 DEF IsPrefix
      <3>3. \A j \in 1 .. i : log[j] = peer.log[j]
        BY <3>1, <3>2 DEF Matching
      <3>4. \A j \in 1 .. i : log[j] = chosen[j]
        BY <1>4, <3>2, <3>3 DEF IsPrefix
      <3>5. Agree(i)'
        BY <1>1, <3>1, <3>4 DEF Agree
      <3>6. Agree(batch.from - 1 + Len(batch.cells))'
        BY <1>1, <1>2, <1>5, <3>1 DEF Agree
      <3>7. Cluster'
        BY <1>1, <3>1, FollowsSame
      <3> QED
        BY <1>t, <3>1, <3>5, <3>6, <3>7
    <2>2. CASE ~(i \in DOMAIN log /\ log[i] = chosen[i])
      <3>1. log' = SubSeq(chosen, 1, i) /\ i \in 0 .. Len(chosen)
        BY <1>1, <1>t, <2>2
      <3>2. log' \in Seq(Nat) /\ Len(log') = i /\ \A j \in 1 .. i : log'[j] = chosen[j]
        BY <1>t, <3>1, FirstOf
      <3>3. \A j \in 1 .. i : j \in 1 .. Len(chosen) /\ i <= Len(peer.log)
        BY <1>4, <1>t DEF IsPrefix
      <3>4. IsPrefix(log', peer.log)
        <4>1. i <= Len(peer.log)
          BY <3>3
        <4>2. \A j \in 1 .. i : log'[j] = peer.log[j]
          BY <1>4, <3>2, <3>3 DEF IsPrefix
        <4> QED
          BY <3>2, <4>1, <4>2 DEF IsPrefix
      <3>5. Cluster'
        BY <1>1, <3>2, <3>4, FollowsLog
      <3>6. Agree(i)'
        BY <1>1, <1>t, <3>2 DEF Agree
      <3>7. batch.from - 1 + Len(batch.cells) < i
        <4>1. DOMAIN log = 1 .. Len(log)
          BY <1>t
        <4>2. ~Agree(i)
          BY <2>2, <4>1 DEF Agree
        <4> QED
          BY <1>5, <1>t, <4>2, AgreeBelow
      <3>8. Agree(batch.from - 1 + Len(batch.cells))'
        <4> DEFINE m == batch.from - 1 + Len(batch.cells)
        <4>1. m \in Nat /\ m < i
          BY <1>t, <3>7
        <4>2. (batch.from - 1 + Len(batch.cells))' = m
          BY <1>2
        <4> HIDE DEF m
        <4>3. m <= Len(log') /\ m <= Len(chosen) /\ \A j \in 1 .. m : j \in 1 .. i
          BY <1>t, <3>2, <4>1
        <4>4. \A j \in 1 .. m : log'[j] = chosen'[j]
          BY <1>1, <3>2, <4>3
        <4> QED
          BY <1>1, <4>2, <4>3, <4>4 DEF Agree
      <3> QED
        BY <3>2, <3>5, <3>6, <3>8
    <2> QED
      BY <2>1, <2>2
  <1>7. Types'
    <2>1. pushing' \subseteq [index : Nat, pushed : BOOLEAN] /\ i \in Nat
      <3>1. i \in Nat
        OBVIOUS
      <3>2. [index |-> i, pushed |-> FALSE] \in [index : Nat, pushed : BOOLEAN]
        BY <3>1
      <3> QED
        BY <1>1, <1>t, <3>1, <3>2
    <2> QED
      BY <1>1, <1>2, <1>6, <1>t, <2>1 DEF Types
  <1>8. Committed' /\ Intact'
    <2>1. Agree(commit)' /\ Agree(first)'
      BY <1>1, <1>6 DEF Agree
    <2>2. chosen' = chosen /\ Intact
      BY <1>1 DEF IInv
    <2>3. Intact'
      BY <1>2, <2>2 DEF Intact
    <2> QED
      BY <1>6, <2>1, <2>3 DEF Committed
  <1> QED
    BY <1>3, <1>6, <1>7, <1>8 DEF IInv

\* Where the log differs from the leader's, everything before is the same, and what
\* is committed is before.
LEMMA DiffersAt ==
  ASSUME IInv, peer.term >= term, NEW n \in 0 .. Len(peer.log), NEW k \in Differs(n)
  PROVE  /\ k \in 1 .. n /\ k - 1 <= Len(log)
         /\ \A j \in 1 .. k - 1 : log[j] = peer.log[j]
         /\ \A m \in Nat : Agree(m) => m < k
  <1>t. /\ Types /\ log \in Seq(Nat) /\ peer.log \in Seq(Nat) /\ Len(log) \in Nat
        /\ Len(peer.log) \in Nat /\ DOMAIN log = 1 .. Len(log) /\ Len(chosen) \in Nat
    BY Facts DEF IInv, Types
  <1>1. /\ k \in 1 .. n /\ ~(k \in DOMAIN log /\ log[k] = peer.log[k])
        /\ IsPrefix(SubSeq(peer.log, 1, k - 1), log)
    BY DEF Differs
  <1>2. /\ SubSeq(peer.log, 1, k - 1) \in Seq(Nat) /\ Len(SubSeq(peer.log, 1, k - 1)) = k - 1
        /\ \A j \in 1 .. k - 1 : SubSeq(peer.log, 1, k - 1)[j] = peer.log[j]
    <2>1. k - 1 \in 0 .. Len(peer.log)
      BY <1>1, <1>t
    <2> QED
      BY <1>t, <2>1, FirstOf
  <1>3. IsPrefix(SubSeq(peer.log, 1, k - 1), log)
    BY <1>1, <1>2, <1>t
  <1>4. k - 1 <= Len(log) /\ \A j \in 1 .. k - 1 : log[j] = peer.log[j]
    BY <1>2, <1>3 DEF IsPrefix
  <1>5. IsPrefix(chosen, peer.log)
    BY DEF IInv, Cluster
  <1>6. ASSUME NEW m \in Nat, Agree(m) PROVE m < k
    <2> SUFFICES ASSUME k <= m PROVE FALSE
      BY <1>1
    <2>1. k \in 1 .. m /\ k \in 1 .. Len(log) /\ k \in 1 .. Len(chosen)
      BY <1>1, <1>6, <1>t DEF Agree
    <2>2. log[k] = chosen[k] /\ chosen[k] = peer.log[k]
      BY <1>5, <1>6, <2>1 DEF Agree, IsPrefix
    <2> QED
      BY <1>1, <1>t, <2>1, <2>2
  <1> QED
    BY <1>1, <1>4, <1>6

\* append(rf.Log[:k], ...) leaves the leader's entries up to n.
LEMMA Rewritten ==
  ASSUME NEW l \in Seq(Nat), NEW p \in Seq(Nat), NEW n \in 0 .. Len(p), NEW k \in 1 .. n,
         k - 1 <= Len(l), \A j \in 1 .. k - 1 : l[j] = p[j]
  PROVE  LET r == SubSeq(l, 1, k - 1) \o SubSeq(p, k, n) IN
         /\ r \in Seq(Nat) /\ Len(r) = n /\ \A j \in 1 .. n : r[j] = p[j]
         /\ SubSeq(p, k, n) \in Seq(Nat)
  <1> DEFINE a == SubSeq(l, 1, k - 1)
             b == SubSeq(p, k, n)
  <1>1. k - 1 \in 0 .. Len(l)
    OBVIOUS
  <1>2. a \in Seq(Nat) /\ Len(a) = k - 1 /\ \A j \in 1 .. k - 1 : a[j] = l[j]
    BY <1>1, FirstOf
  <1>3. b \in Seq(Nat) /\ Len(b) = n - k + 1 /\ \A j \in 1 .. n - k + 1 : b[j] = p[k + j - 1]
    OBVIOUS
  <1> HIDE DEF a, b
  <1>4. /\ a \o b \in Seq(Nat) /\ Len(a \o b) = n
        /\ \A j \in 1 .. n : (a \o b)[j] = IF j <= k - 1 THEN a[j] ELSE b[j - (k - 1)]
    <2>1. /\ a \o b \in Seq(Nat) /\ Len(a \o b) = Len(a) + Len(b)
          /\ \A j \in 1 .. Len(a) + Len(b) :
               (a \o b)[j] = IF j <= Len(a) THEN a[j] ELSE b[j - Len(a)]
      BY <1>2, <1>3, Concatenated
    <2>2. Len(a) + Len(b) = n
      BY <1>2, <1>3
    <2> QED
      BY <1>2, <2>1, <2>2
  <1>5. ASSUME NEW j \in 1 .. n PROVE (a \o b)[j] = p[j]
    <2>1. CASE j <= k - 1
      BY <1>2, <1>4, <2>1
    <2>2. CASE ~(j <= k - 1)
      <3>1. j - (k - 1) \in 1 .. n - k + 1 /\ k + (j - (k - 1)) - 1 = j
        BY <2>2
      <3> QED
        BY <1>3, <1>4, <2>2, <3>1
    <2> QED
      BY <2>1, <2>2
  <1> QED
    BY <1>3, <1>4, <1>5 DEF a, b

\* What FollowerCommit makes of CommitIndex is committed: the last entry is of the
\* leader's term, so the log is the leader's.
LEMMA FollowerCommits ==
  ASSUME IInv, peer.term >= term, NEW c \in 0 .. Len(chosen), FollowerCommit(log', c),
         log' \in Seq(Nat), UNCHANGED <<peer, chosen>>, Cluster'
  PROVE  commit' = commit \/ (commit' \in Nat /\ Agree(commit)')
  <1>t. Len(log') \in Nat /\ Len(chosen) \in Nat /\ IsPrefix(chosen, peer.log)
    <2>1. Len(log') \in Nat
      OBVIOUS
    <2>2. Len(chosen) \in Nat
      BY Facts DEF IInv
    <2>3. IsPrefix(chosen, peer.log)
      BY DEF IInv, Cluster
    <2> QED
      BY <2>1, <2>2, <2>3
  <1>1. CASE log' = <<>> \/ log'[Len(log')] # peer.term
    BY <1>1 DEF FollowerCommit
  <1>2. CASE ~(log' = <<>> \/ log'[Len(log')] # peer.term)
    <2>1. commit' = IF c < Len(log') THEN c ELSE Len(log')
      BY <1>2 DEF FollowerCommit
    <2>2. Len(log') \in 1 .. Len(log') /\ log'[Len(log')] = peer'.term
      BY <1>2, <1>t
    <2>3. \A j \in 1 .. Len(log') : log'[j] = peer.log[j]
      BY <2>2 DEF Cluster
    <2>4. /\ commit' \in Nat /\ commit' <= Len(log') /\ commit' <= Len(chosen)
          /\ \A j \in 1 .. commit' : j \in 1 .. Len(log') /\ j \in 1 .. Len(chosen)
      BY <1>t, <2>1
    <2>5. \A j \in 1 .. commit' : log'[j] = chosen'[j]
      BY <1>t, <2>3, <2>4 DEF IsPrefix
    <2> QED
      BY <2>4, <2>5 DEF Agree
  <1> QED
    BY <1>1, <1>2

\* A slice is as it was before where append did not write.
LEMMA BatchKept ==
  ASSUME IInv, NEW k \in Nat \ {0}, NEW es \in Seq(Nat),
         batch.from - 1 + Len(batch.cells) < k,
         batch' = Written(batch, k, es) \/ batch' = Parted(batch), chosen' = chosen
  PROVE  /\ batch' \in Slices /\ batch'.from = batch.from
         /\ Len(batch'.cells) = Len(batch.cells) /\ Intact'
  <1>t. /\ Types /\ batch \in Slices /\ batch.from \in Nat /\ Len(batch.cells) \in Nat
    BY Facts DEF IInv, Types
  <1>1. /\ batch' \in Slices /\ batch'.from = batch.from
        /\ Len(batch'.cells) = Len(batch.cells)
        /\ \A i \in 1 .. Len(batch.cells) :
             \/ batch'.cells[i] = batch.cells[i]
             \/ batch.from + i - k \in 1 .. Len(es)
    <2>1. CASE batch' = Parted(batch)
      BY <1>t, <2>1, PartedSlice
    <2>2. CASE batch' = Written(batch, k, es)
      BY <1>t, <2>2, WrittenCells
    <2> QED
      BY <2>1, <2>2
  <1>2. ASSUME NEW i \in 1 .. Len(batch'.cells)
        PROVE  batch'.cells[i] = chosen'[batch'.from - 1 + i]
    <2>1. i \in 1 .. Len(batch.cells)
      BY <1>1
    <2>2. ~(batch.from + i - k \in 1 .. Len(es))
      BY <1>t, <2>1
    <2>3. batch'.cells[i] = batch.cells[i]
      BY <1>1, <2>1, <2>2
    <2>4. batch.cells[i] = chosen[batch.from - 1 + i]
      BY <2>1 DEF IInv, Intact
    <2> QED
      BY <1>1, <1>t, <2>3, <2>4
  <1> QED
    BY <1>1, <1>2 DEF Intact

LEMMA AppendEntriesStep ==
  ASSUME IInv, NEW n \in 0 .. Len(peer.log), NEW c \in 0 .. Len(chosen), AppendEntries(n, c)
  PROVE  IInv' /\ (IsPrefix(log', peer'.log) \/ log' = log) /\ batch'.from = batch.from
  <1>t. /\ Types /\ log \in Seq(Nat) /\ peer.log \in Seq(Nat) /\ Len(peer.log) \in Nat
        /\ Len(chosen) \in Nat /\ Len(log) \in Nat /\ peer.term \in Nat
        /\ batch \in Slices /\ request \in Slices /\ first \in Nat /\ commit \in Nat
        /\ batch.from - 1 + Len(batch.cells) \in Nat
    BY Facts DEF IInv, Types
  <1>1. /\ peer.term >= term /\ term' = peer.term /\ leading' = FALSE
        /\ FollowerCommit(log', c)
        /\ UNCHANGED <<first, lastApplied, pushing, seen, peer, chosen>>
    BY DEF AppendEntries
  <1>2. Agree(commit) /\ Agree(first) /\ Agree(batch.from - 1 + Len(batch.cells))
    BY DEF IInv, Committed
  <1>3. Requested /\ (leading => term # peer.term) /\ IsPrefix(chosen, peer.log)
    BY <1>1 DEF IInv, Cluster
  \* Everything but CommitIndex.
  <1>4. /\ log' \in Seq(Nat) /\ Cluster' /\ Requested' /\ Intact'
        /\ batch' \in Slices /\ request' \in Slices
        /\ batch'.from = batch.from /\ Len(batch'.cells) = Len(batch.cells)
        /\ \A m \in Nat : Agree(m) => Agree(m)'
        /\ IsPrefix(log', peer'.log) \/ log' = log
    <2>1. CASE Differs(n) = {}
      <3>1. UNCHANGED <<log, batch, request>>
        BY <2>1 DEF AppendEntries
      <3>2. Cluster'
        BY <1>1, <3>1, FollowsSame
      <3>3. Requested'
        BY <1>1, <1>3, <1>t, <3>1, Follows
      <3>4. Intact'
        BY <1>1, <3>1 DEF IInv, Intact
      <3>5. \A m \in Nat : Agree(m) => Agree(m)'
        BY <1>1, <3>1 DEF Agree
      <3> QED
        BY <1>t, <3>1, <3>2, <3>3, <3>4, <3>5
    <2>2. CASE Differs(n) # {}
      <3>1. PICK k \in Differs(n), large \in BOOLEAN :
              /\ log' = SubSeq(log, 1, k - 1) \o SubSeq(peer.log, k, n)
              /\ batch' = IF large THEN Written(batch, k, SubSeq(peer.log, k, n))
                                   ELSE Parted(batch)
              /\ request' = IF large THEN Written(request, k, SubSeq(peer.log, k, n))
                                     ELSE Parted(request)
        BY <2>2 DEF AppendEntries
      <3>2. /\ k \in 1 .. n /\ k - 1 <= Len(log)
            /\ \A j \in 1 .. k - 1 : log[j] = peer.log[j]
            /\ \A m \in Nat : Agree(m) => m < k
        BY <1>1, DiffersAt
      <3>3. /\ log' \in Seq(Nat) /\ Len(log') = n /\ \A j \in 1 .. n : log'[j] = peer.log[j]
            /\ SubSeq(peer.log, k, n) \in Seq(Nat)
        <4>1. log' = SubSeq(log, 1, k - 1) \o SubSeq(peer.log, k, n)
          BY <3>1
        <4>2. log \in Seq(Nat) /\ peer.log \in Seq(Nat)
          BY <1>t
        <4> QED
          BY <3>2, <4>1, <4>2, Rewritten
      <3>4. IsPrefix(log', peer.log)
        <4>1. n <= Len(peer.log)
          BY <1>t
        <4> QED
          BY <3>3, <4>1 DEF IsPrefix
      <3>5. Cluster'
        BY <1>1, <3>3, <3>4, FollowsLog
      <3> DEFINE es == SubSeq(peer.log, k, n)
      <3>6. es \in Seq(Nat) /\ k \in Nat \ {0}
        BY <3>2, <3>3
      <3>a. /\ batch' = Written(batch, k, es) \/ batch' = Parted(batch)
            /\ request' = Written(request, k, es) \/ request' = Parted(request)
        BY <3>1
      <3> HIDE DEF es
      <3>7. /\ batch' \in Slices /\ batch'.from = batch.from
            /\ Len(batch'.cells) = Len(batch.cells) /\ Intact'
        <4>1. batch.from - 1 + Len(batch.cells) < k
          BY <1>2, <1>t, <3>2
        <4> QED
          BY <1>1, <3>6, <3>a, <4>1, BatchKept
      <3>8. /\ request' \in Slices /\ request'.term = request.term
            /\ request'.made = request.made /\ Len(request'.cells) = Len(request.cells)
        <4>1. CASE request' = Parted(request)
          BY <1>t, <4>1, PartedSlice
        <4>2. CASE request' = Written(request, k, es)
          BY <1>t, <3>6, <4>2, WrittenCells
        <4> QED
          BY <3>a, <4>1, <4>2
      <3>9. Requested'
        BY <1>1, <1>3, <1>t, <3>8, Follows
      <3>10. ASSUME NEW m \in Nat, Agree(m) PROVE Agree(m)'
        <4>1. m < k
          BY <3>2, <3>10
        <4>2. m <= Len(chosen)
          BY <3>10 DEF Agree
        <4>3. m <= Len(log') /\ \A j \in 1 .. m : j \in 1 .. n /\ j \in 1 .. Len(chosen)
          <5>0. k \in 1 .. n
            BY <3>2
          <5>1. m <= n
            BY <4>1, <5>0
          <5>a. Len(chosen) \in Nat
            BY <1>t
          <5>2. Len(log') = n
            BY <3>3
          <5> QED
            BY <4>2, <5>1, <5>2, <5>a
        <4>4. \A j \in 1 .. m : log'[j] = chosen'[j]
          BY <1>1, <1>3, <3>3, <4>3 DEF IsPrefix
        <4> QED
          BY <1>1, <4>2, <4>3, <4>4 DEF Agree
      <3> QED
        BY <1>1, <3>3, <3>4, <3>5, <3>7, <3>8, <3>9, <3>10
    <2> QED
      BY <2>1, <2>2
  <1>5. commit' \in Nat /\ Agree(commit)'
    <2>1. commit' = commit \/ (commit' \in Nat /\ Agree(commit)')
      BY <1>1, <1>4, FollowerCommits
    <2>2. ASSUME commit' = commit PROVE Agree(commit)'
      BY <1>2, <1>4, <1>t, <2>2 DEF Agree
    <2> QED
      BY <1>t, <2>1, <2>2
  <1>6. Agree(first)' /\ Agree(batch.from - 1 + Len(batch.cells))'
    BY <1>1, <1>2, <1>4, <1>t DEF Agree
  <1>7. Types'
    BY <1>1, <1>4, <1>5, <1>t DEF Types
  <1> QED
    BY <1>4, <1>5, <1>6, <1>7 DEF IInv, Committed

-----------------------------------------------------------------------------
(* Logs match.                                                             *)

\* A log that is a prefix of the leader's matches it.
LEMMA PrefixMatches ==
  ASSUME log' \in Seq(Nat), peer'.log \in Seq(Nat), ~leading', IsPrefix(log', peer'.log)
  PROVE  Matching'
  <1>1. \A k \in 1 .. Len(log') : \A j \in 1 .. k : j \in 1 .. Len(log')
    OBVIOUS
  <1> QED
    BY <1>1 DEF Matching, IsPrefix

LEMMA PeerElectedMatches ==
  ASSUME IInv, Matching, PeerElected
  PROVE  Matching'
  <1>1. PICK l \in {log, peer.log} : \E n \in Len(chosen) .. Len(l) :
          peer' = [term |-> Newest + 1, log |-> SubSeq(l, 1, n)]
    BY DEF PeerElected
  <1>2. PICK n \in Len(chosen) .. Len(l) :
          peer' = [term |-> Newest + 1, log |-> SubSeq(l, 1, n)]
    BY <1>1
  <1>t. /\ log \in Seq(Nat) /\ peer.log \in Seq(Nat) /\ Len(log) \in Nat
        /\ Len(peer.log) \in Nat /\ Len(chosen) \in Nat
    BY Facts DEF IInv, Types
  <1>3. l \in Seq(Nat) /\ n \in 0 .. Len(l) /\ Len(l) \in Nat
    BY <1>1, <1>t
  <1>4. /\ Len(peer'.log) = n /\ \A j \in 1 .. n : peer'.log[j] = l[j]
        /\ UNCHANGED <<log, leading, term>>
    BY <1>2, <1>3, FirstOf DEF PeerElected
  \* The new leader's log is the same as l up to each of its entries.
  <1>5. ASSUME NEW k \in 1 .. n
        PROVE  /\ k \in 1 .. Len(l) /\ peer'.log[k] = l[k]
               /\ \A j \in 1 .. k : peer'.log[j] = l[j]
    <2>1. k \in 1 .. Len(l) /\ \A j \in 1 .. k : j \in 1 .. n
      BY <1>3
    <2> QED
      BY <1>4, <2>1
  <1>6. ASSUME NEW k \in 1 .. Len(log), k <= Len(peer'.log), log[k] = peer'.log[k]
        PROVE  \A j \in 1 .. k : log[j] = peer'.log[j]
    <2>1. k \in 1 .. n
      BY <1>3, <1>4, <1>6
    <2>2. /\ k \in 1 .. Len(l) /\ log[k] = l[k] /\ \A j \in 1 .. k : peer'.log[j] = l[j]
      BY <1>5, <1>6, <2>1
    <2>3. CASE l = log
      BY <2>2, <2>3
    <2>4. CASE l = peer.log
      <3>1. k <= Len(peer.log)
        BY <1>t, <2>2, <2>4
      <3>2. \A j \in 1 .. k : log[j] = peer.log[j]
        BY <2>2, <2>4, <3>1 DEF Matching
      <3> QED
        BY <2>2, <2>4, <3>2
    <2> QED
      BY <2>3, <2>4
  <1>7. ASSUME leading, NEW k \in 1 .. Len(peer'.log), peer'.log[k] = term
        PROVE  k <= Len(log) /\ \A j \in 1 .. k : log[j] = peer'.log[j]
    <2>1. k \in 1 .. n
      BY <1>4
    <2>2. /\ k \in 1 .. Len(l) /\ l[k] = term /\ \A j \in 1 .. k : peer'.log[j] = l[j]
      BY <1>5, <1>7, <2>1
    <2>3. CASE l = log
      BY <1>t, <2>2, <2>3
    <2>4. CASE l = peer.log
      <3>1. k <= Len(log) /\ \A j \in 1 .. k : log[j] = peer.log[j]
        BY <1>7, <2>2, <2>4 DEF Matching
      <3> QED
        BY <2>2, <2>4, <3>1
    <2> QED
      BY <2>3, <2>4
  <1> QED
    BY <1>4, <1>6, <1>7 DEF Matching

LEMMA PeerStartMatches ==
  ASSUME IInv, Matching, PeerStart
  PROVE  Matching'
  <1>t. /\ Types /\ peer.log \in Seq(Nat) /\ peer.term \in Nat /\ Len(peer.log) \in Nat
        /\ Len(log) \in Nat
    BY Facts DEF IInv
  <1>1. peer'.log = Append(peer.log, peer.term) /\ UNCHANGED <<log, leading, term>>
    BY <1>t DEF PeerStart, Types
  <1>2. /\ Len(peer'.log) = Len(peer.log) + 1 /\ peer'.log[Len(peer.log) + 1] = peer.term
        /\ \A j \in 1 .. Len(peer.log) : peer'.log[j] = peer.log[j]
    BY <1>1, <1>t, Appended
  <1>3. ASSUME NEW k \in 1 .. Len(peer.log)
        PROVE  peer'.log[k] = peer.log[k] /\ \A j \in 1 .. k : peer'.log[j] = peer.log[j]
    <2>1. \A j \in 1 .. k : j \in 1 .. Len(peer.log)
      BY <1>t
    <2> QED
      BY <1>2, <2>1
  <1>4. ASSUME NEW k \in 1 .. Len(log), k <= Len(peer'.log), log[k] = peer'.log[k]
        PROVE  \A j \in 1 .. k : log[j] = peer'.log[j]
    <2>1. k # Len(peer.log) + 1
      <3> SUFFICES ASSUME k = Len(peer.log) + 1 PROVE FALSE
        OBVIOUS
      <3>1. log[k] = peer.term
        BY <1>2, <1>4
      <3>2. k <= Len(peer.log)
        BY <3>1 DEF IInv, Cluster
      <3> QED
        BY <1>t, <3>2
    <2>2. k \in 1 .. Len(peer.log) /\ k <= Len(peer.log)
      BY <1>2, <1>4, <1>t, <2>1
    <2>3. log[k] = peer.log[k] /\ \A j \in 1 .. k : peer'.log[j] = peer.log[j]
      BY <1>3, <1>4, <2>2
    <2>4. \A j \in 1 .. k : log[j] = peer.log[j]
      BY <2>2, <2>3 DEF Matching
    <2> QED
      BY <2>3, <2>4
  <1>5. ASSUME leading, NEW k \in 1 .. Len(peer'.log), peer'.log[k] = term
        PROVE  k <= Len(log) /\ \A j \in 1 .. k : log[j] = peer'.log[j]
    <2>1. term # peer.term
      BY <1>5 DEF IInv, Cluster
    <2>2. k \in 1 .. Len(peer.log)
      BY <1>2, <1>5, <1>t, <2>1
    <2>3. peer.log[k] = term /\ \A j \in 1 .. k : peer'.log[j] = peer.log[j]
      BY <1>3, <1>5, <2>2
    <2>4. k <= Len(log) /\ \A j \in 1 .. k : log[j] = peer.log[j]
      BY <1>5, <2>2, <2>3 DEF Matching
    <2> QED
      BY <2>3, <2>4
  <1> QED
    BY <1>1, <1>4, <1>5 DEF Matching

LEMMA StartMatches ==
  ASSUME IInv, Matching, Start
  PROVE  Matching'
  <1>t. /\ Types /\ log \in Seq(Nat) /\ term \in Nat /\ Len(log) \in Nat
        /\ Len(peer.log) \in Nat
    BY Facts DEF IInv, Types
  <1>1. log' = Append(log, term) /\ leading /\ UNCHANGED <<peer, leading, term>>
    BY DEF Start
  <1>2. /\ Len(log') = Len(log) + 1 /\ log'[Len(log) + 1] = term
        /\ \A j \in 1 .. Len(log) : log'[j] = log[j]
    BY <1>1, <1>t, Appended
  <1>3. ASSUME NEW k \in 1 .. Len(log)
        PROVE  log'[k] = log[k] /\ \A j \in 1 .. k : log'[j] = log[j]
    <2>1. \A j \in 1 .. k : j \in 1 .. Len(log)
      BY <1>t
    <2> QED
      BY <1>2, <2>1
  <1>4. ASSUME NEW k \in 1 .. Len(log'), k <= Len(peer.log), log'[k] = peer.log[k]
        PROVE  \A j \in 1 .. k : log'[j] = peer.log[j]
    <2>1. k # Len(log) + 1
      <3> SUFFICES ASSUME k = Len(log) + 1 PROVE FALSE
        OBVIOUS
      <3>1. k \in 1 .. Len(peer.log) /\ peer.log[k] = term
        BY <1>2, <1>4, <1>t
      <3>2. k <= Len(log)
        BY <1>1, <3>1 DEF Matching
      <3> QED
        BY <1>t, <3>2
    <2>2. k \in 1 .. Len(log)
      BY <1>2, <1>t, <2>1
    <2>3. log[k] = peer.log[k] /\ \A j \in 1 .. k : log'[j] = log[j]
      BY <1>3, <1>4, <2>2
    <2>4. \A j \in 1 .. k : log[j] = peer.log[j]
      BY <1>4, <2>2, <2>3 DEF Matching
    <2> QED
      BY <2>3, <2>4
  <1>5. ASSUME NEW k \in 1 .. Len(peer.log), peer.log[k] = term
        PROVE  k <= Len(log') /\ \A j \in 1 .. k : log'[j] = peer.log[j]
    <2>1. k <= Len(log) /\ \A j \in 1 .. k : log[j] = peer.log[j]
      BY <1>1, <1>5 DEF Matching
    <2>2. k \in 1 .. Len(log) /\ k <= Len(log')
      BY <1>2, <1>t, <2>1
    <2> QED
      BY <1>3, <2>1, <2>2
  <1> QED
    BY <1>1, <1>4, <1>5 DEF Matching

LEMMA ElectedMatches ==
  ASSUME IInv, Matching, Elected
  PROVE  Matching'
  <1>1. UNCHANGED <<log, peer>> /\ term' = Newest + 1
    BY DEF Elected
  <1>2. /\ term \in Nat /\ peer.term \in Nat
        /\ \A k \in 1 .. Len(peer.log) : peer.log[k] \in Nat
    BY Facts DEF IInv, Types
  <1>3. term' > peer.term
    BY <1>1, <1>2 DEF Newest, Max2
  <1>4. ASSUME NEW k \in 1 .. Len(peer.log) PROVE peer.log[k] # term'
    <2>1. peer.log[k] <= peer.term /\ peer.log[k] \in Nat
      BY <1>2 DEF IInv, Cluster
    <2> QED
      BY <1>1, <1>2, <1>3, <2>1 DEF Newest, Max2
  <1> QED
    BY <1>1, <1>4 DEF Matching

\* A handler that keeps the logs as they are, and no new leader.
LEMMA SameMatches ==
  ASSUME Matching, UNCHANGED <<log, peer>>, leading' => leading /\ term' = term
  PROVE  Matching'
  BY DEF Matching

LEMMA InstallSnapshotMatches ==
  ASSUME IInv, IInv', Matching, NEW i \in 1 .. Len(chosen), InstallSnapshot(i)
  PROVE  Matching'
  <1>1. leading' = FALSE /\ UNCHANGED <<peer, chosen>> /\ peer.term >= term
    BY DEF InstallSnapshot
  <1>2. CASE log' = log
    BY <1>1, <1>2, SameMatches
  <1>3. CASE log' # log
    <2>t. /\ chosen \in Seq(Nat) /\ Len(chosen) \in Nat /\ peer.log \in Seq(Nat)
          /\ Len(peer.log) \in Nat /\ IsPrefix(chosen, peer.log)
      BY <1>1, Facts DEF IInv, Types, Cluster
    <2>0. log' = IF i \in DOMAIN log /\ log[i] = chosen[i] THEN log ELSE SubSeq(chosen, 1, i)
      BY DEF InstallSnapshot
    <2>1. log' = SubSeq(chosen, 1, i) /\ i \in 0 .. Len(chosen)
      BY <1>3, <2>0
    <2>2. log' \in Seq(Nat) /\ Len(log') = i /\ \A j \in 1 .. i : log'[j] = chosen[j]
      BY <2>1, <2>t, FirstOf
    <2>3. i <= Len(peer.log) /\ \A j \in 1 .. i : j \in 1 .. Len(chosen)
      BY <2>t DEF IsPrefix
    <2>4. IsPrefix(log', peer.log)
      BY <2>2, <2>3, <2>t DEF IsPrefix
    <2> QED
      BY <1>1, <2>2, <2>4, <2>t, PrefixMatches
  <1> QED
    BY <1>2, <1>3

LEMMA AppendEntriesMatches ==
  ASSUME IInv, Matching, NEW n \in 0 .. Len(peer.log), NEW c \in 0 .. Len(chosen),
         AppendEntries(n, c)
  PROVE  Matching'
  <1>1. leading' = FALSE /\ peer' = peer
    BY DEF AppendEntries
  <1>2. IInv' /\ (IsPrefix(log', peer'.log) \/ log' = log)
    BY AppendEntriesStep
  <1>3. log' \in Seq(Nat) /\ peer.log \in Seq(Nat)
    BY <1>2, Facts DEF IInv, Types
  <1>4. CASE log' = log
    BY <1>1, <1>4, SameMatches
  <1>5. CASE IsPrefix(log', peer'.log)
    BY <1>1, <1>3, <1>5, PrefixMatches
  <1> QED
    BY <1>2, <1>4, <1>5

-----------------------------------------------------------------------------
(* Every step.                                                             *)

LEMMA NextIInv ==
  ASSUME IInv, Matching, [Next]_vars
  PROVE  IInv' /\ Matching'
  <1>1. CASE PeerElected
    BY <1>1, PeerElectedStep, PeerElectedMatches
  <1>2. CASE PeerStart
    BY <1>2, PeerStartStep, PeerStartMatches
  <1>3. CASE PeerCommit
    <2>1. Matching'
      BY <1>3, SameMatches DEF PeerCommit
    <2> QED
      BY <1>3, <2>1, PeerCommitStep
  <1>4. ASSUME NEW n \in 0 .. Len(peer.log), NEW c \in 0 .. Len(chosen), AppendEntries(n, c)
        PROVE  IInv' /\ Matching'
    BY <1>4, AppendEntriesStep, AppendEntriesMatches
  <1>5. CASE RejectEntries
    <2>1. Matching'
      BY <1>5, SameMatches DEF RejectEntries
    <2> QED
      BY <1>5, <2>1, RejectEntriesStep
  <1>6. ASSUME NEW i \in 1 .. Len(chosen), InstallSnapshot(i)
        PROVE  IInv' /\ Matching'
    <2>1. IInv'
      BY <1>6, InstallSnapshotStep
    <2> QED
      BY <1>6, <2>1, InstallSnapshotMatches
  <1>7. CASE Elected
    BY <1>7, ElectedStep, ElectedMatches
  <1>8. CASE Start
    BY <1>8, StartStep, StartMatches
  <1>9. CASE LeaderCommit
    <2>1. Matching'
      BY <1>9, SameMatches DEF LeaderCommit
    <2> QED
      BY <1>9, <2>1, LeaderCommitStep
  <1>10. CASE Request \/ Encode
    <2>1. Matching'
      BY <1>10, SameMatches DEF Request, Encode
    <2> QED
      BY <1>10, <2>1, RequestStep, EncodeStep
  <1>11. CASE Applier
    <2>1. Matching'
      BY <1>11, SameMatches DEF Applier, Take, Push, Pushed
    <2> QED
      BY <1>11, <2>1, TakeStep, PushStep, PushedStep DEF Applier
  <1>12. ASSUME NEW x \in pushing, PushSnapshot(x) \/ PushedSnapshot(x)
         PROVE  IInv' /\ Matching'
    <2>1. Matching'
      BY <1>12, SameMatches DEF PushSnapshot, PushedSnapshot
    <2> QED
      BY <1>12, <2>1, PushSnapshotStep, PushedSnapshotStep
  <1>13. CASE Restart
    <2>1. Matching'
      BY <1>13, SameMatches DEF Restart
    <2> QED
      BY <1>13, <2>1, RestartStep
  <1>14. CASE UNCHANGED vars
    <2>1. UNCHANGED <<term, leading, log, first, commit, lastApplied, batch, request,
                      pushing, seen, peer, chosen>>
      BY <1>14 DEF vars
    <2>2. Types' /\ Requested'
      BY <2>1 DEF IInv, Types, Requested
    <2>3. Cluster'
      BY <2>1 DEF IInv, Cluster, IsPrefix
    <2> QED
      BY <2>1, <2>2, <2>3, SameLog, SameMatches DEF IInv
  <1> QED
    BY <1>1, <1>2, <1>3, <1>4, <1>5, <1>6, <1>7, <1>8, <1>9, <1>10, <1>11, <1>12, <1>13,
       <1>14 DEF Next, Snapshots

\* In every reachable state the log agrees with what is committed up to CommitIndex, up
\* to the snapshot and up to the end of the slice the applier is pushing.
THEOREM Invariance == Spec => [](IInv /\ Matching)
  <1>1. Init => IInv /\ Matching
    <2> SUFFICES ASSUME Init PROVE Matching
      BY InitIInv
    <2>1. log = <<>> /\ leading = FALSE /\ Len(log) = 0
      BY DEF Init
    <2> QED
      BY <2>1 DEF Matching
  <1> QED
    BY <1>1, NextIInv, PTL DEF Spec

\* What the applier pushes to applyCh without holding rf.mu is what is committed at
\* its index, whatever append writes to the array of rf.Log in the meantime.
THEOREM PushedIsCommitted == Spec => []BatchIntact
  <1>1. ASSUME IInv PROVE BatchIntact
    <2>t. /\ batch.from \in Nat \ {0} /\ batch.cells \in Seq(Nat) /\ Len(batch.cells) \in Nat
          /\ chosen \in Seq(Nat) /\ Len(chosen) \in Nat
      BY <1>1, Facts DEF IInv, Types
    <2>1. batch.from - 1 + Len(batch.cells) <= Len(chosen)
      BY <1>1 DEF IInv, Committed, Agree
    <2>2. ASSUME NEW i \in DOMAIN batch.cells
          PROVE  /\ batch.from + i - 1 \in DOMAIN chosen
                 /\ batch.cells[i] = chosen[batch.from + i - 1]
      <3>1. i \in 1 .. Len(batch.cells) /\ DOMAIN chosen = 1 .. Len(chosen)
        BY <2>t
      <3> DEFINE f == batch.from
                 a == Len(batch.cells)
                 b == Len(chosen)
      <3>a. f \in Nat \ {0} /\ a \in Nat /\ b \in Nat /\ i \in 1 .. a /\ f - 1 + a <= b
        BY <2>1, <2>t, <3>1
      <3> HIDE DEF f, a, b
      <3>b. f + i - 1 \in 1 .. b /\ f + i - 1 = f - 1 + i
        BY <3>a, Within
      <3>2. /\ batch.from + i - 1 \in 1 .. Len(chosen)
            /\ batch.from + i - 1 = batch.from - 1 + i
        BY <3>b DEF f, b
      <3>3. batch.cells[i] = chosen[batch.from - 1 + i]
        BY <1>1, <3>1 DEF IInv, Intact
      <3> QED
        BY <3>1, <3>2, <3>3
    <2> QED
      BY <2>2 DEF BatchIntact
  <1> QED
    BY <1>1, Invariance, PTL

\* A replicator that encodes outside rf.mu sends the entries it was made for, as long
\* as its peer is in the request's term: who leads a term never overwrites its log.
THEOREM RequestsIntact == Spec => []RequestIntactInTerm
  <1>1. ASSUME IInv PROVE RequestIntactInTerm
    BY <1>1 DEF IInv, Requested, RequestIntactInTerm
  <1> QED
    BY <1>1, Invariance, PTL

-----------------------------------------------------------------------------
(* The key/value service misses nothing.                                   *)

\* The service has what LastApplied counts, what comes before the applier's slice and
\* what is in a snapshot that was pushed.
Served ==
    /\ lastApplied <= seen /\ batch.from - 1 <= seen
    /\ \A x \in pushing : x.pushed => x.index <= seen

\* Steps that push nothing.
LEMMA SameServed ==
  ASSUME Served, UNCHANGED <<lastApplied, seen>>, batch'.from = batch.from,
         \A x \in pushing' : x \in pushing \/ x.pushed = FALSE
  PROVE  Served'
  BY DEF Served

LEMMA NextServed ==
  ASSUME Service # "tester", IInv, Served, [Next]_vars
  PROVE  Served'
  <1>t. /\ Types /\ lastApplied \in Nat /\ seen \in Nat /\ first \in Nat /\ commit \in Nat
        /\ batch \in Slices /\ batch.from \in Nat \ {0}
        /\ \A x \in pushing : x \in [index : Nat, pushed : BOOLEAN] /\ x.index \in Nat
    BY Facts DEF IInv, Types
  <1>1. CASE PeerElected \/ PeerStart \/ PeerCommit \/ RejectEntries \/ Elected
             \/ LeaderCommit \/ Request \/ Encode \/ UNCHANGED vars
    <2>1. UNCHANGED <<lastApplied, seen, batch, pushing>>
      BY <1>1 DEF PeerElected, PeerStart, PeerCommit, RejectEntries, Elected, LeaderCommit,
                  Request, Encode, vars
    <2> QED
      BY <2>1, SameServed
  <1>2. ASSUME NEW n \in 0 .. Len(peer.log), NEW c \in 0 .. Len(chosen), AppendEntries(n, c)
        PROVE  Served'
    <2>1. batch'.from = batch.from
      BY <1>2, AppendEntriesStep
    <2>2. UNCHANGED <<lastApplied, seen, pushing>>
      BY <1>2 DEF AppendEntries
    <2> QED
      BY <2>1, <2>2, SameServed
  <1>3. ASSUME NEW i \in 1 .. Len(chosen), InstallSnapshot(i)
        PROVE  Served'
    <2>1. batch'.from = batch.from
      BY <1>3, <1>t, PartedSlice DEF InstallSnapshot
    <2>2. /\ UNCHANGED <<lastApplied, seen>>
          /\ \A x \in pushing' : x \in pushing \/ x.pushed = FALSE
      BY <1>3 DEF InstallSnapshot
    <2> QED
      BY <2>1, <2>2, SameServed
  <1>4. CASE Start
    <2>1. batch'.from = batch.from
      BY <1>4, <1>t, PartedSlice DEF Start
    <2>2. UNCHANGED <<lastApplied, seen, pushing>>
      BY <1>4 DEF Start
    <2> QED
      BY <2>1, <2>2, SameServed
  <1>5. CASE Take
    <2>1. UNCHANGED <<lastApplied, seen, pushing>>
      BY <1>5 DEF Take
    <2>2. CASE batch' = batch
      BY <2>1, <2>2, SameServed
    <2>3. CASE needApplyingLog /\ batch' = Slice(Max2(lastApplied, first) + 1, commit)
      <3>1. batch'.from = lastApplied + 1
        BY <1>t, <2>3 DEF needApplyingLog, Max2, Slice
      <3>2. batch'.from - 1 = lastApplied
        BY <1>t, <3>1
      <3> QED
        BY <2>1, <3>2 DEF Served
    <2> QED
      BY <1>5, <2>2, <2>3 DEF Take
  <1>6. CASE Push
    <2>1. /\ UNCHANGED <<lastApplied, pushing>> /\ seen' = Max2(seen, batch.from)
      BY <1>6 DEF Push, Receive
    <2>2. batch'.from = batch.from + 1
      BY <1>6, <1>t DEF Push, Slices
    <2>3. batch'.from - 1 <= seen' /\ seen <= seen' /\ seen' \in Nat
      BY <1>t, <2>1, <2>2 DEF Max2
    <2>4. lastApplied' <= seen'
      BY <1>t, <2>1, <2>3 DEF Served
    <2>5. ASSUME NEW x \in pushing, x.pushed PROVE x.index <= seen'
      <3>1. x.index <= seen /\ x.index \in Nat
        BY <1>t, <2>5 DEF Served
      <3> QED
        BY <1>t, <2>3, <3>1
    <2> QED
      BY <2>1, <2>3, <2>4, <2>5 DEF Served
  <1>7. CASE Pushed
    <2>1. UNCHANGED <<seen, pushing>> /\ lastApplied' = Max2(lastApplied, batch.from - 1)
      BY <1>7 DEF Pushed
    <2>2. batch'.from - 1 = 0
      BY <1>7, NoSliceIs DEF Pushed
    <2>3. lastApplied' <= seen' /\ 0 <= seen'
      BY <1>t, <2>1 DEF Served, Max2
    <2> QED
      BY <2>1, <2>2, <2>3 DEF Served
  <1>8. ASSUME NEW x \in pushing, PushSnapshot(x)
        PROVE  Served'
    <2>1. /\ UNCHANGED <<lastApplied, batch>> /\ seen' = Max2(seen, x.index)
          /\ pushing' = (pushing \ {x}) \cup {[x EXCEPT !.pushed = TRUE]}
      BY <1>8 DEF PushSnapshot, Ingest
    <2>2. seen <= seen' /\ x.index <= seen' /\ seen' \in Nat /\ x.index \in Nat
      BY <1>t, <2>1 DEF Max2
    <2>3. lastApplied' <= seen' /\ batch'.from - 1 <= seen'
      BY <1>t, <2>1, <2>2 DEF Served
    <2>4. ASSUME NEW y \in pushing', y.pushed PROVE y.index <= seen'
      <3>1. CASE y \in pushing
        <4>1. y.index <= seen /\ y.index \in Nat
          BY <1>t, <2>4, <3>1 DEF Served
        <4> QED
          BY <1>t, <2>2, <4>1
      <3>2. CASE y = [x EXCEPT !.pushed = TRUE]
        <4>1. y.index = x.index
          BY <1>t, <3>2
        <4> QED
          BY <2>2, <4>1
      <3> QED
        BY <2>1, <2>4, <3>1, <3>2
    <2> QED
      BY <2>3, <2>4 DEF Served
  <1>9. ASSUME NEW x \in pushing, PushedSnapshot(x)
        PROVE  Served'
    <2>1. /\ UNCHANGED <<seen, batch>> /\ lastApplied' = Max2(lastApplied, x.index)
          /\ pushing' \subseteq pushing /\ x.pushed
      BY <1>9 DEF PushedSnapshot
    <2>2. x.index <= seen /\ x.index \in Nat /\ lastApplied <= seen
      BY <1>t, <2>1 DEF Served
    <2>3. lastApplied' <= seen
      BY <1>t, <2>1, <2>2 DEF Max2
    <2> QED
      BY <2>1, <2>3 DEF Served
  <1>10. CASE Restart
    <2>1. /\ lastApplied' = 0 /\ seen' = 0 /\ batch' = NoSlice
          /\ \A x \in pushing' : x.pushed = FALSE
      BY <1>10 DEF Restart
    <2>2. batch'.from - 1 = 0
      BY <2>1, NoSliceIs
    <2> QED
      BY <2>1, <2>2 DEF Served
  <1> QED
    BY <1>1, <1>2, <1>3, <1>4, <1>5, <1>6, <1>7, <1>8, <1>9, <1>10
    DEF Next, Applier, Snapshots

\* The key/value service misses nothing: every entry comes after all entries before it,
\* pushed or in a snapshot, and LastApplied never counts one it has not seen.
THEOREM MissesNothing ==
  ASSUME Service # "tester"
  PROVE  Spec => []NothingSkipped
  <1>1. Init => Served
    <2> SUFFICES ASSUME Init PROVE Served
      OBVIOUS
    <2>1. lastApplied = 0 /\ seen = 0 /\ pushing = {} /\ batch.from = 1
      BY NoSliceIs DEF Init
    <2> QED
      BY <2>1 DEF Served
  <1>2. IInv /\ Served /\ [Next]_vars => Served'
    BY NextServed
  <1>3. IInv /\ Served => NothingSkipped
    <2> SUFFICES ASSUME IInv, Served PROVE NothingSkipped
      OBVIOUS
    <2>1. batch.from \in Nat \ {0} /\ seen \in Nat
      BY Facts DEF IInv, Types
    <2>2. batch.from - 1 <= seen /\ lastApplied <= seen
      BY DEF Served
    <2>3. batch.from <= seen + 1
      BY <2>1, <2>2
    <2> QED
      BY <2>2, <2>3 DEF NothingSkipped
  <1> QED
    BY <1>1, <1>2, <1>3, Invariance, PTL DEF Spec
=============================================================================
