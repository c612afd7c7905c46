------------------------- MODULE UsbControllerProofs --------------------------
(***************************************************************************)
(* Proofs about UsbController, for any endpoints and any number of calls   *)
(* and events.  What holds is argued access by access: a call is a path    *)
(* from registers to registers, one for each of its accesses, with an      *)
(* event inside at most one of them.  First come the paths, then what the  *)
(* program of every function may do to which register, then what an access *)
(* and a whole call do to an endpoint, and last the two invariants: one for*)
(* the bits the controller sets, one for what was configured and asked.    *)
(***************************************************************************)
EXTENDS UsbController, WellFoundedInduction, SequenceTheorems, FiniteSetTheorems, TLAPS

(* All registers.                                                          *)
Layout == Common \cup Banked \cup Addressed

(* Registers of 32 bits, and accesses to them.                             *)
Registers == [c : [Common -> SUBSET All], e : [Banked \cup Addressed -> [Eps -> SUBSET All]]]
Accesses == [reg : Layout, ep : Int, clr : SUBSET All, set : SUBSET All]

(* The side that the controller plays.                                     *)
Host == group = "host"

(* Access o of a call during which the controller raises e.                *)
Under(R, o, e) == Put(Host, Raise(R, e), o, Get(R, o))

(* The registers between the accesses of prog, when e comes in the k-th.   *)
Passes(path, prog, k, e) ==
  \A i \in 1..Len(prog) : path[i] = Under(path[i - 1], prog[i], IF i = k THEN e ELSE NoEvent)

(* The least number of a set.                                              *)
LEMMA LeastOf ==
  ASSUME NEW T, T \subseteq Nat, T # {}
  PROVE  \E x \in T : \A y \in T : x <= y
<1>1. IsWellFoundedOn(OpToRel(<, Nat), Nat) BY NatLessThanWellFounded
<1>2. PICK x \in T : \A y \in T : ~(<<y, x>> \in OpToRel(<, Nat)) BY <1>1, WFMin
<1>3. \A y \in T : ~(y < x) BY <1>2 DEF OpToRel
<1> QED BY <1>3

(* Perform is a recursive function: it exists, by the least length without *)
(* one.                                                                    *)
LEMMA PerformTurns ==
  ASSUME NEW host, NEW R, NEW prog, Len(prog) \in Nat
  PROVE  \E path : /\ path[0] = R /\ Perform(host, R, prog) = path[Len(prog)]
                   /\ \A i \in 1..Len(prog) : path[i] = Access(host, path[i - 1], prog[i])
<1> DEFINE N == Len(prog)
           Is(g, n) == g = [i \in 0..n |-> IF i = 0 THEN R ELSE Access(host, g[i - 1], prog[i])]
           path == CHOOSE g : Is(g, N)
           Bad == {n \in 0..N : ~ \E g : Is(g, n)}
<1>1. Bad = {}
  <2> SUFFICES ASSUME Bad # {} PROVE FALSE OBVIOUS
  <2>1. PICK n \in Bad : \A y \in Bad : n <= y
    <3>1. Bad \subseteq Nat OBVIOUS
    <3> HIDE DEF Bad
    <3> QED BY <3>1, LeastOf
  <2>2. n \in 0..N /\ ~ \E g : Is(g, n) BY <2>1
  <2>3. CASE n = 0
    <3> DEFINE g == [i \in 0..0 |-> R]
    <3>1. Is(g, 0) OBVIOUS
    <3> QED BY <2>2, <2>3, <3>1
  <2>4. CASE n # 0
    <3>1. n - 1 \in 0..N /\ ~(n <= n - 1) BY <2>2, <2>4
    <3>2. n - 1 \notin Bad BY <2>1, <3>1
    <3>3. PICK h : Is(h, n - 1) BY <3>1, <3>2
    <3> DEFINE g == [i \in 0..n |-> IF i = 0 THEN R ELSE Access(host, h[i - 1], prog[i])]
               e == [i \in 0..n |-> IF i = 0 THEN R ELSE Access(host, g[i - 1], prog[i])]
    <3>4. \A i \in 0..(n - 1) : g[i] = h[i] BY <2>2, <3>3
    <3>5. g = [i \in 0..n |-> g[i]] /\ e = [i \in 0..n |-> e[i]] OBVIOUS
    <3>6. ASSUME NEW i \in 0..n PROVE g[i] = e[i]
      <4>1. CASE i = 0 BY <4>1
      <4>2. CASE i # 0
        <5>1. i - 1 \in 0..(n - 1) BY <2>2, <4>2
        <5>2. g[i - 1] = h[i - 1] BY <3>4, <5>1
        <5>3. g[i] = Access(host, h[i - 1], prog[i]) BY <4>2
        <5>4. e[i] = Access(host, g[i - 1], prog[i]) BY <4>2
        <5> HIDE DEF g, e
        <5> QED BY <5>2, <5>3, <5>4
      <4> QED BY <4>1, <4>2
    <3>7. g = e
      <4> HIDE DEF g, e
      <4> QED BY <3>5, <3>6
    <3> QED BY <2>2, <3>7
  <2> QED BY <2>3, <2>4
<1>2. \E g : Is(g, N) BY <1>1
<1>3. Is(path, N)
  <2> HIDE DEF Is
  <2> QED BY <1>2
<1>4. Perform(host, R, prog) = path[N] BY DEF Perform
<1> HIDE DEF path
<1>5. path[0] = R BY <1>3
<1>6. \A i \in 1..N : path[i] = Access(host, path[i - 1], prog[i])
  <2> TAKE i \in 1..N
  <2>1. i \in 0..N /\ i # 0 OBVIOUS
  <2> HIDE DEF N
  <2> QED BY <1>3, <2>1
<1> QED BY <1>4, <1>5, <1>6

(* A call that nothing disturbs.                                           *)
LEMMA CallPath ==
  ASSUME NEW R, NEW prog \in Seq(Accesses)
  PROVE  \E path : /\ path[0] = R /\ path[Len(prog)] = Perform(Host, R, prog)
                   /\ Passes(path, prog, 0, NoEvent)
<1>1. Len(prog) \in Nat OBVIOUS
<1>2. PICK path : /\ path[0] = R /\ Perform(Host, R, prog) = path[Len(prog)]
                  /\ \A i \in 1..Len(prog) : path[i] = Access(Host, path[i - 1], prog[i])
  BY <1>1, PerformTurns
<1>3. \A r : Raise(r, NoEvent) = r BY DEF Raise, NoEvent
<1>4. \A r, o : Access(Host, r, o) = Under(r, o, NoEvent) BY <1>3 DEF Access, Under
<1>5. Passes(path, prog, 0, NoEvent) BY <1>2, <1>4 DEF Passes
<1> QED BY <1>2, <1>5

(* One that e disturbs in its k-th access.                                 *)
LEMMA DisturbedPath ==
  ASSUME NEW prog \in Seq(Accesses), NEW k \in 1..Len(prog), NEW e
  PROVE  \E path : /\ path[0] = usb /\ path[k - 1] = Before(prog, k)
                   /\ path[Len(prog)] = Disturbed(prog, k, e)
                   /\ Passes(path, prog, k, e)
<1> DEFINE N == Len(prog)
           first == SubSeq(prog, 1, k - 1)
           rest == SubSeq(prog, k + 1, N)
           r == Before(prog, k)
           m == Under(r, prog[k], e)
<1>1. N \in Nat /\ k \in 1..N OBVIOUS
<1>2. /\ Len(first) = k - 1 /\ \A i \in 1..(k - 1) : first[i] = prog[i]
      /\ Len(rest) = N - k /\ \A i \in 1..(N - k) : rest[i] = prog[k + i]
  OBVIOUS
<1>3. r = Perform(Host, usb, first) BY DEF Before, Host
<1>4. Disturbed(prog, k, e) = Perform(Host, m, rest) BY DEF Disturbed, Under, Host
<1>5. PICK a : /\ a[0] = usb /\ r = a[k - 1]
               /\ \A i \in 1..(k - 1) : a[i] = Access(Host, a[i - 1], prog[i])
  <2>1. Len(first) \in Nat BY <1>1, <1>2
  <2> HIDE DEF first, r
  <2>2. PICK a : /\ a[0] = usb /\ Perform(Host, usb, first) = a[Len(first)]
                 /\ \A i \in 1..Len(first) : a[i] = Access(Host, a[i - 1], first[i])
    BY <2>1, PerformTurns
  <2> QED BY <1>2, <1>3, <2>2
<1>6. PICK b : /\ b[0] = m /\ Disturbed(prog, k, e) = b[N - k]
               /\ \A i \in 1..(N - k) : b[i] = Access(Host, b[i - 1], prog[k + i])
  <2>1. Len(rest) \in Nat BY <1>1, <1>2
  <2> HIDE DEF rest, m
  <2>2. PICK b : /\ b[0] = m /\ Perform(Host, m, rest) = b[Len(rest)]
                 /\ \A i \in 1..Len(rest) : b[i] = Access(Host, b[i - 1], rest[i])
    BY <2>1, PerformTurns
  <2> QED BY <1>2, <1>4, <2>2
<1> HIDE DEF first, rest, r, m
<1> DEFINE path == [i \in 0..N |-> IF i < k THEN a[i] ELSE b[i - k]]
<1>7. \A i \in 0..(k - 1) : path[i] = a[i] BY <1>1
<1>8. \A i \in k..N : path[i] = b[i - k] BY <1>1
<1> HIDE DEF path
<1>9. \A s : Raise(s, NoEvent) = s BY DEF Raise, NoEvent
<1>10. \A s, o : Access(Host, s, o) = Under(s, o, NoEvent) BY <1>9 DEF Access, Under
<1>11. ASSUME NEW i \in 1..N
       PROVE  path[i] = Under(path[i - 1], prog[i], IF i = k THEN e ELSE NoEvent)
  <2>1. CASE i < k
    <3>1. i \in 0..(k - 1) /\ i - 1 \in 0..(k - 1) /\ i \in 1..(k - 1) BY <1>1, <2>1
    <3> QED BY <1>5, <1>7, <1>10, <2>1, <3>1
  <2>2. CASE i = k
    <3>1. i \in k..N /\ i - 1 \in 0..(k - 1) /\ i - k = 0 /\ i - 1 = k - 1 BY <1>1, <2>2
    <3>2. path[i] = m BY <1>6, <1>8, <3>1
    <3>3. path[i - 1] = r BY <1>5, <1>7, <3>1
    <3> QED BY <2>2, <3>2, <3>3 DEF m
  <2>3. CASE i > k
    <3>1. /\ i \in k..N /\ i - 1 \in k..N /\ i - k \in 1..(N - k) /\ i # k
          /\ (i - 1) - k = (i - k) - 1 /\ k + (i - k) = i
      BY <1>1, <2>3
    <3>2. path[i] = b[i - k] BY <1>8, <3>1
    <3>3. path[i - 1] = b[(i - k) - 1] BY <1>8, <3>1
    <3>4. b[i - k] = Access(Host, b[(i - k) - 1], prog[i]) BY <1>6, <3>1
    <3> QED BY <1>10, <3>1, <3>2, <3>3, <3>4
  <2> QED BY <1>1, <2>1, <2>2, <2>3
<1>12. Passes(path, prog, k, e) BY <1>11 DEF Passes
<1>13. 0 \in 0..(k - 1) /\ k - 1 \in 0..(k - 1) /\ N \in k..N BY <1>1
<1> HIDE DEF N
<1> QED BY <1>5, <1>6, <1>7, <1>8, <1>12, <1>13 DEF r, N

(* What every access keeps, and what one of them brings and the later ones *)
(* keep.                                                                   *)
LEMMA PathKeeps ==
  ASSUME NEW P, NEW N \in Nat, NEW path, NEW m \in 0..N, path[m] \in P,
         \A i \in (m + 1)..N : path[i - 1] \in P => path[i] \in P
  PROVE  \A i \in m..N : path[i] \in P
<1> DEFINE Bad == {i \in m..N : path[i] \notin P}
<1> SUFFICES ASSUME Bad # {} PROVE FALSE OBVIOUS
<1>1. PICK n \in Bad : \A y \in Bad : n <= y
  <2>1. Bad \subseteq Nat OBVIOUS
  <2> HIDE DEF Bad
  <2> QED BY <2>1, LeastOf
<1>2. n \in m..N /\ n # m BY <1>1
<1>3. n - 1 \in m..N /\ ~(n <= n - 1) /\ n \in (m + 1)..N BY <1>2
<1>4. path[n - 1] \in P BY <1>1, <1>3
<1> QED BY <1>1, <1>3, <1>4
-----------------------------------------------------------------------------
(* What may come in an access: an event of the group, or nothing.          *)
AnyEvent == Events(group) \cup {NoEvent}

(* The endpoints, by kind and number.                                      *)
LEMMA TargetFacts ==
  /\ \A x \in Targets : /\ x = <<x[1], x[2]>> /\ x[1] \in {"EP0", "TX", "RX"} /\ x[2] \in Eps
                        /\ x[1] = "EP0" <=> x[2] = 0
  /\ <<"EP0", 0>> \in Targets /\ \A t \in {"TX", "RX"} : \A n \in Eps \ {0} : <<t, n>> \in Targets
  /\ \A n \in Eps : n \in 0..15 /\ n \in All
  /\ {0, 1, 2} \subseteq Eps
BY EpsAssumption DEF Targets, DataEps, All

(* What the controller's events are.                                       *)
LEMMA EventFacts ==
  ASSUME NEW e \in AnyEvent
  PROVE  \/ e.kind = "none" /\ e = NoEvent
         \/ /\ e.kind = "packet" /\ e.x \in Targets /\ e.x[1] # "TX" /\ group # "otg"
         \/ e.kind = "sent" /\ e.x \in Targets /\ e.x[1] = "TX" /\ group = "dev"
         \/ e.kind = "change" /\ e.x[1] = "ISCR" /\ e.x[2] \in Changes /\ group \notin {"dev", "host"}
         \/ /\ e.kind = "pending" /\ group \notin {"dev", "host"}
            /\ e.x[1] \in {"INTTx", "INTRx"} /\ e.x[2] \in Eps
<1>1. CASE group = "dev" BY <1>1 DEF AnyEvent, Events, NoEvent, Readers
<1>2. CASE group = "host" BY <1>2 DEF AnyEvent, Events, NoEvent, Readers
<1>3. CASE group \notin {"dev", "host"}
  <2>1. e \in [kind : {"change"}, x : {"ISCR"} \X Changes] => e.kind = "change" /\ e.x[1] = "ISCR" /\ e.x[2] \in Changes
    OBVIOUS
  <2>2. e \in [kind : {"pending"}, x : {"INTTx"} \X Eps \cup {"INTRx"} \X DataEps] =>
          e.kind = "pending" /\ e.x[1] \in {"INTTx", "INTRx"} /\ e.x[2] \in Eps
    BY DEF DataEps
  <2>3. \/ e \in [kind : {"change"}, x : {"ISCR"} \X Changes]
        \/ e \in [kind : {"pending"}, x : {"INTTx"} \X Eps \cup {"INTRx"} \X DataEps]
        \/ e = NoEvent
    BY <1>3 DEF AnyEvent, Events
  <2> QED BY <1>3, <2>1, <2>2, <2>3 DEF NoEvent
<1> QED BY <1>1, <1>2, <1>3

(* A target's CSR.                                                         *)
LEMMA CsrFacts == \A x : CsrOf(x) \in {"TXCSR", "RXCSR"} /\ (CsrOf(x) = "RXCSR" <=> x[1] = "RX")
BY DEF CsrOf

(* The set that an event leaves of the bits of a CSR.                      *)
Shaken(v, e) ==
  IF e.kind = "packet" THEN (IF group = "host" THEN v \ {RequestBit} ELSE v) \cup {ReadyBit}
  ELSE v \ {TXCSR_D.TX_READY}

(* What an event does to each register.                                    *)
LEMMA RaiseFacts ==
  ASSUME NEW R \in Registers, NEW e \in AnyEvent
  PROVE  /\ Raise(R, e) \in Registers
         /\ \A r \in Common :
              Raise(R, e).c[r] = IF e.kind \in {"change", "pending"} /\ e.x[1] = r
                                 THEN R.c[r] \cup {e.x[2]} ELSE R.c[r]
         /\ \A r \in Banked \cup Addressed : \A y \in Eps :
              Raise(R, e).e[r][y] = IF e.kind \in {"packet", "sent"} /\ CsrOf(e.x) = r /\ e.x[2] = y
                                    THEN Shaken(R.e[r][y], e) ELSE R.e[r][y]
<1> DEFINE B == Banked \cup Addressed
<1>0. R = [c |-> R.c, e |-> R.e] /\ R.c \in [Common -> SUBSET All] /\ R.e \in [B -> [Eps -> SUBSET All]]
  BY DEF Registers
<1>1. \A x : CsrOf(x) \in B BY DEF CsrOf, Banked
<1>2. RequestBit \in All /\ ReadyBit \in All /\ TXCSR_D.TX_READY \in All /\ Changes \subseteq All
  BY DEF RequestBit, ReadyBit, TXCSR_D, All, Changes, ISCR
<1>3. CASE e.kind = "none" BY <1>0, <1>3, EventFacts DEF Raise, Registers
<1>4. CASE e.kind \in {"packet", "sent"}
  <2> DEFINE q == CsrOf(e.x)
             y == e.x[2]
             w == Shaken(R.e[q][y], e)
  <2>1. q \in B /\ y \in Eps BY <1>1, <1>4, EventFacts, TargetFacts
  <2>2. w \in SUBSET All BY <1>0, <1>2, <2>1 DEF Shaken
  <2>3. Raise(R, e) = [R EXCEPT !.e[q][y] = w]
    <3>1. CASE e.kind = "packet" BY <3>1 DEF Raise, Shaken
    <3>2. CASE e.kind = "sent"
      <4>1. q = "TXCSR" BY <3>2, EventFacts, CsrFacts
      <4> QED BY <3>2, <4>1 DEF Raise, Shaken
    <3> QED BY <1>4, <3>1, <3>2
  <2> HIDE DEF q, y, w, B
  <2> DEFINE n == [R.e EXCEPT ![q] = [R.e[q] EXCEPT ![y] = w]]
  <2>4. Raise(R, e) = [c |-> R.c, e |-> n] BY <1>0, <2>3
  <2>5. n \in [B -> [Eps -> SUBSET All]] BY <1>0, <2>1, <2>2
  <2>6. \A r \in B : \A z \in Eps : n[r][z] = IF q = r /\ y = z THEN w ELSE R.e[r][z] BY <1>0, <2>1
  <2> HIDE DEF n
  <2>7. Raise(R, e) \in Registers BY <1>0, <2>4, <2>5 DEF Registers, B
  <2>8. \A r \in Common : Raise(R, e).c[r] = R.c[r] BY <2>4
  <2>9. \A r \in B : \A z \in Eps : Raise(R, e).e[r][z] = IF q = r /\ y = z THEN w ELSE R.e[r][z]
    BY <2>4, <2>6
  <2> QED BY <1>4, <2>7, <2>8, <2>9 DEF B, q, y, w
<1>5. CASE e.kind \in {"change", "pending"}
  <2> DEFINE q == e.x[1]
             w == R.c[q] \cup {e.x[2]}
  <2>1. q \in Common /\ e.x[2] \in All BY <1>2, <1>5, EventFacts, TargetFacts DEF Common
  <2>2. w \in SUBSET All BY <1>0, <2>1
  <2>3. Raise(R, e) = [R EXCEPT !.c[q] = w] BY <1>5 DEF Raise
  <2> HIDE DEF q, w, B
  <2> DEFINE n == [R.c EXCEPT ![q] = w]
  <2>4. Raise(R, e) = [c |-> n, e |-> R.e] BY <1>0, <2>3
  <2>5. n \in [Common -> SUBSET All] BY <1>0, <2>1, <2>2
  <2>6. \A r \in Common : n[r] = IF q = r THEN w ELSE R.c[r] BY <1>0, <2>1
  <2> HIDE DEF n
  <2> QED BY <1>0, <1>5, <2>4, <2>5, <2>6 DEF Registers, B, q, w
<1> QED BY <1>3, <1>4, <1>5, EventFacts

(* A register holds bits of All, whatever is written to it.                *)
LEMMA LandType ==
  ASSUME NEW host, NEW r, NEW ep, NEW old \in SUBSET All, NEW v \in SUBSET All
  PROVE  Land(host, r, ep, old, v) \in SUBSET All
BY DEF Land, LandCsr

(* What an access does to each register, when an event comes between its   *)
(* read and its write.                                                     *)
LEMMA UnderFacts ==
  ASSUME NEW R \in Registers, NEW e \in AnyEvent, NEW o \in Accesses
  PROVE  LET U == Under(R, o, e)
             M == Raise(R, e)
         IN  /\ U \in Registers
             /\ \A r \in Common :
                  U.c[r] = IF o.reg = r
                           THEN Land(Host, r, Selected(R, o), M.c[r], (R.c[r] \ o.clr) \cup o.set)
                           ELSE M.c[r]
             /\ \A r \in Banked \cup Addressed : \A y \in Eps :
                  U.e[r][y] = IF o.reg = r /\ Selected(R, o) = y
                              THEN Land(Host, r, y, M.e[r][y], (R.e[r][y] \ o.clr) \cup o.set)
                              ELSE M.e[r][y]
<1> DEFINE B == Banked \cup Addressed
           U == Under(R, o, e)
           M == Raise(R, e)
           ep == Selected(R, o)
           v == (Get(R, o) \ o.clr) \cup o.set
           new == Land(Host, o.reg, ep, Get(M, o), v)
<1>0. /\ R = [c |-> R.c, e |-> R.e] /\ R.c \in [Common -> SUBSET All] /\ R.e \in [B -> [Eps -> SUBSET All]]
      /\ M = [c |-> M.c, e |-> M.e] /\ M.c \in [Common -> SUBSET All] /\ M.e \in [B -> [Eps -> SUBSET All]]
  <2> HIDE DEF M
  <2>1. M \in Registers BY RaiseFacts DEF M
  <2> QED BY <2>1 DEF Registers
<1>1. /\ o.reg \in Common \cup B /\ o.set \in SUBSET All /\ Common \cap B = {} /\ "EPIND" \in Common
  BY DEF Accesses, Layout, Common, Banked, Addressed
<1>2. ep = Selected(M, o)
  <2>1. M.c["EPIND"] = R.c["EPIND"]
    <3>1. ~(e.kind \in {"change", "pending"} /\ e.x[1] = "EPIND") BY EventFacts
    <3> QED BY <1>1, <3>1, RaiseFacts
  <2> QED BY <2>1 DEF Selected
<1>3. U = IF o.reg \in Common THEN [M EXCEPT !.c[o.reg] = new] ELSE [M EXCEPT !.e[o.reg][ep] = new]
  BY <1>2 DEF Under, Put
<1>4. CASE o.reg \in Common
  <2>1. v = (R.c[o.reg] \ o.clr) \cup o.set BY <1>4 DEF Get
  <2>2. Get(M, o) = M.c[o.reg] BY <1>4 DEF Get
  <2>3. v \in SUBSET All BY <1>0, <1>1, <1>4, <2>1
  <2>4. new \in SUBSET All BY <1>0, <1>4, <2>2, <2>3, LandType
  <2> HIDE DEF U, M, ep, v, new, B
  <2> DEFINE n == [M.c EXCEPT ![o.reg] = new]
  <2>5. U = [c |-> n, e |-> M.e] BY <1>0, <1>3, <1>4
  <2>6. n \in [Common -> SUBSET All] BY <1>0, <1>4, <2>4
  <2>7. \A r \in Common : n[r] = IF o.reg = r THEN new ELSE M.c[r] BY <1>0, <1>4
  <2> HIDE DEF n
  <2>8. U \in Registers BY <1>0, <2>5, <2>6 DEF Registers, B
  <2>9. \A r \in Common : U.c[r] = IF o.reg = r THEN Land(Host, r, ep, M.c[r], (R.c[r] \ o.clr) \cup o.set) ELSE M.c[r]
    BY <2>1, <2>2, <2>5, <2>7 DEF new
  <2>10. \A r \in B : o.reg # r /\ U.e[r] = M.e[r] BY <1>1, <1>4, <2>5
  <2> QED BY <2>8, <2>9, <2>10 DEF U, M, ep, B
<1>5. CASE o.reg \in B /\ ep \in Eps
  <2>0. o.reg \notin Common BY <1>1, <1>5
  <2>1. v = (R.e[o.reg][ep] \ o.clr) \cup o.set BY <2>0 DEF Get
  <2>2. Get(M, o) = M.e[o.reg][ep] BY <1>2, <2>0 DEF Get
  <2>3. v \in SUBSET All BY <1>0, <1>1, <1>5, <2>1
  <2>4. new \in SUBSET All BY <1>0, <1>5, <2>2, <2>3, LandType
  <2> HIDE DEF U, M, ep, v, new, B
  <2> DEFINE n == [M.e EXCEPT ![o.reg] = [M.e[o.reg] EXCEPT ![ep] = new]]
  <2>5. U = [c |-> M.c, e |-> n] BY <1>0, <1>3, <2>0
  <2>6. n \in [B -> [Eps -> SUBSET All]] BY <1>0, <1>5, <2>4
  <2>7. \A r \in B : \A y \in Eps : n[r][y] = IF o.reg = r /\ ep = y THEN new ELSE M.e[r][y] BY <1>0, <1>5
  <2> HIDE DEF n
  <2>8. U \in Registers BY <1>0, <2>5, <2>6 DEF Registers, B
  <2>9. \A r \in Common : o.reg # r /\ U.c[r] = M.c[r] BY <2>0, <2>5
  <2>10. \A r \in B : \A y \in Eps :
           U.e[r][y] = IF o.reg = r /\ ep = y
                       THEN Land(Host, r, y, M.e[r][y], (R.e[r][y] \ o.clr) \cup o.set) ELSE M.e[r][y]
    BY <2>1, <2>2, <2>5, <2>7 DEF new
  <2> QED BY <2>8, <2>9, <2>10 DEF U, M, ep, B
<1>6. CASE o.reg \in B /\ ep \notin Eps
  <2>0. o.reg \notin Common BY <1>1, <1>6
  <2> HIDE DEF U, M, ep, v, new, B
  <2>1. U = M
    <3>1. [M.e[o.reg] EXCEPT ![ep] = new] = M.e[o.reg] BY <1>0, <1>6
    <3>2. [M.e EXCEPT ![o.reg] = M.e[o.reg]] = M.e BY <1>0, <1>6
    <3>3. U = [M EXCEPT !.e = [M.e EXCEPT ![o.reg] = [M.e[o.reg] EXCEPT ![ep] = new]]] BY <1>3, <2>0
    <3> QED BY <1>0, <3>1, <3>2, <3>3
  <2>2. M \in Registers BY RaiseFacts DEF M
  <2>3. \A r \in Common : o.reg # r BY <2>0
  <2>4. \A y \in Eps : ep # y BY <1>6
  <2> QED BY <2>1, <2>2, <2>3, <2>4 DEF U, M, ep, B
<1> QED BY <1>1, <1>4, <1>5, <1>6

-----------------------------------------------------------------------------
(* What the functions of the device side may do to the registers, one kind *)
(* of endpoint at a time.                                                  *)

(* Short sequences and joined ones.                                        *)
LEMMA SeqFacts ==
  ASSUME NEW S
  PROVE  /\ <<>> \in Seq(S)
         /\ \A a \in S : <<a>> \in Seq(S)
         /\ \A a, b \in S : <<a, b>> \in Seq(S)
         /\ \A a, b, c \in S : <<a, b, c>> \in Seq(S)
         /\ \A a, b, c, d \in S : <<a, b, c, d>> \in Seq(S)
         /\ \A a, b, c, d, e \in S : <<a, b, c, d, e>> \in Seq(S)
         /\ \A a, b, c, d, e, f \in S : <<a, b, c, d, e, f>> \in Seq(S)
         /\ \A s, t \in Seq(S) : s \o t \in Seq(S)
OBVIOUS

(* The registers of an endpoint of type t.                                 *)
CsrName(t) == IF t = "RX" THEN "RXCSR" ELSE "TXCSR"
MaxpName(t) == IF t = "RX" THEN "RXMAXP" ELSE "TXMAXP"

(* The bit of the CSR that a stall (device side) or a request (host side)  *)
(* sets, where the properties speak of it.                                 *)
NoBit == -1
CommandBit(g, t) ==
  CASE g = "dev" /\ t = "TX" -> 4 [] g = "dev" /\ t = "RX" -> 5
    [] g = "host" /\ t # "TX" -> 5 [] OTHER -> NoBit

(* What an access does to the CSR that leaves RX_PKT_READY there.          *)
LeavesReady(g, t, clr, set) ==
  CASE g = "dev" /\ t = "EP0" -> {6, 8} \cap set = {}
    [] g = "host" /\ t = "EP0" -> 8 \notin set /\ 0 \notin clr \ set
    [] t = "RX" -> 4 \notin set /\ 0 \notin clr \ set
    [] OTHER -> TRUE

(* The functions that ask for something to stand, the ones that end it,    *)
(* and the ones that give a maximal packet.                                *)
Starters == {"EpSendStall", "StartInToken"}
Stoppers == Enders \cup {"EpClearStall", "StopInToken", "bulk_ep_reset"}
Configurers == {"ConfigEp", "bulk_ep_reset"}

(* Registers that the properties do not speak of, and the ones that        *)
(* usb_bulk_ep_reset alone writes.                                         *)
Others(g, t) ==
  CASE t = "EP0" -> {"TXTYPE", "TXINTERVAL", "PCTL", "FADDR", "DEVCTL"}
    [] t = "TX" -> {"TXTYPE", "TXINTERVAL"}
    [] t = "RX" -> {"RXTYPE", "RXINTERVAL"}
    [] OTHER -> {}

FifoRegs(t) == IF t = "TX" THEN {"TXFIFOAD", "TXFIFOSZ", "INTTxE"} ELSE {"RXFIFOAD", "RXFIFOSZ", "INTRxE"}

(* What function f of side g may do to the registers of its target of type *)
(* t, a being the maximal packet it is given.                              *)
Fits(g, t, f, a, reg, clr, set) ==
  \/ /\ reg = CsrName(t)
     /\ f \notin Droppers \cup {"bulk_ep_reset"} => LeavesReady(g, t, clr, set)
     /\ f \notin Starters => CommandBit(g, t) \notin set
     /\ f \notin Stoppers => CommandBit(g, t) \notin clr \ set
  \/ /\ reg = MaxpName(t) /\ t # "EP0"
     /\ \/ f \in Configurers /\ set = Bits(a % 2^11) /\ clr = IF g = "dev" THEN 0..12 ELSE {}
        \/ f = "ConfigEp_Default" /\ set = {} /\ clr = All
  \/ /\ reg = "VEND0" /\ g = "dev" /\ t # "EP0"
     /\ \/ f = "ConfigEpDma" /\ 0 \in set
        \/ f = "ClearEpDma" /\ 0 \in clr \ set
  \/ reg \in Others(g, t)
  \/ reg \in FifoRegs(t) /\ f = "bulk_ep_reset"

(* The accesses that fit.                                                  *)
Allowed(g, t, f, a) ==
  {o \in Accesses : o.reg \in Addressed \/ (o.ep = Here /\ Fits(g, t, f, a, o.reg, o.clr, o.set))}

(* What it is sure to do.                                                  *)
Does(g, t, f, prog) ==
  /\ CommandBit(g, t) # NoBit =>
       /\ f \in Starters =>
            \E k \in 1..Len(prog) : prog[k].reg = CsrName(t) /\ CommandBit(g, t) \in prog[k].set
       /\ f \in Stoppers =>
            \E k \in 1..Len(prog) : prog[k].reg = CsrName(t) /\ CommandBit(g, t) \in prog[k].clr \ prog[k].set
  /\ t # "EP0" =>
       /\ f \in Configurers \cup {"ConfigEp_Default"} => \E k \in 1..Len(prog) : prog[k].reg = MaxpName(t)
       /\ g = "dev" /\ f \in {"ConfigEpDma", "ClearEpDma"} => \E k \in 1..Len(prog) : prog[k].reg = "VEND0"

(* An access that fits is allowed.                                         *)
LEMMA AllowedFacts ==
  ASSUME NEW g, NEW t, NEW f, NEW a, NEW reg \in Layout, NEW clr \in SUBSET All, NEW set \in SUBSET All,
         Fits(g, t, f, a, reg, clr, set)
  PROVE  /\ Update(reg, clr, set) \in Allowed(g, t, f, a)
BY DEF Update, Allowed, Accesses, Here

(* The ways to write an access.                                            *)
LEMMA AccessForms ==
  /\ \A r, b : set_bit(r, b) = Update(r, {}, {b}) /\ clear_bit(r, b) = Update(r, {b}, {})
  /\ \A r, s : Write(r, s) = Update(r, All, s)
  /\ \A r, s, z : Update(r, s, z).reg = r /\ Update(r, s, z).clr = s /\ Update(r, s, z).set = z
BY DEF set_bit, clear_bit, Write, Update

(* The digits of a number fit a register.                                  *)
LEMMA BitsType == \A n : Bits(n) \in SUBSET All
BY DEF Bits, All

(* The registers of an endpoint are in the layout.                         *)
LEMMA RegNames ==
  /\ "TXCSR" \in Layout /\ "RXCSR" \in Layout /\ "TXMAXP" \in Layout /\ "RXMAXP" \in Layout
  /\ "VEND0" \in Layout /\ "PCTL" \in Layout /\ "FADDR" \in Layout /\ "DEVCTL" \in Layout
  /\ "TXTYPE" \in Layout /\ "RXTYPE" \in Layout /\ "TXINTERVAL" \in Layout /\ "RXINTERVAL" \in Layout
  /\ "TXFIFOAD" \in Layout /\ "TXFIFOSZ" \in Layout /\ "RXFIFOAD" \in Layout /\ "RXFIFOSZ" \in Layout
  /\ "INTTxE" \in Layout /\ "INTRxE" \in Layout
BY DEF Layout, Common, Banked, Addressed

(* A program that makes only allowed accesses, and the one it is for.      *)
Good(g, t, f, a, prog) == prog \in Seq(Allowed(g, t, f, a)) /\ Does(g, t, f, prog)

(* Endpoint 0 of the device side.                                          *)
LEMMA DevEp0 ==
  LET ok(f, prog) == Good("dev", "EP0", f, 0, prog)
  IN  /\ \A n : Good("dev", "EP0", "ConfigEp", n, USBC_Dev_ep0_ConfigEp0)
      /\ ok("ConfigEp_Default", USBC_Dev_ep0_ConfigEp0_Default)
      /\ ok("FlushFifo", USBC_Dev_ep0_FlushFifo)
      /\ ok("EpSendStall", USBC_Dev_ep0_SendStall)
      /\ ok("EpClearStall", USBC_Dev_ep0_ClearStall)
      /\ ok("WriteDataStatus", USBC_Dev_ep0_WriteDataHalf)
      /\ ok("WriteDataStatus", USBC_Dev_ep0_WriteDataComplete)
      /\ ok("ReadDataStatus", USBC_Dev_ep0_ReadDataHalf)
      /\ ok("ReadDataStatus", USBC_Dev_ep0_ReadDataComplete)
<1> DEFINE fits(f, clr, set) == clr \in SUBSET All /\ set \in SUBSET All /\ \A a : Fits("dev", "EP0", f, a, "TXCSR", clr, set)
<1>1. \A f, prog : Does("dev", "EP0", f, prog) BY DEF Does, CommandBit, NoBit
<1>2. ASSUME NEW f, NEW a, NEW clr, NEW set, fits(f, clr, set)
      PROVE Update("TXCSR", clr, set) \in Allowed("dev", "EP0", f, a)
  BY <1>2, AllowedFacts, RegNames
<1>0. /\ All \in SUBSET All /\ {} \in SUBSET All /\ {8} \in SUBSET All /\ {6} \in SUBSET All
      /\ {6, 3} \in SUBSET All /\ {5} \in SUBSET All /\ {2} \in SUBSET All /\ {1} \in SUBSET All
      /\ {1, 3} \in SUBSET All
  BY DEF All
<1>6. \A f, a, clr, set : clr \in SUBSET All /\ set \in SUBSET All /\ (f \notin Droppers \cup {"bulk_ep_reset"} => {6, 8} \cap set = {}) => fits(f, clr, set)
  BY DEF Fits, CsrName, CommandBit, NoBit, LeavesReady, All
<1> HIDE DEF fits
<1>3. /\ \A f \in Droppers : fits(f, All, {8}) /\ fits(f, All, {6}) /\ fits(f, All, {6, 3})
      /\ fits("EpSendStall", {}, {5}) /\ fits("EpClearStall", {5}, {}) /\ fits("EpClearStall", {2}, {})
      /\ fits("WriteDataStatus", All, {1}) /\ fits("WriteDataStatus", All, {1, 3})
  BY <1>0, <1>6
<1> HIDE DEF fits
<1>4. {"ConfigEp", "ConfigEp_Default", "FlushFifo", "ReadDataStatus"} \subseteq Droppers BY DEF Droppers
<1>5. \A f, a, clr, set : fits(f, clr, set) => <<Update("TXCSR", clr, set)>> \in Seq(Allowed("dev", "EP0", f, a))
  BY <1>2, SeqFacts
<1> QED BY <1>1, <1>2, <1>3, <1>4, <1>5, SeqFacts, AccessForms DEF Good, USBC_Dev_ep0_ConfigEp0, USBC_Dev_ep0_ConfigEp0_Default, USBC_Dev_ep0_FlushFifo, USBC_Dev_ep0_ReadDataHalf,
     USBC_Dev_ep0_ReadDataComplete, USBC_Dev_ep0_WriteDataHalf, USBC_Dev_ep0_WriteDataComplete,
     USBC_Dev_ep0_SendStall, USBC_Dev_ep0_ClearStall, CSR0, CSR0_D

(* Concatenations of short sequences.                                      *)
LEMMA JoinedAs ==
  ASSUME NEW S, NEW s \in Seq(S), NEW t \in Seq(S), NEW u \in Seq(S), Len(u) = Len(s) + Len(t),
         \A i \in 1..Len(s) : u[i] = s[i], \A i \in 1..Len(t) : u[Len(s) + i] = t[i]
  PROVE  s \o t = u
<1> DEFINE v == s \o t
<1>1. /\ v \in Seq(S) /\ Len(v) = Len(u)
      /\ \A i \in 1..Len(u) : v[i] = IF i <= Len(s) THEN s[i] ELSE t[i - Len(s)]
  BY ConcatProperties
<1>2. Len(s) \in Nat /\ Len(t) \in Nat OBVIOUS
<1> HIDE DEF v
<1>3. ASSUME NEW i \in 1..Len(u) PROVE v[i] = u[i]
  <2>1. CASE i <= Len(s) BY <1>1, <1>2, <2>1
  <2>2. CASE i > Len(s)
    <3> DEFINE j == i - Len(s)
    <3>1. j \in 1..Len(t) /\ Len(s) + j = i
      <4>1. i \in Nat /\ i <= Len(s) + Len(t) /\ i > Len(s) BY <1>2, <2>2
      <4> QED BY <1>2, <4>1
    <3>2. v[i] = t[j] BY <1>1, <1>2, <2>2, <3>1
    <3> HIDE DEF j
    <3>3. u[Len(s) + j] = t[j] BY <3>1
    <3> QED BY <3>1, <3>2, <3>3
  <2> QED BY <1>2, <2>1, <2>2
<1>4. v = u BY <1>1, <1>3, SeqEqual
<1> QED BY <1>4 DEF v

(* A program of two parts, by the number of accesses in each.              *)
LEMMA Joined11 ==
  ASSUME NEW S, NEW a \in S, NEW b \in S
  PROVE  <<a>> \o <<b>> = <<a, b>>
<1> DEFINE s == <<a>> t == <<b>> u == <<a, b>>
<1>1. s \in Seq(S) /\ t \in Seq(S) /\ u \in Seq(S) OBVIOUS
<1>2. Len(s) = 1 /\ Len(t) = 1 /\ Len(u) = 2 /\ u[1] = s[1] /\ u[2] = t[1] OBVIOUS
<1> HIDE DEF s, t, u
<1>3. \A i \in 1..Len(s) : u[i] = s[i] BY <1>2
<1>4. \A i \in 1..Len(t) : u[Len(s) + i] = t[i] BY <1>2
<1>5. Len(u) = Len(s) + Len(t) BY <1>2
<1>6. s \o t = u BY <1>1, <1>3, <1>4, <1>5, JoinedAs
<1> QED BY <1>6 DEF s, t, u

(* One access and two.                                                     *)
LEMMA Joined12 ==
  ASSUME NEW S, NEW a \in S, NEW b \in S, NEW c \in S
  PROVE  <<a>> \o <<b, c>> = <<a, b, c>>
<1> DEFINE s == <<a>> t == <<b, c>> u == <<a, b, c>>
<1>1. s \in Seq(S) /\ t \in Seq(S) /\ u \in Seq(S) OBVIOUS
<1>2. Len(s) = 1 /\ Len(t) = 2 /\ Len(u) = 3 /\ u[1] = s[1] /\ u[2] = t[1] /\ u[3] = t[2] OBVIOUS
<1> HIDE DEF s, t, u
<1>3. \A i \in 1..Len(s) : u[i] = s[i] BY <1>2
<1>4. \A i \in 1..Len(t) : u[Len(s) + i] = t[i] BY <1>2
<1>5. Len(u) = Len(s) + Len(t) BY <1>2
<1>6. s \o t = u BY <1>1, <1>3, <1>4, <1>5, JoinedAs
<1> QED BY <1>6 DEF s, t, u

(* Two accesses and one.                                                   *)
LEMMA Joined21 ==
  ASSUME NEW S, NEW a \in S, NEW b \in S, NEW c \in S
  PROVE  <<a, b>> \o <<c>> = <<a, b, c>>
<1> DEFINE s == <<a, b>> t == <<c>> u == <<a, b, c>>
<1>1. s \in Seq(S) /\ t \in Seq(S) /\ u \in Seq(S) OBVIOUS
<1>2. Len(s) = 2 /\ Len(t) = 1 /\ Len(u) = 3 /\ u[1] = s[1] /\ u[2] = s[2] /\ u[3] = t[1] OBVIOUS
<1> HIDE DEF s, t, u
<1>3. \A i \in 1..Len(s) : u[i] = s[i] BY <1>2
<1>4. \A i \in 1..Len(t) : u[Len(s) + i] = t[i] BY <1>2
<1>5. Len(u) = Len(s) + Len(t) BY <1>2
<1>6. s \o t = u BY <1>1, <1>3, <1>4, <1>5, JoinedAs
<1> QED BY <1>6 DEF s, t, u

(* Three accesses and one.                                                 *)
LEMMA Joined31 ==
  ASSUME NEW S, NEW a \in S, NEW b \in S, NEW c \in S, NEW d \in S
  PROVE  <<a, b, c>> \o <<d>> = <<a, b, c, d>>
<1> DEFINE s == <<a, b, c>> t == <<d>> u == <<a, b, c, d>>
<1>1. s \in Seq(S) /\ t \in Seq(S) /\ u \in Seq(S) OBVIOUS
<1>2. Len(s) = 3 /\ Len(t) = 1 /\ Len(u) = 4 /\ u[1] = s[1] /\ u[2] = s[2] /\ u[3] = s[3] /\ u[4] = t[1] OBVIOUS
<1> HIDE DEF s, t, u
<1>3. \A i \in 1..Len(s) : u[i] = s[i] BY <1>2
<1>4. \A i \in 1..Len(t) : u[Len(s) + i] = t[i] BY <1>2
<1>5. Len(u) = Len(s) + Len(t) BY <1>2
<1>6. s \o t = u BY <1>1, <1>3, <1>4, <1>5, JoinedAs
<1> QED BY <1>6 DEF s, t, u

(* Four accesses and one.                                                  *)
LEMMA Joined41 ==
  ASSUME NEW S, NEW a \in S, NEW b \in S, NEW c \in S, NEW d \in S, NEW e \in S
  PROVE  <<a, b, c, d>> \o <<e>> = <<a, b, c, d, e>>
<1> DEFINE s == <<a, b, c, d>> t == <<e>> u == <<a, b, c, d, e>>
<1>1. s \in Seq(S) /\ t \in Seq(S) /\ u \in Seq(S) OBVIOUS
<1>2. Len(s) = 4 /\ Len(t) = 1 /\ Len(u) = 5 /\ u[1] = s[1] /\ u[2] = s[2] /\ u[3] = s[3] /\ u[4] = s[4] /\ u[5] = t[1] OBVIOUS
<1> HIDE DEF s, t, u
<1>3. \A i \in 1..Len(s) : u[i] = s[i] BY <1>2
<1>4. \A i \in 1..Len(t) : u[Len(s) + i] = t[i] BY <1>2
<1>5. Len(u) = Len(s) + Len(t) BY <1>2
<1>6. s \o t = u BY <1>1, <1>3, <1>4, <1>5, JoinedAs
<1> QED BY <1>6 DEF s, t, u

(* A function that has nothing to do for its type of endpoint.             *)
LEMMA Idle ==
  ASSUME NEW g, NEW t, NEW f, NEW a,
         CommandBit(g, t) = NoBit \/ f \notin Starters \cup Stoppers,
         t = "EP0" \/ f \notin Configurers \cup {"ConfigEp_Default"},
         t = "EP0" \/ g # "dev" \/ f \notin {"ConfigEpDma", "ClearEpDma"}
  PROVE  Good(g, t, f, a, <<>>)
BY DEF Good, Does

(* What the functions of the device side do at an IN endpoint.  *)
LEMMA DevTx ==
  LET ok(f, prog) == Good("dev", "TX", f, 0, prog)
  IN  /\ \A f \in Configurers : \A n, ty : \A d \in BOOLEAN :
           Good("dev", "TX", f, n, USBC_Dev_Tx_ConfigEp(ty, d, n))
      /\ ok("ConfigEp_Default", USBC_Dev_Tx_ConfigEp_Default)
      /\ ok("FlushFifo", USBC_Dev_Tx_FlushFifo)
      /\ ok("ConfigEpDma", USBC_Dev_Tx_ConfigEpDma \o USBC_Dev_ConfigDma_Trans)
      /\ ok("ClearEpDma", USBC_Dev_Tx_ClearEpDma \o USBC_Dev_ClearDma_Trans)
      /\ ok("EpSendStall", USBC_Dev_Tx_SendStall)
      /\ ok("EpClearStall", USBC_Dev_Tx_ClearStall)
      /\ ok("WriteDataStatus", USBC_Dev_Tx_WriteDataHalf)
      /\ ok("WriteDataStatus", USBC_Dev_Tx_WriteDataComplete)
<1> DEFINE D(f, a, r, clr, set) == Update(r, clr, set) \in Allowed("dev", "TX", f, a)
<1>1. /\ All \in SUBSET All /\ {} \in SUBSET All /\ {13, 6, 3} \in SUBSET All /\ {6, 3} \in SUBSET All /\ {15, 13, 12, 10} \in SUBSET All /\ {15, 12} \in SUBSET All /\ {10} \in SUBSET All /\ {2} \in SUBSET All /\ {0} \in SUBSET All /\ {14} \in SUBSET All /\ {4} \in SUBSET All /\ 0..12 \in SUBSET All /\ {5, 4} \in SUBSET All
      /\ \A n : Bits(n) \in SUBSET All
  BY BitsType DEF All
<1>2. CommandBit("dev", "TX") = 4 /\ 4 # NoBit /\ CsrName("TX") = "TXCSR" /\ MaxpName("TX") = "TXMAXP"
  BY DEF CommandBit, NoBit, CsrName, MaxpName
<1>0. \A f, clr, set : TRUE => LeavesReady("dev", "TX", clr, set)
  BY DEF LeavesReady
<1>3. ASSUME NEW f, NEW a, NEW clr \in SUBSET All, NEW set \in SUBSET All,
             f \notin Droppers \cup {"bulk_ep_reset"} => TRUE,
             f \notin Starters => 4 \notin set, f \notin Stoppers => 4 \notin clr \ set
      PROVE  D(f, a, "TXCSR", clr, set)
  <2>1. Fits("dev", "TX", f, a, "TXCSR", clr, set) BY <1>0, <1>2, <1>3 DEF Fits
  <2> QED BY <2>1, AllowedFacts, RegNames
<1>4. \A f \in Configurers : \A n : D(f, n, "TXMAXP", 0..12, Bits(n % 2^11))
  BY <1>1, <1>2, AllowedFacts, RegNames DEF Fits
<1>5. D("ConfigEp_Default", 0, "TXMAXP", All, {}) BY <1>1, <1>2, AllowedFacts, RegNames DEF Fits
<1>6. D("ConfigEpDma", 0, "VEND0", {}, {0}) /\ D("ClearEpDma", 0, "VEND0", {0}, {})
  BY <1>1, AllowedFacts, RegNames DEF Fits
<1>7. /\ Droppers = {"ConfigEp", "ConfigEp_Default", "FlushFifo", "ReadDataStatus", "ClearEpCSR"}
      /\ Starters = {"EpSendStall", "StartInToken"} /\ Configurers = {"ConfigEp", "bulk_ep_reset"}
      /\ Stoppers = {"ConfigEp", "ConfigEp_Default", "FlushFifo", "ClearEpCSR", "EpClearStall",
                      "StopInToken", "bulk_ep_reset"}
  BY DEF Droppers, Starters, Configurers, Stoppers, Enders
<1>8. Good("dev", "TX", "ConfigEp_Default", 0, USBC_Dev_Tx_ConfigEp_Default)
  <2>1. D("ConfigEp_Default", 0, "TXCSR", All, {}) BY <1>1, <1>3, <1>7, SMTT(30)
  <2>2. D("ConfigEp_Default", 0, "TXMAXP", All, {}) BY <1>5
  <2> DEFINE p == <<Update("TXCSR", All, {}), Update("TXMAXP", All, {})>>
  <2>3. USBC_Dev_Tx_ConfigEp_Default = p BY AccessForms DEF USBC_Dev_Tx_ConfigEp_Default
  <2>4. p \in Seq(Allowed("dev", "TX", "ConfigEp_Default", 0)) BY <2>1, <2>2, SeqFacts
  <2>5. Len(p) = 2 /\ p[1] = Update("TXCSR", All, {}) /\ p[2] = Update("TXMAXP", All, {}) OBVIOUS
  <2> HIDE DEF p
  <2>6. Does("dev", "TX", "ConfigEp_Default", p) BY <1>2, <1>7, <2>5, AccessForms DEF Does, All
  <2> QED BY <2>3, <2>4, <2>6 DEF Good
<1>9. Good("dev", "TX", "FlushFifo", 0, USBC_Dev_Tx_FlushFifo)
  <2>1. D("FlushFifo", 0, "TXCSR", All, {6, 3}) BY <1>1, <1>3, <1>7, SMTT(30)
  <2> DEFINE p == <<Update("TXCSR", All, {6, 3})>>
  <2>2. USBC_Dev_Tx_FlushFifo = p BY AccessForms DEF USBC_Dev_Tx_FlushFifo, TXCSR_D
  <2>3. p \in Seq(Allowed("dev", "TX", "FlushFifo", 0)) BY <2>1, SeqFacts
  <2>4. Len(p) = 1 /\ p[1] = Update("TXCSR", All, {6, 3}) OBVIOUS
  <2> HIDE DEF p
  <2>5. Does("dev", "TX", "FlushFifo", p) BY <1>2, <1>7, <2>4, AccessForms DEF Does, All
  <2> QED BY <2>2, <2>3, <2>5 DEF Good
<1>10. Good("dev", "TX", "ConfigEpDma", 0, USBC_Dev_Tx_ConfigEpDma \o USBC_Dev_ConfigDma_Trans)
  <2>1. D("ConfigEpDma", 0, "TXCSR", {}, {15, 13, 12, 10}) BY <1>1, <1>3, <1>7, SMTT(30)
  <2>2. D("ConfigEpDma", 0, "VEND0", {}, {0}) BY <1>6
  <2> DEFINE p == <<Update("TXCSR", {}, {15, 13, 12, 10}), Update("VEND0", {}, {0})>>
  <2>3. USBC_Dev_Tx_ConfigEpDma = <<Update("TXCSR", {}, {15, 13, 12, 10})>> BY AccessForms DEF USBC_Dev_Tx_ConfigEpDma, TXCSR_D
  <2>4. USBC_Dev_ConfigDma_Trans = <<Update("VEND0", {}, {0})>> BY AccessForms DEF USBC_Dev_ConfigDma_Trans, VEND0
  <2>5. USBC_Dev_Tx_ConfigEpDma \o USBC_Dev_ConfigDma_Trans = p BY <2>1, <2>2, <2>3, <2>4, Joined11
  <2>6. p \in Seq(Allowed("dev", "TX", "ConfigEpDma", 0)) BY <2>1, <2>2, SeqFacts
  <2>7. Len(p) = 2 /\ p[1] = Update("TXCSR", {}, {15, 13, 12, 10}) /\ p[2] = Update("VEND0", {}, {0}) OBVIOUS
  <2> HIDE DEF p
  <2>8. Does("dev", "TX", "ConfigEpDma", p) BY <1>2, <1>7, <2>7, AccessForms DEF Does, All
  <2> QED BY <2>5, <2>6, <2>8 DEF Good
<1>11. Good("dev", "TX", "ClearEpDma", 0, USBC_Dev_Tx_ClearEpDma \o USBC_Dev_ClearDma_Trans)
  <2>1. D("ClearEpDma", 0, "TXCSR", {15, 12}, {}) BY <1>1, <1>3, <1>7, SMTT(30)
  <2>2. D("ClearEpDma", 0, "TXCSR", {10}, {})
    <3>1. 4 \notin {10} /\ 4 \notin {} /\ {10} \in SUBSET All /\ {} \in SUBSET All BY DEF All
    <3>2. "ClearEpDma" \notin Starters /\ ("ClearEpDma" \notin Droppers \cup {"bulk_ep_reset"} => 8 \notin {} /\ 0 \notin {10}) BY <1>7
    <3> QED BY <1>3, <3>1, <3>2
  <2>3. D("ClearEpDma", 0, "VEND0", {0}, {}) BY <1>6
  <2> DEFINE p == <<Update("TXCSR", {15, 12}, {}), Update("TXCSR", {10}, {}), Update("VEND0", {0}, {})>>
  <2>4. USBC_Dev_Tx_ClearEpDma = <<Update("TXCSR", {15, 12}, {}), Update("TXCSR", {10}, {})>> BY AccessForms DEF USBC_Dev_Tx_ClearEpDma, TXCSR_D
  <2>5. USBC_Dev_ClearDma_Trans = <<Update("VEND0", {0}, {})>> BY AccessForms DEF USBC_Dev_ClearDma_Trans, VEND0
  <2>6. USBC_Dev_Tx_ClearEpDma \o USBC_Dev_ClearDma_Trans = p BY <2>1, <2>2, <2>3, <2>4, <2>5, Joined21
  <2>7. p \in Seq(Allowed("dev", "TX", "ClearEpDma", 0)) BY <2>1, <2>2, <2>3, SeqFacts
  <2>8. Len(p) = 3 /\ p[1] = Update("TXCSR", {15, 12}, {}) /\ p[2] = Update("TXCSR", {10}, {}) /\ p[3] = Update("VEND0", {0}, {}) OBVIOUS
  <2> HIDE DEF p
  <2>9. Does("dev", "TX", "ClearEpDma", p) BY <1>2, <1>7, <2>8, AccessForms DEF Does, All
  <2> QED BY <2>6, <2>7, <2>9 DEF Good
<1>12. Good("dev", "TX", "EpSendStall", 0, USBC_Dev_Tx_SendStall)
  <2>1. D("EpSendStall", 0, "TXCSR", {}, {4}) BY <1>1, <1>3, <1>7, SMTT(30)
  <2> DEFINE p == <<Update("TXCSR", {}, {4})>>
  <2>2. USBC_Dev_Tx_SendStall = p BY AccessForms DEF USBC_Dev_Tx_SendStall, TXCSR_D
  <2>3. p \in Seq(Allowed("dev", "TX", "EpSendStall", 0)) BY <2>1, SeqFacts
  <2>4. Len(p) = 1 /\ p[1] = Update("TXCSR", {}, {4}) OBVIOUS
  <2> HIDE DEF p
  <2>5. Does("dev", "TX", "EpSendStall", p) BY <1>2, <1>7, <2>4, AccessForms DEF Does, All
  <2> QED BY <2>2, <2>3, <2>5 DEF Good
<1>13. Good("dev", "TX", "EpClearStall", 0, USBC_Dev_Tx_ClearStall)
  <2>1. D("EpClearStall", 0, "TXCSR", {5, 4}, {}) BY <1>1, <1>3, <1>7, SMTT(30)
  <2> DEFINE p == <<Update("TXCSR", {5, 4}, {})>>
  <2>2. USBC_Dev_Tx_ClearStall = p BY AccessForms DEF USBC_Dev_Tx_ClearStall, TXCSR_D
  <2>3. p \in Seq(Allowed("dev", "TX", "EpClearStall", 0)) BY <2>1, SeqFacts
  <2>4. Len(p) = 1 /\ p[1] = Update("TXCSR", {5, 4}, {}) OBVIOUS
  <2> HIDE DEF p
  <2>5. Does("dev", "TX", "EpClearStall", p) BY <1>2, <1>7, <2>4, AccessForms DEF Does, All
  <2> QED BY <2>2, <2>3, <2>5 DEF Good
<1>14. Good("dev", "TX", "WriteDataStatus", 0, USBC_Dev_Tx_WriteDataHalf)
  <2>1. D("WriteDataStatus", 0, "TXCSR", {2}, {0}) BY <1>1, <1>3, <1>7, SMTT(30)
  <2> DEFINE p == <<Update("TXCSR", {2}, {0})>>
  <2>2. USBC_Dev_Tx_WriteDataHalf = p BY AccessForms DEF USBC_Dev_Tx_WriteDataHalf, TXCSR_D
  <2>3. p \in Seq(Allowed("dev", "TX", "WriteDataStatus", 0)) BY <2>1, SeqFacts
  <2>4. Len(p) = 1 /\ p[1] = Update("TXCSR", {2}, {0}) OBVIOUS
  <2> HIDE DEF p
  <2>5. Does("dev", "TX", "WriteDataStatus", p) BY <1>2, <1>7, <2>4, AccessForms DEF Does, All
  <2> QED BY <2>2, <2>3, <2>5 DEF Good
<1>15. Good("dev", "TX", "WriteDataStatus", 0, USBC_Dev_Tx_WriteDataComplete)
  <2>1. D("WriteDataStatus", 0, "TXCSR", {2}, {0}) BY <1>1, <1>3, <1>7, SMTT(30)
  <2> DEFINE p == <<Update("TXCSR", {2}, {0})>>
  <2>2. USBC_Dev_Tx_WriteDataComplete = p BY AccessForms DEF USBC_Dev_Tx_WriteDataComplete, TXCSR_D
  <2>3. p \in Seq(Allowed("dev", "TX", "WriteDataStatus", 0)) BY <2>1, SeqFacts
  <2>4. Len(p) = 1 /\ p[1] = Update("TXCSR", {2}, {0}) OBVIOUS
  <2> HIDE DEF p
  <2>5. Does("dev", "TX", "WriteDataStatus", p) BY <1>2, <1>7, <2>4, AccessForms DEF Does, All
  <2> QED BY <2>2, <2>3, <2>5 DEF Good
<1>16. ASSUME NEW f \in Configurers, NEW a, NEW ty, NEW d \in BOOLEAN
      PROVE  Good("dev", "TX", f, a, USBC_Dev_Tx_ConfigEp(ty, d, a))
  <2> DEFINE whole == Update("TXCSR", All, {13, 6, 3})
             maxp == Update("TXMAXP", 0..12, Bits(a % 2^11))
             kind == IF ty = "ISO" THEN Update("TXCSR", {}, {14}) ELSE Update("TXCSR", {14}, {})
             p == IF d THEN <<whole, whole, maxp, kind>> ELSE <<whole, maxp, kind>>
  <2>1. D(f, a, "TXCSR", All, {13, 6, 3}) /\ D(f, a, "TXCSR", {}, {14}) /\ D(f, a, "TXCSR", {14}, {})
    BY <1>1, <1>2, <1>3, <1>7
  <2>2. D(f, a, "TXMAXP", 0..12, Bits(a % 2^11)) BY <1>4
  <2>3. USBC_Dev_Tx_ConfigEp(ty, d, a) = p
    <3>1. /\ Write("TXCSR", {13, 6, 3}) = whole /\ Update("TXMAXP", 0..12, MaxPkt(a)) = maxp
      BY AccessForms DEF MaxPkt
    <3>2. (IF ty = "ISO" THEN USBC_Dev_Tx_EnableIsoEp ELSE IF ty = "INT" THEN USBC_Dev_Tx_EnableIntEp
           ELSE USBC_Dev_Tx_EnableBulkEp) = <<kind>>
      BY AccessForms DEF USBC_Dev_Tx_EnableIsoEp, USBC_Dev_Tx_EnableIntEp, USBC_Dev_Tx_EnableBulkEp, TXCSR_D
    <3>3. USBC_Dev_Tx_ConfigEp(ty, d, a)
            = <<whole>> \o (IF d THEN <<whole>> ELSE <<>>) \o <<maxp>> \o <<kind>>
      BY <3>1, <3>2 DEF USBC_Dev_Tx_ConfigEp, TXCSR_D
    <3>4. kind \in Allowed("dev", "TX", f, a) BY <2>1
    <3> HIDE DEF whole, maxp, kind
    <3>5. whole \in Allowed("dev", "TX", f, a) /\ maxp \in Allowed("dev", "TX", f, a) BY <2>1, <2>2 DEF whole, maxp
    <3>6. CASE d
      <4>1. <<whole>> \o <<whole>> = <<whole, whole>> BY <3>5, Joined11
      <4>2. <<whole, whole>> \o <<maxp>> = <<whole, whole, maxp>> BY <3>5, Joined21
      <4>3. <<whole, whole, maxp>> \o <<kind>> = <<whole, whole, maxp, kind>> BY <3>4, <3>5, Joined31
      <4> QED BY <3>3, <3>6, <4>1, <4>2, <4>3
    <3>7. CASE ~d
      <4>1. <<whole>> \o <<>> = <<whole>> BY <3>5, SeqFacts, ConcatEmptySeq
      <4>2. <<whole>> \o <<maxp>> = <<whole, maxp>> BY <3>5, Joined11
      <4>3. <<whole, maxp>> \o <<kind>> = <<whole, maxp, kind>> BY <3>4, <3>5, Joined21
      <4> QED BY <3>3, <3>7, <4>1, <4>2, <4>3
    <3> QED BY <3>6, <3>7
  <2>4. p \in Seq(Allowed("dev", "TX", f, a)) BY <2>1, <2>2, SeqFacts
  <2>5. /\ 1 \in 1..Len(p) /\ p[1].reg = "TXCSR" /\ 4 \in p[1].clr \ p[1].set
        /\ \E k \in 1..Len(p) : p[k].reg = "TXMAXP"
    <3>1. CASE d
      <4>1. Len(p) = 4 /\ p[1] = whole /\ p[3] = maxp BY <3>1
      <4> HIDE DEF p
      <4> QED BY <4>1, AccessForms DEF All
    <3>2. CASE ~d
      <4>1. Len(p) = 3 /\ p[1] = whole /\ p[2] = maxp BY <3>2
      <4> HIDE DEF p
      <4> QED BY <4>1, AccessForms DEF All
    <3> QED BY <3>1, <3>2
  <2> HIDE DEF p
  <2>6. Does("dev", "TX", f, p) BY <1>2, <1>7, <2>5 DEF Does
  <2> QED BY <2>3, <2>4, <2>6 DEF Good
<1> QED BY <1>8, <1>9, <1>10, <1>11, <1>12, <1>13, <1>14, <1>15, <1>16

(* What the functions of the device side do at an OUT endpoint.  *)
LEMMA DevRx ==
  LET ok(f, prog) == Good("dev", "RX", f, 0, prog)
  IN  /\ \A f \in Configurers : \A n, ty : \A d \in BOOLEAN :
           Good("dev", "RX", f, n, USBC_Dev_Rx_ConfigEp(ty, d, n))
      /\ ok("ConfigEp_Default", USBC_Dev_Rx_ConfigEp_Default)
      /\ ok("FlushFifo", USBC_Dev_Rx_FlushFifo)
      /\ ok("ConfigEpDma", USBC_Dev_Rx_ConfigEpDma \o USBC_Dev_ConfigDma_Trans)
      /\ ok("ClearEpDma", USBC_Dev_Rx_ClearEpDma \o USBC_Dev_ClearDma_Trans)
      /\ ok("EpSendStall", USBC_Dev_Rx_SendStall)
      /\ ok("EpClearStall", USBC_Dev_Rx_ClearStall)
      /\ ok("ReadDataStatus", USBC_Dev_Rx_ReadDataHalf)
      /\ ok("ReadDataStatus", USBC_Dev_Rx_ReadDataComplete)
<1> DEFINE D(f, a, r, clr, set) == Update(r, clr, set) \in Allowed("dev", "RX", f, a)
<1>1. /\ All \in SUBSET All /\ {} \in SUBSET All /\ {7, 4} \in SUBSET All /\ {15, 13} \in SUBSET All /\ {11} \in SUBSET All /\ {15, 11, 13} \in SUBSET All /\ {0, 2, 3} \in SUBSET All /\ {14} \in SUBSET All /\ {5} \in SUBSET All /\ 0..12 \in SUBSET All /\ {0} \in SUBSET All /\ {6} \in SUBSET All
      /\ \A n : Bits(n) \in SUBSET All
  BY BitsType DEF All
<1>2. CommandBit("dev", "RX") = 5 /\ 5 # NoBit /\ CsrName("RX") = "RXCSR" /\ MaxpName("RX") = "RXMAXP"
  BY DEF CommandBit, NoBit, CsrName, MaxpName
<1>0. \A f, clr, set : 4 \notin set /\ 0 \notin clr \ set => LeavesReady("dev", "RX", clr, set)
  BY DEF LeavesReady
<1>3. ASSUME NEW f, NEW a, NEW clr \in SUBSET All, NEW set \in SUBSET All,
             f \notin Droppers \cup {"bulk_ep_reset"} => 4 \notin set /\ 0 \notin clr \ set,
             f \notin Starters => 5 \notin set, f \notin Stoppers => 5 \notin clr \ set
      PROVE  D(f, a, "RXCSR", clr, set)
  <2>1. Fits("dev", "RX", f, a, "RXCSR", clr, set) BY <1>0, <1>2, <1>3 DEF Fits
  <2> QED BY <2>1, AllowedFacts, RegNames
<1>4. \A f \in Configurers : \A n : D(f, n, "RXMAXP", 0..12, Bits(n % 2^11))
  BY <1>1, <1>2, AllowedFacts, RegNames DEF Fits
<1>5. D("ConfigEp_Default", 0, "RXMAXP", All, {}) BY <1>1, <1>2, AllowedFacts, RegNames DEF Fits
<1>6. D("ConfigEpDma", 0, "VEND0", {}, {0}) /\ D("ClearEpDma", 0, "VEND0", {0}, {})
  BY <1>1, AllowedFacts, RegNames DEF Fits
<1>7. /\ Droppers = {"ConfigEp", "ConfigEp_Default", "FlushFifo", "ReadDataStatus", "ClearEpCSR"}
      /\ Starters = {"EpSendStall", "StartInToken"} /\ Configurers = {"ConfigEp", "bulk_ep_reset"}
      /\ Stoppers = {"ConfigEp", "ConfigEp_Default", "FlushFifo", "ClearEpCSR", "EpClearStall",
                      "StopInToken", "bulk_ep_reset"}
  BY DEF Droppers, Starters, Configurers, Stoppers, Enders
<1>8. Good("dev", "RX", "ConfigEp_Default", 0, USBC_Dev_Rx_ConfigEp_Default)
  <2>1. D("ConfigEp_Default", 0, "RXCSR", All, {}) BY <1>1, <1>3, <1>7, SMTT(30)
  <2>2. D("ConfigEp_Default", 0, "RXMAXP", All, {}) BY <1>5
  <2> DEFINE p == <<Update("RXCSR", All, {}), Update("RXMAXP", All, {})>>
  <2>3. USBC_Dev_Rx_ConfigEp_Default = p BY AccessForms DEF USBC_Dev_Rx_ConfigEp_Default
  <2>4. p \in Seq(Allowed("dev", "RX", "ConfigEp_Default", 0)) BY <2>1, <2>2, SeqFacts
  <2>5. Len(p) = 2 /\ p[1] = Update("RXCSR", All, {}) /\ p[2] = Update("RXMAXP", All, {}) OBVIOUS
  <2> HIDE DEF p
  <2>6. Does("dev", "RX", "ConfigEp_Default", p) BY <1>2, <1>7, <2>5, AccessForms DEF Does, All
  <2> QED BY <2>3, <2>4, <2>6 DEF Good
<1>9. Good("dev", "RX", "FlushFifo", 0, USBC_Dev_Rx_FlushFifo)
  <2>1. D("FlushFifo", 0, "RXCSR", All, {7, 4}) BY <1>1, <1>3, <1>7, SMTT(30)
  <2> DEFINE p == <<Update("RXCSR", All, {7, 4})>>
  <2>2. USBC_Dev_Rx_FlushFifo = p BY AccessForms DEF USBC_Dev_Rx_FlushFifo, RXCSR_D
  <2>3. p \in Seq(Allowed("dev", "RX", "FlushFifo", 0)) BY <2>1, SeqFacts
  <2>4. Len(p) = 1 /\ p[1] = Update("RXCSR", All, {7, 4}) OBVIOUS
  <2> HIDE DEF p
  <2>5. Does("dev", "RX", "FlushFifo", p) BY <1>2, <1>7, <2>4, AccessForms DEF Does, All
  <2> QED BY <2>2, <2>3, <2>5 DEF Good
<1>10. Good("dev", "RX", "ConfigEpDma", 0, USBC_Dev_Rx_ConfigEpDma \o USBC_Dev_ConfigDma_Trans)
  <2>1. D("ConfigEpDma", 0, "RXCSR", {11}, {15, 13}) BY <1>1, <1>3, <1>7, SMTT(30)
  <2>2. D("ConfigEpDma", 0, "VEND0", {}, {0}) BY <1>6
  <2> DEFINE p == <<Update("RXCSR", {11}, {15, 13}), Update("VEND0", {}, {0})>>
  <2>3. USBC_Dev_Rx_ConfigEpDma = <<Update("RXCSR", {11}, {15, 13})>> BY AccessForms DEF USBC_Dev_Rx_ConfigEpDma, RXCSR_D
  <2>4. USBC_Dev_ConfigDma_Trans = <<Update("VEND0", {}, {0})>> BY AccessForms DEF USBC_Dev_ConfigDma_Trans, VEND0
  <2>5. USBC_Dev_Rx_ConfigEpDma \o USBC_Dev_ConfigDma_Trans = p BY <2>1, <2>2, <2>3, <2>4, Joined11
  <2>6. p \in Seq(Allowed("dev", "RX", "ConfigEpDma", 0)) BY <2>1, <2>2, SeqFacts
  <2>7. Len(p) = 2 /\ p[1] = Update("RXCSR", {11}, {15, 13}) /\ p[2] = Update("VEND0", {}, {0}) OBVIOUS
  <2> HIDE DEF p
  <2>8. Does("dev", "RX", "ConfigEpDma", p) BY <1>2, <1>7, <2>7, AccessForms DEF Does, All
  <2> QED BY <2>5, <2>6, <2>8 DEF Good
<1>11. Good("dev", "RX", "ClearEpDma", 0, USBC_Dev_Rx_ClearEpDma \o USBC_Dev_ClearDma_Trans)
  <2>1. D("ClearEpDma", 0, "RXCSR", {15, 11, 13}, {}) BY <1>1, <1>3, <1>7, SMTT(30)
  <2>2. D("ClearEpDma", 0, "VEND0", {0}, {}) BY <1>6
  <2> DEFINE p == <<Update("RXCSR", {15, 11, 13}, {}), Update("VEND0", {0}, {})>>
  <2>3. USBC_Dev_Rx_ClearEpDma = <<Update("RXCSR", {15, 11, 13}, {})>> BY AccessForms DEF USBC_Dev_Rx_ClearEpDma, RXCSR_D
  <2>4. USBC_Dev_ClearDma_Trans = <<Update("VEND0", {0}, {})>> BY AccessForms DEF USBC_Dev_ClearDma_Trans, VEND0
  <2>5. USBC_Dev_Rx_ClearEpDma \o USBC_Dev_ClearDma_Trans = p BY <2>1, <2>2, <2>3, <2>4, Joined11
  <2>6. p \in Seq(Allowed("dev", "RX", "ClearEpDma", 0)) BY <2>1, <2>2, SeqFacts
  <2>7. Len(p) = 2 /\ p[1] = Update("RXCSR", {15, 11, 13}, {}) /\ p[2] = Update("VEND0", {0}, {}) OBVIOUS
  <2> HIDE DEF p
  <2>8. Does("dev", "RX", "ClearEpDma", p) BY <1>2, <1>7, <2>7, AccessForms DEF Does, All
  <2> QED BY <2>5, <2>6, <2>8 DEF Good
<1>12. Good("dev", "RX", "EpSendStall", 0, USBC_Dev_Rx_SendStall)
  <2>1. D("EpSendStall", 0, "RXCSR", {}, {5}) BY <1>1, <1>3, <1>7, SMTT(30)
  <2> DEFINE p == <<Update("RXCSR", {}, {5})>>
  <2>2. USBC_Dev_Rx_SendStall = p BY AccessForms DEF USBC_Dev_Rx_SendStall, RXCSR_D
  <2>3. p \in Seq(Allowed("dev", "RX", "EpSendStall", 0)) BY <2>1, SeqFacts
  <2>4. Len(p) = 1 /\ p[1] = Update("RXCSR", {}, {5}) OBVIOUS
  <2> HIDE DEF p
  <2>5. Does("dev", "RX", "EpSendStall", p) BY <1>2, <1>7, <2>4, AccessForms DEF Does, All
  <2> QED BY <2>2, <2>3, <2>5 DEF Good
<1>13. Good("dev", "RX", "EpClearStall", 0, USBC_Dev_Rx_ClearStall)
  <2>1. D("EpClearStall", 0, "RXCSR", {5}, {}) BY <1>1, <1>3, <1>7, SMTT(30)
  <2>2. D("EpClearStall", 0, "RXCSR", {6}, {}) BY <1>1, <1>3, <1>7, SMTT(30)
  <2> DEFINE p == <<Update("RXCSR", {5}, {}), Update("RXCSR", {6}, {})>>
  <2>3. USBC_Dev_Rx_ClearStall = p BY AccessForms DEF USBC_Dev_Rx_ClearStall, RXCSR_D
  <2>4. p \in Seq(Allowed("dev", "RX", "EpClearStall", 0)) BY <2>1, <2>2, SeqFacts
  <2>5. Len(p) = 2 /\ p[1] = Update("RXCSR", {5}, {}) /\ p[2] = Update("RXCSR", {6}, {}) OBVIOUS
  <2> HIDE DEF p
  <2>6. Does("dev", "RX", "EpClearStall", p) BY <1>2, <1>7, <2>5, AccessForms DEF Does, All
  <2> QED BY <2>3, <2>4, <2>6 DEF Good
<1>14. Good("dev", "RX", "ReadDataStatus", 0, USBC_Dev_Rx_ReadDataHalf)
  <2>1. D("ReadDataStatus", 0, "RXCSR", {0, 2, 3}, {}) BY <1>1, <1>3, <1>7, SMTT(30)
  <2> DEFINE p == <<Update("RXCSR", {0, 2, 3}, {})>>
  <2>2. USBC_Dev_Rx_ReadDataHalf = p BY AccessForms DEF USBC_Dev_Rx_ReadDataHalf, RXCSR_D
  <2>3. p \in Seq(Allowed("dev", "RX", "ReadDataStatus", 0)) BY <2>1, SeqFacts
  <2>4. Len(p) = 1 /\ p[1] = Update("RXCSR", {0, 2, 3}, {}) OBVIOUS
  <2> HIDE DEF p
  <2>5. Does("dev", "RX", "ReadDataStatus", p) BY <1>2, <1>7, <2>4, AccessForms DEF Does, All
  <2> QED BY <2>2, <2>3, <2>5 DEF Good
<1>15. Good("dev", "RX", "ReadDataStatus", 0, USBC_Dev_Rx_ReadDataComplete)
  <2>1. D("ReadDataStatus", 0, "RXCSR", {0, 2, 3}, {}) BY <1>1, <1>3, <1>7, SMTT(30)
  <2> DEFINE p == <<Update("RXCSR", {0, 2, 3}, {})>>
  <2>2. USBC_Dev_Rx_ReadDataComplete = p BY AccessForms DEF USBC_Dev_Rx_ReadDataComplete, RXCSR_D
  <2>3. p \in Seq(Allowed("dev", "RX", "ReadDataStatus", 0)) BY <2>1, SeqFacts
  <2>4. Len(p) = 1 /\ p[1] = Update("RXCSR", {0, 2, 3}, {}) OBVIOUS
  <2> HIDE DEF p
  <2>5. Does("dev", "RX", "ReadDataStatus", p) BY <1>2, <1>7, <2>4, AccessForms DEF Does, All
  <2> QED BY <2>2, <2>3, <2>5 DEF Good
<1>16. ASSUME NEW f \in Configurers, NEW a, NEW ty, NEW d \in BOOLEAN
      PROVE  Good("dev", "RX", f, a, USBC_Dev_Rx_ConfigEp(ty, d, a))
  <2> DEFINE whole == Update("RXCSR", All, {7, 4})
             maxp == Update("RXMAXP", 0..12, Bits(a % 2^11))
             kind == IF ty = "ISO" THEN Update("RXCSR", {}, {14}) ELSE Update("RXCSR", {14}, {})
             p == IF d THEN <<whole, whole, maxp, kind>> ELSE <<whole, maxp, kind>>
  <2>1. D(f, a, "RXCSR", All, {7, 4}) /\ D(f, a, "RXCSR", {}, {14}) /\ D(f, a, "RXCSR", {14}, {})
    BY <1>1, <1>2, <1>3, <1>7
  <2>2. D(f, a, "RXMAXP", 0..12, Bits(a % 2^11)) BY <1>4
  <2>3. USBC_Dev_Rx_ConfigEp(ty, d, a) = p
    <3>1. /\ Write("RXCSR", {7, 4}) = whole /\ Update("RXMAXP", 0..12, MaxPkt(a)) = maxp
      BY AccessForms DEF MaxPkt
    <3>2. (IF ty = "ISO" THEN USBC_Dev_Rx_EnableIsoEp ELSE IF ty = "INT" THEN USBC_Dev_Rx_EnableIntEp
           ELSE USBC_Dev_Rx_EnableBulkEp) = <<kind>>
      BY AccessForms DEF USBC_Dev_Rx_EnableIsoEp, USBC_Dev_Rx_EnableIntEp, USBC_Dev_Rx_EnableBulkEp, RXCSR_D
    <3>3. USBC_Dev_Rx_ConfigEp(ty, d, a)
            = <<whole>> \o (IF d THEN <<whole>> ELSE <<>>) \o <<maxp>> \o <<kind>>
      BY <3>1, <3>2 DEF USBC_Dev_Rx_ConfigEp, RXCSR_D
    <3>4. kind \in Allowed("dev", "RX", f, a) BY <2>1
    <3> HIDE DEF whole, maxp, kind
    <3>5. whole \in Allowed("dev", "RX", f, a) /\ maxp \in Allowed("dev", "RX", f, a) BY <2>1, <2>2 DEF whole, maxp
    <3>6. CASE d
      <4>1. <<whole>> \o <<whole>> = <<whole, whole>> BY <3>5, Joined11
      <4>2. <<whole, whole>> \o <<maxp>> = <<whole, whole, maxp>> BY <3>5, Joined21
      <4>3. <<whole, whole, maxp>> \o <<kind>> = <<whole, whole, maxp, kind>> BY <3>4, <3>5, Joined31
      <4> QED BY <3>3, <3>6, <4>1, <4>2, <4>3
    <3>7. CASE ~d
      <4>1. <<whole>> \o <<>> = <<whole>> BY <3>5, SeqFacts, ConcatEmptySeq
      <4>2. <<whole>> \o <<maxp>> = <<whole, maxp>> BY <3>5, Joined11
      <4>3. <<whole, maxp>> \o <<kind>> = <<whole, maxp, kind>> BY <3>4, <3>5, Joined21
      <4> QED BY <3>3, <3>7, <4>1, <4>2, <4>3
    <3> QED BY <3>6, <3>7
  <2>4. p \in Seq(Allowed("dev", "RX", f, a)) BY <2>1, <2>2, SeqFacts
  <2>5. /\ 1 \in 1..Len(p) /\ p[1].reg = "RXCSR" /\ 5 \in p[1].clr \ p[1].set
        /\ \E k \in 1..Len(p) : p[k].reg = "RXMAXP"
    <3>1. CASE d
      <4>1. Len(p) = 4 /\ p[1] = whole /\ p[3] = maxp BY <3>1
      <4> HIDE DEF p
      <4> QED BY <4>1, AccessForms DEF All
    <3>2. CASE ~d
      <4>1. Len(p) = 3 /\ p[1] = whole /\ p[2] = maxp BY <3>2
      <4> HIDE DEF p
      <4> QED BY <4>1, AccessForms DEF All
    <3> QED BY <3>1, <3>2
  <2> HIDE DEF p
  <2>6. Does("dev", "RX", f, p) BY <1>2, <1>7, <2>5 DEF Does
  <2> QED BY <2>3, <2>4, <2>6 DEF Good
<1> QED BY <1>8, <1>9, <1>10, <1>11, <1>12, <1>13, <1>14, <1>15, <1>16

-----------------------------------------------------------------------------
(* The same for the host side.                                             *)

(* NoBit is not a bit.                                                     *)
LEMMA NoBitFacts == \A b \in SUBSET All : NoBit \notin b
BY DEF NoBit, All

(* What the functions of the host side do at endpoint 0.                   *)
LEMMA HostEp0 ==
  LET ok(f, prog) == Good("host", "EP0", f, 0, prog)
  IN  /\ \A n, m, i : Good("host", "EP0", "ConfigEp", n, USBC_Host_ep0_ConfigEp(m, i))
      /\ ok("ConfigEp_Default", USBC_Host_ep0_ConfigEp_Default)
      /\ ok("FlushFifo", USBC_Host_ep0_FlushFifo)
      /\ ok("ClearEpNakTimeOut", USBC_Host_ep0_ClearNakTimeOut)
      /\ ok("ClearEpError", USBC_Host_ep0_ClearError)
      /\ ok("ClearEpStall", USBC_Host_ep0_ClearStall)
      /\ ok("ClearEpCSR", USBC_Host_ep0_ClearCSR)
      /\ ok("StartInToken", USBC_Host_ep0_StartInToken)
      /\ ok("StopInToken", USBC_Host_ep0_StopInToken)
      /\ ok("WriteDataStatus", USBC_Host_ep0_WriteDataHalf)
      /\ ok("WriteDataStatus", USBC_Host_ep0_WriteDataComplete)
      /\ ok("ReadDataStatus", USBC_Host_ep0_ReadDataHalf)
      /\ ok("ReadDataStatus", USBC_Host_ep0_ReadDataComplete)
      /\ ok("Ping", USBC_Host_ep0_EnablePing)
      /\ ok("NoPing", USBC_Host_ep0_DisablePing)
      /\ ok("SendSetupPkt", USBC_Host_ep0_SendSetupPkt)
      /\ ok("StatusAfterIn", USBC_Host_ep0_StatusAfterIn)
      /\ ok("StartInToken", USBC_Host_ep0_StatusAfterOut)
<1> DEFINE D(f, a, r, clr, set) == Update(r, clr, set) \in Allowed("host", "EP0", f, a)
<1>1. /\ All \in SUBSET All /\ {} \in SUBSET All /\ {7, 4} \in SUBSET All /\ {8} \in SUBSET All /\ {7} \in SUBSET All /\ {4} \in SUBSET All /\ {2} \in SUBSET All /\ {5} \in SUBSET All /\ {1} \in SUBSET All /\ {0} \in SUBSET All /\ {11} \in SUBSET All /\ {3, 1} \in SUBSET All /\ {1, 6} \in SUBSET All /\ {5, 6} \in SUBSET All
      /\ \A n : Bits(n) \in SUBSET All
      /\ \A m : Speed(m) \in SUBSET All
      /\ \A y : Protocol(y) \in SUBSET All
  BY BitsType DEF All, Speed, Protocol
<1>2. CommandBit("host", "EP0") = 5 /\ 5 # NoBit /\ CsrName("EP0") = "TXCSR" /\ MaxpName("EP0") = "TXMAXP"
  BY DEF CommandBit, NoBit, CsrName, MaxpName
<1>0. \A f, clr, set : (8 \notin set /\ 0 \notin clr \ set) => LeavesReady("host", "EP0", clr, set)
  BY DEF LeavesReady
<1>3. ASSUME NEW f, NEW a, NEW clr \in SUBSET All, NEW set \in SUBSET All,
             f \notin Droppers \cup {"bulk_ep_reset"} => (8 \notin set /\ 0 \notin clr \ set),
             f \notin Starters => 5 \notin set, f \notin Stoppers => 5 \notin clr \ set
      PROVE  D(f, a, "TXCSR", clr, set)
  <2>1. Fits("host", "EP0", f, a, "TXCSR", clr, set) BY <1>0, <1>2, <1>3 DEF Fits
  <2> QED BY <2>1, AllowedFacts, RegNames
<1>4. \A f, a : \A set \in SUBSET All : D(f, a, "TXTYPE", All, set) /\ D(f, a, "TXINTERVAL", All, set)
  <2> TAKE f, a
  <2> TAKE set \in SUBSET All
  <2>1. Fits("host", "EP0", f, a, "TXTYPE", All, set) /\ Fits("host", "EP0", f, a, "TXINTERVAL", All, set)
    BY DEF Fits, Others
  <2> QED BY <1>1, <2>1, AllowedFacts, RegNames
<1>7. /\ Droppers = {"ConfigEp", "ConfigEp_Default", "FlushFifo", "ReadDataStatus", "ClearEpCSR"}
      /\ Starters = {"EpSendStall", "StartInToken"} /\ Configurers = {"ConfigEp", "bulk_ep_reset"}
      /\ Stoppers = {"ConfigEp", "ConfigEp_Default", "FlushFifo", "ClearEpCSR", "EpClearStall",
                      "StopInToken", "bulk_ep_reset"}
  BY DEF Droppers, Starters, Configurers, Stoppers, Enders
<1>8. Good("host", "EP0", "ConfigEp_Default", 0, USBC_Host_ep0_ConfigEp_Default)
  <2>1. D("ConfigEp_Default", 0, "TXCSR", All, {8}) BY <1>1, <1>3, <1>7, SMTT(30)
  <2>2. D("ConfigEp_Default", 0, "TXINTERVAL", All, {}) BY <1>1, <1>4
  <2>3. D("ConfigEp_Default", 0, "TXTYPE", All, {}) BY <1>1, <1>4
  <2> DEFINE p == <<Update("TXCSR", All, {8}), Update("TXINTERVAL", All, {}), Update("TXTYPE", All, {})>>
  <2>4. USBC_Host_ep0_ConfigEp_Default = p BY AccessForms DEF CSR0, EP0TYPE, NAKLIMIT0, USBC_Host_ep0_ConfigEp_Default, CSR0_H
  <2>5. p \in Seq(Allowed("host", "EP0", "ConfigEp_Default", 0)) BY <2>1, <2>2, <2>3, SeqFacts
  <2>6. Len(p) = 3 /\ p[1] = Update("TXCSR", All, {8}) /\ p[2] = Update("TXINTERVAL", All, {}) /\ p[3] = Update("TXTYPE", All, {}) OBVIOUS
  <2> HIDE DEF p
  <2>7. Does("host", "EP0", "ConfigEp_Default", p) BY <1>2, <1>7, <2>6, AccessForms DEF Does, All
  <2> QED BY <2>4, <2>5, <2>7 DEF Good
<1>9. Good("host", "EP0", "FlushFifo", 0, USBC_Host_ep0_FlushFifo)
  <2>1. D("FlushFifo", 0, "TXCSR", All, {8}) BY <1>1, <1>3, <1>7, SMTT(30)
  <2> DEFINE p == <<Update("TXCSR", All, {8})>>
  <2>2. USBC_Host_ep0_FlushFifo = p BY AccessForms DEF CSR0, EP0TYPE, NAKLIMIT0, USBC_Host_ep0_FlushFifo, CSR0_H
  <2>3. p \in Seq(Allowed("host", "EP0", "FlushFifo", 0)) BY <2>1, SeqFacts
  <2>4. Len(p) = 1 /\ p[1] = Update("TXCSR", All, {8}) OBVIOUS
  <2> HIDE DEF p
  <2>5. Does("host", "EP0", "FlushFifo", p) BY <1>2, <1>7, <2>4, AccessForms DEF Does, All
  <2> QED BY <2>2, <2>3, <2>5 DEF Good
<1>10. Good("host", "EP0", "ClearEpNakTimeOut", 0, USBC_Host_ep0_ClearNakTimeOut)
  <2>1. D("ClearEpNakTimeOut", 0, "TXCSR", {7}, {}) BY <1>1, <1>3, <1>7, SMTT(30)
  <2> DEFINE p == <<Update("TXCSR", {7}, {})>>
  <2>2. USBC_Host_ep0_ClearNakTimeOut = p BY AccessForms DEF CSR0, EP0TYPE, NAKLIMIT0, USBC_Host_ep0_ClearNakTimeOut, CSR0_H
  <2>3. p \in Seq(Allowed("host", "EP0", "ClearEpNakTimeOut", 0)) BY <2>1, SeqFacts
  <2>4. Len(p) = 1 /\ p[1] = Update("TXCSR", {7}, {}) OBVIOUS
  <2> HIDE DEF p
  <2>5. Does("host", "EP0", "ClearEpNakTimeOut", p) BY <1>2, <1>7, <2>4, AccessForms DEF Does, All
  <2> QED BY <2>2, <2>3, <2>5 DEF Good
<1>11. Good("host", "EP0", "ClearEpError", 0, USBC_Host_ep0_ClearError)
  <2>1. D("ClearEpError", 0, "TXCSR", {4}, {}) BY <1>1, <1>3, <1>7, SMTT(30)
  <2> DEFINE p == <<Update("TXCSR", {4}, {})>>
  <2>2. USBC_Host_ep0_ClearError = p BY AccessForms DEF CSR0, EP0TYPE, NAKLIMIT0, USBC_Host_ep0_ClearError, CSR0_H
  <2>3. p \in Seq(Allowed("host", "EP0", "ClearEpError", 0)) BY <2>1, SeqFacts
  <2>4. Len(p) = 1 /\ p[1] = Update("TXCSR", {4}, {}) OBVIOUS
  <2> HIDE DEF p
  <2>5. Does("host", "EP0", "ClearEpError", p) BY <1>2, <1>7, <2>4, AccessForms DEF Does, All
  <2> QED BY <2>2, <2>3, <2>5 DEF Good
<1>12. Good("host", "EP0", "ClearEpStall", 0, USBC_Host_ep0_ClearStall)
  <2>1. D("ClearEpStall", 0, "TXCSR", {2}, {})
    <3>1. 5 \notin {2} /\ 5 \notin {} /\ {2} \in SUBSET All /\ {} \in SUBSET All BY DEF All
    <3>2. "ClearEpStall" \notin Starters /\ ("ClearEpStall" \notin Droppers \cup {"bulk_ep_reset"} => 8 \notin {} /\ 0 \notin {2}) BY <1>7
    <3> QED BY <1>3, <3>1, <3>2
  <2> DEFINE p == <<Update("TXCSR", {2}, {})>>
  <2>2. USBC_Host_ep0_ClearStall = p BY AccessForms DEF CSR0, EP0TYPE, NAKLIMIT0, USBC_Host_ep0_ClearStall, CSR0_H
  <2>3. p \in Seq(Allowed("host", "EP0", "ClearEpStall", 0)) BY <2>1, SeqFacts
  <2>4. Len(p) = 1 /\ p[1] = Update("TXCSR", {2}, {}) OBVIOUS
  <2> HIDE DEF p
  <2>5. Does("host", "EP0", "ClearEpStall", p) BY <1>2, <1>7, <2>4, AccessForms DEF Does, All
  <2> QED BY <2>2, <2>3, <2>5 DEF Good
<1>13. Good("host", "EP0", "ClearEpCSR", 0, USBC_Host_ep0_ClearCSR)
  <2>1. D("ClearEpCSR", 0, "TXCSR", All, {}) BY <1>1, <1>3, <1>7, SMTT(30)
  <2> DEFINE p == <<Update("TXCSR", All, {})>>
  <2>2. USBC_Host_ep0_ClearCSR = p BY AccessForms DEF CSR0, EP0TYPE, NAKLIMIT0, USBC_Host_ep0_ClearCSR, CSR0_H
  <2>3. p \in Seq(Allowed("host", "EP0", "ClearEpCSR", 0)) BY <2>1, SeqFacts
  <2>4. Len(p) = 1 /\ p[1] = Update("TXCSR", All, {}) OBVIOUS
  <2> HIDE DEF p
  <2>5. Does("host", "EP0", "ClearEpCSR", p) BY <1>2, <1>7, <2>4, AccessForms DEF Does, All
  <2> QED BY <2>2, <2>3, <2>5 DEF Good
<1>14. Good("host", "EP0", "StartInToken", 0, USBC_Host_ep0_StartInToken)
  <2>1. D("StartInToken", 0, "TXCSR", {}, {5}) BY <1>1, <1>3, <1>7, SMTT(30)
  <2> DEFINE p == <<Update("TXCSR", {}, {5})>>
  <2>2. USBC_Host_ep0_StartInToken = p BY AccessForms DEF CSR0, EP0TYPE, NAKLIMIT0, USBC_Host_ep0_StartInToken, CSR0_H
  <2>3. p \in Seq(Allowed("host", "EP0", "StartInToken", 0)) BY <2>1, SeqFacts
  <2>4. Len(p) = 1 /\ p[1] = Update("TXCSR", {}, {5}) OBVIOUS
  <2> HIDE DEF p
  <2>5. Does("host", "EP0", "StartInToken", p) BY <1>2, <1>7, <2>4, AccessForms DEF Does, All
  <2> QED BY <2>2, <2>3, <2>5 DEF Good
<1>15. Good("host", "EP0", "StopInToken", 0, USBC_Host_ep0_StopInToken)
  <2>1. D("StopInToken", 0, "TXCSR", {5}, {}) BY <1>1, <1>3, <1>7, SMTT(30)
  <2> DEFINE p == <<Update("TXCSR", {5}, {})>>
  <2>2. USBC_Host_ep0_StopInToken = p BY AccessForms DEF CSR0, EP0TYPE, NAKLIMIT0, USBC_Host_ep0_StopInToken, CSR0_H
  <2>3. p \in Seq(Allowed("host", "EP0", "StopInToken", 0)) BY <2>1, SeqFacts
  <2>4. Len(p) = 1 /\ p[1] = Update("TXCSR", {5}, {}) OBVIOUS
  <2> HIDE DEF p
  <2>5. Does("host", "EP0", "StopInToken", p) BY <1>2, <1>7, <2>4, AccessForms DEF Does, All
  <2> QED BY <2>2, <2>3, <2>5 DEF Good
<1>16. Good("host", "EP0", "WriteDataStatus", 0, USBC_Host_ep0_WriteDataHalf)
  <2>1. D("WriteDataStatus", 0, "TXCSR", {}, {1}) BY <1>1, <1>3, <1>7, SMTT(30)
  <2> DEFINE p == <<Update("TXCSR", {}, {1})>>
  <2>2. USBC_Host_ep0_WriteDataHalf = p BY AccessForms DEF CSR0, EP0TYPE, NAKLIMIT0, USBC_Host_ep0_WriteDataHalf, CSR0_H
  <2>3. p \in Seq(Allowed("host", "EP0", "WriteDataStatus", 0)) BY <2>1, SeqFacts
  <2>4. Len(p) = 1 /\ p[1] = Update("TXCSR", {}, {1}) OBVIOUS
  <2> HIDE DEF p
  <2>5. Does("host", "EP0", "WriteDataStatus", p) BY <1>2, <1>7, <2>4, AccessForms DEF Does, All
  <2> QED BY <2>2, <2>3, <2>5 DEF Good
<1>17. Good("host", "EP0", "WriteDataStatus", 0, USBC_Host_ep0_WriteDataComplete)
  <2>1. D("WriteDataStatus", 0, "TXCSR", {}, {1}) BY <1>1, <1>3, <1>7, SMTT(30)
  <2> DEFINE p == <<Update("TXCSR", {}, {1})>>
  <2>2. USBC_Host_ep0_WriteDataComplete = p BY AccessForms DEF CSR0, EP0TYPE, NAKLIMIT0, USBC_Host_ep0_WriteDataComplete, CSR0_H
  <2>3. p \in Seq(Allowed("host", "EP0", "WriteDataStatus", 0)) BY <2>1, SeqFacts
  <2>4. Len(p) = 1 /\ p[1] = Update("TXCSR", {}, {1}) OBVIOUS
  <2> HIDE DEF p
  <2>5. Does("host", "EP0", "WriteDataStatus", p) BY <1>2, <1>7, <2>4, AccessForms DEF Does, All
  <2> QED BY <2>2, <2>3, <2>5 DEF Good
<1>18. Good("host", "EP0", "ReadDataStatus", 0, USBC_Host_ep0_ReadDataHalf)
  <2>1. D("ReadDataStatus", 0, "TXCSR", {0}, {}) BY <1>1, <1>3, <1>7, SMTT(30)
  <2> DEFINE p == <<Update("TXCSR", {0}, {})>>
  <2>2. USBC_Host_ep0_ReadDataHalf = p BY AccessForms DEF CSR0, EP0TYPE, NAKLIMIT0, USBC_Host_ep0_ReadDataHalf, CSR0_H
  <2>3. p \in Seq(Allowed("host", "EP0", "ReadDataStatus", 0)) BY <2>1, SeqFacts
  <2>4. Len(p) = 1 /\ p[1] = Update("TXCSR", {0}, {}) OBVIOUS
  <2> HIDE DEF p
  <2>5. Does("host", "EP0", "ReadDataStatus", p) BY <1>2, <1>7, <2>4, AccessForms DEF Does, All
  <2> QED BY <2>2, <2>3, <2>5 DEF Good
<1>19. Good("host", "EP0", "ReadDataStatus", 0, USBC_Host_ep0_ReadDataComplete)
  <2>1. D("ReadDataStatus", 0, "TXCSR", {0}, {}) BY <1>1, <1>3, <1>7, SMTT(30)
  <2> DEFINE p == <<Update("TXCSR", {0}, {})>>
  <2>2. USBC_Host_ep0_ReadDataComplete = p BY AccessForms DEF CSR0, EP0TYPE, NAKLIMIT0, USBC_Host_ep0_ReadDataComplete, CSR0_H
  <2>3. p \in Seq(Allowed("host", "EP0", "ReadDataStatus", 0)) BY <2>1, SeqFacts
  <2>4. Len(p) = 1 /\ p[1] = Update("TXCSR", {0}, {}) OBVIOUS
  <2> HIDE DEF p
  <2>5. Does("host", "EP0", "ReadDataStatus", p) BY <1>2, <1>7, <2>4, AccessForms DEF Does, All
  <2> QED BY <2>2, <2>3, <2>5 DEF Good
<1>20. Good("host", "EP0", "Ping", 0, USBC_Host_ep0_EnablePing)
  <2>1. D("Ping", 0, "TXCSR", {11}, {}) BY <1>1, <1>3, <1>7, SMTT(30)
  <2> DEFINE p == <<Update("TXCSR", {11}, {})>>
  <2>2. USBC_Host_ep0_EnablePing = p BY AccessForms DEF CSR0, EP0TYPE, NAKLIMIT0, USBC_Host_ep0_EnablePing, CSR0_H
  <2>3. p \in Seq(Allowed("host", "EP0", "Ping", 0)) BY <2>1, SeqFacts
  <2>4. Len(p) = 1 /\ p[1] = Update("TXCSR", {11}, {}) OBVIOUS
  <2> HIDE DEF p
  <2>5. Does("host", "EP0", "Ping", p) BY <1>2, <1>7, <2>4, AccessForms DEF Does, All
  <2> QED BY <2>2, <2>3, <2>5 DEF Good
<1>21. Good("host", "EP0", "NoPing", 0, USBC_Host_ep0_DisablePing)
  <2>1. D("NoPing", 0, "TXCSR", {}, {11}) BY <1>1, <1>3, <1>7, SMTT(30)
  <2> DEFINE p == <<Update("TXCSR", {}, {11})>>
  <2>2. USBC_Host_ep0_DisablePing = p BY AccessForms DEF CSR0, EP0TYPE, NAKLIMIT0, USBC_Host_ep0_DisablePing, CSR0_H
  <2>3. p \in Seq(Allowed("host", "EP0", "NoPing", 0)) BY <2>1, SeqFacts
  <2>4. Len(p) = 1 /\ p[1] = Update("TXCSR", {}, {11}) OBVIOUS
  <2> HIDE DEF p
  <2>5. Does("host", "EP0", "NoPing", p) BY <1>2, <1>7, <2>4, AccessForms DEF Does, All
  <2> QED BY <2>2, <2>3, <2>5 DEF Good
<1>22. Good("host", "EP0", "SendSetupPkt", 0, USBC_Host_ep0_SendSetupPkt)
  <2>1. D("SendSetupPkt", 0, "TXCSR", {}, {3, 1}) BY <1>1, <1>3, <1>7, SMTT(30)
  <2> DEFINE p == <<Update("TXCSR", {}, {3, 1})>>
  <2>2. USBC_Host_ep0_SendSetupPkt = p BY AccessForms DEF CSR0, EP0TYPE, NAKLIMIT0, USBC_Host_ep0_SendSetupPkt, CSR0_H
  <2>3. p \in Seq(Allowed("host", "EP0", "SendSetupPkt", 0)) BY <2>1, SeqFacts
  <2>4. Len(p) = 1 /\ p[1] = Update("TXCSR", {}, {3, 1}) OBVIOUS
  <2> HIDE DEF p
  <2>5. Does("host", "EP0", "SendSetupPkt", p) BY <1>2, <1>7, <2>4, AccessForms DEF Does, All
  <2> QED BY <2>2, <2>3, <2>5 DEF Good
<1>23. Good("host", "EP0", "StatusAfterIn", 0, USBC_Host_ep0_StatusAfterIn)
  <2>1. D("StatusAfterIn", 0, "TXCSR", {}, {1, 6}) BY <1>1, <1>3, <1>7, SMTT(30)
  <2> DEFINE p == <<Update("TXCSR", {}, {1, 6})>>
  <2>2. USBC_Host_ep0_StatusAfterIn = p BY AccessForms DEF CSR0, EP0TYPE, NAKLIMIT0, USBC_Host_ep0_StatusAfterIn, CSR0_H
  <2>3. p \in Seq(Allowed("host", "EP0", "StatusAfterIn", 0)) BY <2>1, SeqFacts
  <2>4. Len(p) = 1 /\ p[1] = Update("TXCSR", {}, {1, 6}) OBVIOUS
  <2> HIDE DEF p
  <2>5. Does("host", "EP0", "StatusAfterIn", p) BY <1>2, <1>7, <2>4, AccessForms DEF Does, All
  <2> QED BY <2>2, <2>3, <2>5 DEF Good
<1>24. Good("host", "EP0", "StartInToken", 0, USBC_Host_ep0_StatusAfterOut)
  <2>1. D("StartInToken", 0, "TXCSR", {}, {5, 6}) BY <1>1, <1>3, <1>7, SMTT(30)
  <2> DEFINE p == <<Update("TXCSR", {}, {5, 6})>>
  <2>2. USBC_Host_ep0_StatusAfterOut = p BY AccessForms DEF CSR0, EP0TYPE, NAKLIMIT0, USBC_Host_ep0_StatusAfterOut, CSR0_H
  <2>3. p \in Seq(Allowed("host", "EP0", "StartInToken", 0)) BY <2>1, SeqFacts
  <2>4. Len(p) = 1 /\ p[1] = Update("TXCSR", {}, {5, 6}) OBVIOUS
  <2> HIDE DEF p
  <2>5. Does("host", "EP0", "StartInToken", p) BY <1>2, <1>7, <2>4, AccessForms DEF Does, All
  <2> QED BY <2>2, <2>3, <2>5 DEF Good
<1>25. ASSUME NEW a, NEW m, NEW i PROVE Good("host", "EP0", "ConfigEp", a, USBC_Host_ep0_ConfigEp(m, i))
  <2> DEFINE u == Update("TXCSR", All, {8})
             v == Update("TXINTERVAL", All, Bits(i))
             w == Update("TXTYPE", All, Speed(m))
             p == <<u, v, w>>
  <2>1. D("ConfigEp", a, "TXCSR", All, {8}) BY <1>1, <1>3, <1>7
  <2>2. D("ConfigEp", a, "TXINTERVAL", All, Bits(i)) /\ D("ConfigEp", a, "TXTYPE", All, Speed(m)) BY <1>1, <1>4
  <2>3. USBC_Host_ep0_ConfigEp(m, i) = <<u, v>> \o <<w>>
    BY AccessForms DEF USBC_Host_ep0_ConfigEp, USBC_Host_ep0_EpType, CSR0, NAKLIMIT0, EP0TYPE, CSR0_H
  <2>4. p \in Seq(Allowed("host", "EP0", "ConfigEp", a)) /\ <<u, v>> \o <<w>> = p BY <2>1, <2>2, SeqFacts, Joined21
  <2>5. Len(p) = 3 /\ p[1] = u OBVIOUS
  <2> HIDE DEF p
  <2>6. Does("host", "EP0", "ConfigEp", p) BY <1>2, <1>7, <2>5, AccessForms DEF Does, All
  <2> QED BY <2>3, <2>4, <2>6 DEF Good
<1> QED BY <1>8, <1>9, <1>10, <1>11, <1>12, <1>13, <1>14, <1>15, <1>16, <1>17, <1>18, <1>19, <1>20, <1>21, <1>22, <1>23, <1>24, <1>25

(* What the functions of the host side do at an OUT endpoint.              *)
LEMMA HostTx ==
  LET ok(f, prog) == Good("host", "TX", f, 0, prog)
  IN  /\ \A n, x, m, y, i : Good("host", "TX", "ConfigEp", n, USBC_Host_Tx_ConfigEp(x, m, y, DoubleFifo, n, i))
      /\ ok("ConfigEp_Default", USBC_Host_Tx_ConfigEp_Default)
      /\ ok("FlushFifo", USBC_Host_Tx_FlushFifo)
      /\ ok("ConfigEpDma", USBC_Host_Tx_ConfigEpDma)
      /\ ok("ClearEpDma", USBC_Host_Tx_ClearEpDma)
      /\ ok("ClearEpNakTimeOut", USBC_Host_Tx_ClearNakTimeOut)
      /\ ok("ClearEpError", USBC_Host_Tx_ClearError)
      /\ ok("ClearEpStall", USBC_Host_Tx_ClearStall)
      /\ ok("ClearEpCSR", USBC_Host_Tx_ClearCSR)
      /\ ok("WriteDataStatus", USBC_Host_Tx_WriteDataHalf)
      /\ ok("WriteDataStatus", USBC_Host_Tx_WriteDataComplete)
<1> DEFINE D(f, a, r, clr, set) == Update(r, clr, set) \in Allowed("host", "TX", f, a)
<1>1. /\ All \in SUBSET All /\ {} \in SUBSET All /\ {13, 6, 3} \in SUBSET All /\ {6, 3} \in SUBSET All /\ {15, 13, 12, 10} \in SUBSET All /\ {15, 12} \in SUBSET All /\ {10} \in SUBSET All /\ {7} \in SUBSET All /\ {2} \in SUBSET All /\ {5} \in SUBSET All /\ {0} \in SUBSET All
      /\ \A n : Bits(n) \in SUBSET All
      /\ \A m : Speed(m) \in SUBSET All
      /\ \A y : Protocol(y) \in SUBSET All
  BY BitsType DEF All, Speed, Protocol
<1>2. CommandBit("host", "TX") = NoBit /\ CsrName("TX") = "TXCSR" /\ MaxpName("TX") = "TXMAXP"
  BY DEF CommandBit, NoBit, CsrName, MaxpName
<1>0. \A f, clr, set : TRUE => LeavesReady("host", "TX", clr, set)
  BY DEF LeavesReady
<1>3. ASSUME NEW f, NEW a, NEW clr \in SUBSET All, NEW set \in SUBSET All,
             f \notin Droppers \cup {"bulk_ep_reset"} => TRUE
      PROVE  D(f, a, "TXCSR", clr, set)
  <2>1. Fits("host", "TX", f, a, "TXCSR", clr, set) BY NoBitFacts, <1>0, <1>2, <1>3 DEF Fits
  <2> QED BY <2>1, AllowedFacts, RegNames
<1>4. \A f, a : \A set \in SUBSET All : D(f, a, "TXTYPE", All, set) /\ D(f, a, "TXINTERVAL", All, set)
  <2> TAKE f, a
  <2> TAKE set \in SUBSET All
  <2>1. Fits("host", "TX", f, a, "TXTYPE", All, set) /\ Fits("host", "TX", f, a, "TXINTERVAL", All, set)
    BY DEF Fits, Others
  <2> QED BY <1>1, <2>1, AllowedFacts, RegNames
<1>7. /\ Droppers = {"ConfigEp", "ConfigEp_Default", "FlushFifo", "ReadDataStatus", "ClearEpCSR"}
      /\ Starters = {"EpSendStall", "StartInToken"} /\ Configurers = {"ConfigEp", "bulk_ep_reset"}
      /\ Stoppers = {"ConfigEp", "ConfigEp_Default", "FlushFifo", "ClearEpCSR", "EpClearStall",
                      "StopInToken", "bulk_ep_reset"}
  BY DEF Droppers, Starters, Configurers, Stoppers, Enders
<1>5. D("ConfigEp_Default", 0, "TXMAXP", All, {})
  <2>1. Fits("host", "TX", "ConfigEp_Default", 0, "TXMAXP", All, {}) BY <1>2 DEF Fits
  <2> QED BY <1>1, <2>1, AllowedFacts, RegNames
<1>6. \A n : D("ConfigEp", n, "TXMAXP", {}, Bits(n % 2^11))
  <2> TAKE n
  <2>1. Fits("host", "TX", "ConfigEp", n, "TXMAXP", {}, Bits(n % 2^11)) BY <1>2, <1>7 DEF Fits
  <2> QED BY <1>1, <2>1, AllowedFacts, RegNames
<1>8. Good("host", "TX", "ConfigEp_Default", 0, USBC_Host_Tx_ConfigEp_Default)
  <2>1. D("ConfigEp_Default", 0, "TXCSR", All, {6, 3}) BY <1>1, <1>3, <1>7, SMTT(30)
  <2>2. D("ConfigEp_Default", 0, "TXCSR", All, {}) BY <1>1, <1>3, <1>7, SMTT(30)
  <2>3. D("ConfigEp_Default", 0, "TXMAXP", All, {}) BY <1>5
  <2>4. D("ConfigEp_Default", 0, "TXTYPE", All, {}) BY <1>1, <1>4
  <2>5. D("ConfigEp_Default", 0, "TXINTERVAL", All, {}) BY <1>1, <1>4
  <2> DEFINE p == <<Update("TXCSR", All, {6, 3}), Update("TXCSR", All, {}), Update("TXMAXP", All, {}), Update("TXTYPE", All, {}), Update("TXINTERVAL", All, {})>>
  <2>6. USBC_Host_Tx_ConfigEp_Default = p BY AccessForms DEF USBC_Host_Tx_ConfigEp_Default, TXCSR_H, DoubleFifo
  <2>7. p \in Seq(Allowed("host", "TX", "ConfigEp_Default", 0)) BY <2>1, <2>2, <2>3, <2>4, <2>5, SeqFacts
  <2>8. Len(p) = 5 /\ p[1] = Update("TXCSR", All, {6, 3}) /\ p[2] = Update("TXCSR", All, {}) /\ p[3] = Update("TXMAXP", All, {}) /\ p[4] = Update("TXTYPE", All, {}) /\ p[5] = Update("TXINTERVAL", All, {}) OBVIOUS
  <2> HIDE DEF p
  <2>9. Does("host", "TX", "ConfigEp_Default", p) BY <1>2, <1>7, <2>8, AccessForms DEF Does, All
  <2> QED BY <2>6, <2>7, <2>9 DEF Good
<1>9. Good("host", "TX", "FlushFifo", 0, USBC_Host_Tx_FlushFifo)
  <2>1. D("FlushFifo", 0, "TXCSR", All, {6, 3}) BY <1>1, <1>3, <1>7, SMTT(30)
  <2> DEFINE p == <<Update("TXCSR", All, {6, 3})>>
  <2>2. USBC_Host_Tx_FlushFifo = p BY AccessForms DEF USBC_Host_Tx_FlushFifo, TXCSR_H, DoubleFifo
  <2>3. p \in Seq(Allowed("host", "TX", "FlushFifo", 0)) BY <2>1, SeqFacts
  <2>4. Len(p) = 1 /\ p[1] = Update("TXCSR", All, {6, 3}) OBVIOUS
  <2> HIDE DEF p
  <2>5. Does("host", "TX", "FlushFifo", p) BY <1>2, <1>7, <2>4, AccessForms DEF Does, All
  <2> QED BY <2>2, <2>3, <2>5 DEF Good
<1>10. Good("host", "TX", "ConfigEpDma", 0, USBC_Host_Tx_ConfigEpDma)
  <2>1. D("ConfigEpDma", 0, "TXCSR", {}, {15, 13, 12, 10}) BY <1>1, <1>3, <1>7, SMTT(30)
  <2> DEFINE p == <<Update("TXCSR", {}, {15, 13, 12, 10})>>
  <2>2. USBC_Host_Tx_ConfigEpDma = p BY AccessForms DEF USBC_Host_Tx_ConfigEpDma, TXCSR_H, DoubleFifo
  <2>3. p \in Seq(Allowed("host", "TX", "ConfigEpDma", 0)) BY <2>1, SeqFacts
  <2>4. Len(p) = 1 /\ p[1] = Update("TXCSR", {}, {15, 13, 12, 10}) OBVIOUS
  <2> HIDE DEF p
  <2>5. Does("host", "TX", "ConfigEpDma", p) BY <1>2, <1>7, <2>4, AccessForms DEF Does, All
  <2> QED BY <2>2, <2>3, <2>5 DEF Good
<1>11. Good("host", "TX", "ClearEpDma", 0, USBC_Host_Tx_ClearEpDma)
  <2>1. D("ClearEpDma", 0, "TXCSR", {15, 12}, {}) BY <1>1, <1>3, <1>7, SMTT(30)
  <2>2. D("ClearEpDma", 0, "TXCSR", {10}, {}) BY <1>1, <1>3, <1>7, SMTT(30)
  <2> DEFINE p == <<Update("TXCSR", {15, 12}, {}), Update("TXCSR", {10}, {})>>
  <2>3. USBC_Host_Tx_ClearEpDma = p BY AccessForms DEF USBC_Host_Tx_ClearEpDma, TXCSR_H, DoubleFifo
  <2>4. p \in Seq(Allowed("host", "TX", "ClearEpDma", 0)) BY <2>1, <2>2, SeqFacts
  <2>5. Len(p) = 2 /\ p[1] = Update("TXCSR", {15, 12}, {}) /\ p[2] = Update("TXCSR", {10}, {}) OBVIOUS
  <2> HIDE DEF p
  <2>6. Does("host", "TX", "ClearEpDma", p) BY <1>2, <1>7, <2>5, AccessForms DEF Does, All
  <2> QED BY <2>3, <2>4, <2>6 DEF Good
<1>12. Good("host", "TX", "ClearEpNakTimeOut", 0, USBC_Host_Tx_ClearNakTimeOut)
  <2>1. D("ClearEpNakTimeOut", 0, "TXCSR", {7}, {}) BY <1>1, <1>3, <1>7, SMTT(30)
  <2> DEFINE p == <<Update("TXCSR", {7}, {})>>
  <2>2. USBC_Host_Tx_ClearNakTimeOut = p BY AccessForms DEF USBC_Host_Tx_ClearNakTimeOut, TXCSR_H, DoubleFifo
  <2>3. p \in Seq(Allowed("host", "TX", "ClearEpNakTimeOut", 0)) BY <2>1, SeqFacts
  <2>4. Len(p) = 1 /\ p[1] = Update("TXCSR", {7}, {}) OBVIOUS
  <2> HIDE DEF p
  <2>5. Does("host", "TX", "ClearEpNakTimeOut", p) BY <1>2, <1>7, <2>4, AccessForms DEF Does, All
  <2> QED BY <2>2, <2>3, <2>5 DEF Good
<1>13. Good("host", "TX", "ClearEpError", 0, USBC_Host_Tx_ClearError)
  <2>1. D("ClearEpError", 0, "TXCSR", {2}, {}) BY <1>1, <1>3, <1>7, SMTT(30)
  <2> DEFINE p == <<Update("TXCSR", {2}, {})>>
  <2>2. USBC_Host_Tx_ClearError = p BY AccessForms DEF USBC_Host_Tx_ClearError, TXCSR_H, DoubleFifo
  <2>3. p \in Seq(Allowed("host", "TX", "ClearEpError", 0)) BY <2>1, SeqFacts
  <2>4. Len(p) = 1 /\ p[1] = Update("TXCSR", {2}, {}) OBVIOUS
  <2> HIDE DEF p
  <2>5. Does("host", "TX", "ClearEpError", p) BY <1>2, <1>7, <2>4, AccessForms DEF Does, All
  <2> QED BY <2>2, <2>3, <2>5 DEF Good
<1>14. Good("host", "TX", "ClearEpStall", 0, USBC_Host_Tx_ClearStall)
  <2>1. D("ClearEpStall", 0, "TXCSR", {5}, {}) BY <1>1, <1>3, <1>7, SMTT(30)
  <2> DEFINE p == <<Update("TXCSR", {5}, {})>>
  <2>2. USBC_Host_Tx_ClearStall = p BY AccessForms DEF USBC_Host_Tx_ClearStall, TXCSR_H, DoubleFifo
  <2>3. p \in Seq(Allowed("host", "TX", "ClearEpStall", 0)) BY <2>1, SeqFacts
  <2>4. Len(p) = 1 /\ p[1] = Update("TXCSR", {5}, {}) OBVIOUS
  <2> HIDE DEF p
  <2>5. Does("host", "TX", "ClearEpStall", p) BY <1>2, <1>7, <2>4, AccessForms DEF Does, All
  <2> QED BY <2>2, <2>3, <2>5 DEF Good
<1>15. Good("host", "TX", "ClearEpCSR", 0, USBC_Host_Tx_ClearCSR)
  <2>1. D("ClearEpCSR", 0, "TXCSR", All, {}) BY <1>1, <1>3, <1>7, SMTT(30)
  <2> DEFINE p == <<Update("TXCSR", All, {})>>
  <2>2. USBC_Host_Tx_ClearCSR = p BY AccessForms DEF USBC_Host_Tx_ClearCSR, TXCSR_H, DoubleFifo
  <2>3. p \in Seq(Allowed("host", "TX", "ClearEpCSR", 0)) BY <2>1, SeqFacts
  <2>4. Len(p) = 1 /\ p[1] = Update("TXCSR", All, {}) OBVIOUS
  <2> HIDE DEF p
  <2>5. Does("host", "TX", "ClearEpCSR", p) BY <1>2, <1>7, <2>4, AccessForms DEF Does, All
  <2> QED BY <2>2, <2>3, <2>5 DEF Good
<1>16. Good("host", "TX", "WriteDataStatus", 0, USBC_Host_Tx_WriteDataHalf)
  <2>1. D("WriteDataStatus", 0, "TXCSR", {}, {0}) BY <1>1, <1>3, <1>7, SMTT(30)
  <2> DEFINE p == <<Update("TXCSR", {}, {0})>>
  <2>2. USBC_Host_Tx_WriteDataHalf = p BY AccessForms DEF USBC_Host_Tx_WriteDataHalf, TXCSR_H, DoubleFifo
  <2>3. p \in Seq(Allowed("host", "TX", "WriteDataStatus", 0)) BY <2>1, SeqFacts
  <2>4. Len(p) = 1 /\ p[1] = Update("TXCSR", {}, {0}) OBVIOUS
  <2> HIDE DEF p
  <2>5. Does("host", "TX", "WriteDataStatus", p) BY <1>2, <1>7, <2>4, AccessForms DEF Does, All
  <2> QED BY <2>2, <2>3, <2>5 DEF Good
<1>17. Good("host", "TX", "WriteDataStatus", 0, USBC_Host_Tx_WriteDataComplete)
  <2>1. D("WriteDataStatus", 0, "TXCSR", {}, {0}) BY <1>1, <1>3, <1>7, SMTT(30)
  <2> DEFINE p == <<Update("TXCSR", {}, {0})>>
  <2>2. USBC_Host_Tx_WriteDataComplete = p BY AccessForms DEF USBC_Host_Tx_WriteDataComplete, TXCSR_H, DoubleFifo
  <2>3. p \in Seq(Allowed("host", "TX", "WriteDataStatus", 0)) BY <2>1, SeqFacts
  <2>4. Len(p) = 1 /\ p[1] = Update("TXCSR", {}, {0}) OBVIOUS
  <2> HIDE DEF p
  <2>5. Does("host", "TX", "WriteDataStatus", p) BY <1>2, <1>7, <2>4, AccessForms DEF Does, All
  <2> QED BY <2>2, <2>3, <2>5 DEF Good
<1>18. ASSUME NEW a, NEW x, NEW m, NEW y, NEW i
      PROVE  Good("host", "TX", "ConfigEp", a, USBC_Host_Tx_ConfigEp(x, m, y, DoubleFifo, a, i))
  <2> DEFINE u == Update("TXCSR", All, {13, 6, 3})
             v == Update("TXMAXP", {}, Bits(a % 2^11))
             w == Update("TXTYPE", All, Speed(m) \cup Protocol(y) \cup Bits(x))
             z == Update("TXINTERVAL", All, Bits(i))
             p == <<u, u, v, w, z>>
  <2>1. D("ConfigEp", a, "TXCSR", All, {13, 6, 3}) BY <1>1, <1>3, <1>7
  <2>2. D("ConfigEp", a, "TXMAXP", {}, Bits(a % 2^11)) BY <1>6
  <2>3. D("ConfigEp", a, "TXTYPE", All, Speed(m) \cup Protocol(y) \cup Bits(x)) /\ D("ConfigEp", a, "TXINTERVAL", All, Bits(i))
    <3>1. Speed(m) \cup Protocol(y) \cup Bits(x) \in SUBSET All BY <1>1
    <3> QED BY <1>1, <1>4, <3>1
  <2>4. USBC_Host_Tx_ConfigEp(x, m, y, DoubleFifo, a, i) = <<u>> \o <<u>> \o <<v>> \o <<w>> \o <<z>>
    BY AccessForms DEF USBC_Host_Tx_ConfigEp, USBC_Host_Tx_EpType, TXCSR_H, DoubleFifo
  <2>5. p \in Seq(Allowed("host", "TX", "ConfigEp", a)) BY <2>1, <2>2, <2>3, SeqFacts
  <2>6. Len(p) = 5 /\ p[1] = u /\ p[3] = v OBVIOUS
  <2>7. <<u>> \o <<u>> \o <<v>> \o <<w>> \o <<z>> = p
    <3>1. /\ u \in Allowed("host", "TX", "ConfigEp", a) /\ v \in Allowed("host", "TX", "ConfigEp", a)
          /\ w \in Allowed("host", "TX", "ConfigEp", a) /\ z \in Allowed("host", "TX", "ConfigEp", a)
      BY <2>1, <2>2, <2>3
    <3> HIDE DEF u, v, w, z
    <3>2. <<u>> \o <<u>> = <<u, u>> BY <3>1, Joined11
    <3>3. <<u, u>> \o <<v>> = <<u, u, v>> BY <3>1, Joined21
    <3>4. <<u, u, v>> \o <<w>> = <<u, u, v, w>> BY <3>1, Joined31
    <3>5. <<u, u, v, w>> \o <<z>> = <<u, u, v, w, z>> BY <3>1, Joined41
    <3> QED BY <3>2, <3>3, <3>4, <3>5
  <2> HIDE DEF p
  <2>8. Does("host", "TX", "ConfigEp", p) BY <1>2, <1>7, <2>6, AccessForms DEF Does, All
  <2> QED BY <2>4, <2>5, <2>7, <2>8 DEF Good
<1> QED BY <1>8, <1>9, <1>10, <1>11, <1>12, <1>13, <1>14, <1>15, <1>16, <1>17, <1>18

(* What the functions of the host side do at an IN endpoint.               *)
LEMMA HostRx ==
  LET ok(f, prog) == Good("host", "RX", f, 0, prog)
  IN  /\ \A n, x, m, y, i : Good("host", "RX", "ConfigEp", n, USBC_Host_Rx_ConfigEp(x, m, y, DoubleFifo, n, i))
      /\ ok("ConfigEp_Default", USBC_Host_Rx_ConfigEp_Default)
      /\ ok("FlushFifo", USBC_Host_Rx_FlushFifo)
      /\ ok("ConfigEpDma", USBC_Host_Rx_ConfigEpDma)
      /\ ok("ClearEpDma", USBC_Host_Rx_ClearEpDma)
      /\ ok("ClearEpNakTimeOut", USBC_Host_Rx_ClearNakTimeOut)
      /\ ok("ClearEpError", USBC_Host_Rx_ClearError)
      /\ ok("ClearEpStall", USBC_Host_Rx_ClearStall)
      /\ ok("ClearEpCSR", USBC_Host_Rx_ClearCSR)
      /\ ok("StartInToken", USBC_Host_Rx_StartInToken)
      /\ ok("StopInToken", USBC_Host_Rx_StopInToken)
      /\ ok("ReadDataStatus", USBC_Host_Rx_ReadDataHalf)
      /\ ok("ReadDataStatus", USBC_Host_Rx_ReadDataComplete)
<1> DEFINE D(f, a, r, clr, set) == Update(r, clr, set) \in Allowed("host", "RX", f, a)
<1>1. /\ All \in SUBSET All /\ {} \in SUBSET All /\ {7, 4} \in SUBSET All /\ {15, 14, 11, 13} \in SUBSET All /\ {3} \in SUBSET All /\ {2} \in SUBSET All /\ {6} \in SUBSET All /\ {5} \in SUBSET All /\ {0} \in SUBSET All
      /\ \A n : Bits(n) \in SUBSET All
      /\ \A m : Speed(m) \in SUBSET All
      /\ \A y : Protocol(y) \in SUBSET All
  BY BitsType DEF All, Speed, Protocol
<1>2. CommandBit("host", "RX") = 5 /\ 5 # NoBit /\ CsrName("RX") = "RXCSR" /\ MaxpName("RX") = "RXMAXP"
  BY DEF CommandBit, NoBit, CsrName, MaxpName
<1>0. \A f, clr, set : (4 \notin set /\ 0 \notin clr \ set) => LeavesReady("host", "RX", clr, set)
  BY DEF LeavesReady
<1>3. ASSUME NEW f, NEW a, NEW clr \in SUBSET All, NEW set \in SUBSET All,
             f \notin Droppers \cup {"bulk_ep_reset"} => (4 \notin set /\ 0 \notin clr \ set),
             f \notin Starters => 5 \notin set, f \notin Stoppers => 5 \notin clr \ set
      PROVE  D(f, a, "RXCSR", clr, set)
  <2>1. Fits("host", "RX", f, a, "RXCSR", clr, set) BY <1>0, <1>2, <1>3 DEF Fits
  <2> QED BY <2>1, AllowedFacts, RegNames
<1>4. \A f, a : \A set \in SUBSET All : D(f, a, "RXTYPE", All, set) /\ D(f, a, "RXINTERVAL", All, set)
  <2> TAKE f, a
  <2> TAKE set \in SUBSET All
  <2>1. Fits("host", "RX", f, a, "RXTYPE", All, set) /\ Fits("host", "RX", f, a, "RXINTERVAL", All, set)
    BY DEF Fits, Others
  <2> QED BY <1>1, <2>1, AllowedFacts, RegNames
<1>7. /\ Droppers = {"ConfigEp", "ConfigEp_Default", "FlushFifo", "ReadDataStatus", "ClearEpCSR"}
      /\ Starters = {"EpSendStall", "StartInToken"} /\ Configurers = {"ConfigEp", "bulk_ep_reset"}
      /\ Stoppers = {"ConfigEp", "ConfigEp_Default", "FlushFifo", "ClearEpCSR", "EpClearStall",
                      "StopInToken", "bulk_ep_reset"}
  BY DEF Droppers, Starters, Configurers, Stoppers, Enders
<1>5. D("ConfigEp_Default", 0, "RXMAXP", All, {})
  <2>1. Fits("host", "RX", "ConfigEp_Default", 0, "RXMAXP", All, {}) BY <1>2 DEF Fits
  <2> QED BY <1>1, <2>1, AllowedFacts, RegNames
<1>6. \A n : D("ConfigEp", n, "RXMAXP", {}, Bits(n % 2^11))
  <2> TAKE n
  <2>1. Fits("host", "RX", "ConfigEp", n, "RXMAXP", {}, Bits(n % 2^11)) BY <1>2, <1>7 DEF Fits
  <2> QED BY <1>1, <2>1, AllowedFacts, RegNames
<1>8. Good("host", "RX", "ConfigEp_Default", 0, USBC_Host_Rx_ConfigEp_Default)
  <2>1. D("ConfigEp_Default", 0, "RXCSR", All, {7, 4}) BY <1>1, <1>3, <1>7, SMTT(30)
  <2>2. D("ConfigEp_Default", 0, "RXCSR", All, {}) BY <1>1, <1>3, <1>7, SMTT(30)
  <2>3. D("ConfigEp_Default", 0, "RXMAXP", All, {}) BY <1>5
  <2>4. D("ConfigEp_Default", 0, "RXTYPE", All, {}) BY <1>1, <1>4
  <2>5. D("ConfigEp_Default", 0, "RXINTERVAL", All, {}) BY <1>1, <1>4
  <2> DEFINE p == <<Update("RXCSR", All, {7, 4}), Update("RXCSR", All, {}), Update("RXMAXP", All, {}), Update("RXTYPE", All, {}), Update("RXINTERVAL", All, {})>>
  <2>6. USBC_Host_Rx_ConfigEp_Default = p BY AccessForms DEF USBC_Host_Rx_ConfigEp_Default, RXCSR_H, DoubleFifo
  <2>7. p \in Seq(Allowed("host", "RX", "ConfigEp_Default", 0)) BY <2>1, <2>2, <2>3, <2>4, <2>5, SeqFacts
  <2>8. Len(p) = 5 /\ p[1] = Update("RXCSR", All, {7, 4}) /\ p[2] = Update("RXCSR", All, {}) /\ p[3] = Update("RXMAXP", All, {}) /\ p[4] = Update("RXTYPE", All, {}) /\ p[5] = Update("RXINTERVAL", All, {}) OBVIOUS
  <2> HIDE DEF p
  <2>9. Does("host", "RX", "ConfigEp_Default", p) BY <1>2, <1>7, <2>8, AccessForms DEF Does, All
  <2> QED BY <2>6, <2>7, <2>9 DEF Good
<1>9. Good("host", "RX", "FlushFifo", 0, USBC_Host_Rx_FlushFifo)
  <2>1. D("FlushFifo", 0, "RXCSR", All, {7, 4}) BY <1>1, <1>3, <1>7, SMTT(30)
  <2> DEFINE p == <<Update("RXCSR", All, {7, 4})>>
  <2>2. USBC_Host_Rx_FlushFifo = p BY AccessForms DEF USBC_Host_Rx_FlushFifo, RXCSR_H, DoubleFifo
  <2>3. p \in Seq(Allowed("host", "RX", "FlushFifo", 0)) BY <2>1, SeqFacts
  <2>4. Len(p) = 1 /\ p[1] = Update("RXCSR", All, {7, 4}) OBVIOUS
  <2> HIDE DEF p
  <2>5. Does("host", "RX", "FlushFifo", p) BY <1>2, <1>7, <2>4, AccessForms DEF Does, All
  <2> QED BY <2>2, <2>3, <2>5 DEF Good
<1>10. Good("host", "RX", "ConfigEpDma", 0, USBC_Host_Rx_ConfigEpDma)
  <2>1. D("ConfigEpDma", 0, "RXCSR", {}, {15, 14, 11, 13}) BY <1>1, <1>3, <1>7, SMTT(30)
  <2> DEFINE p == <<Update("RXCSR", {}, {15, 14, 11, 13})>>
  <2>2. USBC_Host_Rx_ConfigEpDma = p BY AccessForms DEF USBC_Host_Rx_ConfigEpDma, RXCSR_H, DoubleFifo
  <2>3. p \in Seq(Allowed("host", "RX", "ConfigEpDma", 0)) BY <2>1, SeqFacts
  <2>4. Len(p) = 1 /\ p[1] = Update("RXCSR", {}, {15, 14, 11, 13}) OBVIOUS
  <2> HIDE DEF p
  <2>5. Does("host", "RX", "ConfigEpDma", p) BY <1>2, <1>7, <2>4, AccessForms DEF Does, All
  <2> QED BY <2>2, <2>3, <2>5 DEF Good
<1>11. Good("host", "RX", "ClearEpDma", 0, USBC_Host_Rx_ClearEpDma)
  <2>1. D("ClearEpDma", 0, "RXCSR", {15, 14, 11, 13}, {}) BY <1>1, <1>3, <1>7, SMTT(30)
  <2> DEFINE p == <<Update("RXCSR", {15, 14, 11, 13}, {})>>
  <2>2. USBC_Host_Rx_ClearEpDma = p BY AccessForms DEF USBC_Host_Rx_ClearEpDma, RXCSR_H, DoubleFifo
  <2>3. p \in Seq(Allowed("host", "RX", "ClearEpDma", 0)) BY <2>1, SeqFacts
  <2>4. Len(p) = 1 /\ p[1] = Update("RXCSR", {15, 14, 11, 13}, {}) OBVIOUS
  <2> HIDE DEF p
  <2>5. Does("host", "RX", "ClearEpDma", p) BY <1>2, <1>7, <2>4, AccessForms DEF Does, All
  <2> QED BY <2>2, <2>3, <2>5 DEF Good
<1>12. Good("host", "RX", "ClearEpNakTimeOut", 0, USBC_Host_Rx_ClearNakTimeOut)
  <2>1. D("ClearEpNakTimeOut", 0, "RXCSR", {3}, {}) BY <1>1, <1>3, <1>7, SMTT(30)
  <2> DEFINE p == <<Update("RXCSR", {3}, {})>>
  <2>2. USBC_Host_Rx_ClearNakTimeOut = p BY AccessForms DEF USBC_Host_Rx_ClearNakTimeOut, RXCSR_H, DoubleFifo
  <2>3. p \in Seq(Allowed("host", "RX", "ClearEpNakTimeOut", 0)) BY <2>1, SeqFacts
  <2>4. Len(p) = 1 /\ p[1] = Update("RXCSR", {3}, {}) OBVIOUS
  <2> HIDE DEF p
  <2>5. Does("host", "RX", "ClearEpNakTimeOut", p) BY <1>2, <1>7, <2>4, AccessForms DEF Does, All
  <2> QED BY <2>2, <2>3, <2>5 DEF Good
<1>13. Good("host", "RX", "ClearEpError", 0, USBC_Host_Rx_ClearError)
  <2>1. D("ClearEpError", 0, "RXCSR", {2}, {}) BY <1>1, <1>3, <1>7, SMTT(30)
  <2> DEFINE p == <<Update("RXCSR", {2}, {})>>
  <2>2. USBC_Host_Rx_ClearError = p BY AccessForms DEF USBC_Host_Rx_ClearError, RXCSR_H, DoubleFifo
  <2>3. p \in Seq(Allowed("host", "RX", "ClearEpError", 0)) BY <2>1, SeqFacts
  <2>4. Len(p) = 1 /\ p[1] = Update("RXCSR", {2}, {}) OBVIOUS
  <2> HIDE DEF p
  <2>5. Does("host", "RX", "ClearEpError", p) BY <1>2, <1>7, <2>4, AccessForms DEF Does, All
  <2> QED BY <2>2, <2>3, <2>5 DEF Good
<1>14. Good("host", "RX", "ClearEpStall", 0, USBC_Host_Rx_ClearStall)
  <2>1. D("ClearEpStall", 0, "RXCSR", {6}, {}) BY <1>1, <1>3, <1>7, SMTT(30)
  <2> DEFINE p == <<Update("RXCSR", {6}, {})>>
  <2>2. USBC_Host_Rx_ClearStall = p BY AccessForms DEF USBC_Host_Rx_ClearStall, RXCSR_H, DoubleFifo
  <2>3. p \in Seq(Allowed("host", "RX", "ClearEpStall", 0)) BY <2>1, SeqFacts
  <2>4. Len(p) = 1 /\ p[1] = Update("RXCSR", {6}, {}) OBVIOUS
  <2> HIDE DEF p
  <2>5. Does("host", "RX", "ClearEpStall", p) BY <1>2, <1>7, <2>4, AccessForms DEF Does, All
  <2> QED BY <2>2, <2>3, <2>5 DEF Good
<1>15. Good("host", "RX", "ClearEpCSR", 0, USBC_Host_Rx_ClearCSR)
  <2>1. D("ClearEpCSR", 0, "RXCSR", All, {}) BY <1>1, <1>3, <1>7, SMTT(30)
  <2> DEFINE p == <<Update("RXCSR", All, {})>>
  <2>2. USBC_Host_Rx_ClearCSR = p BY AccessForms DEF USBC_Host_Rx_ClearCSR, RXCSR_H, DoubleFifo
  <2>3. p \in Seq(Allowed("host", "RX", "ClearEpCSR", 0)) BY <2>1, SeqFacts
  <2>4. Len(p) = 1 /\ p[1] = Update("RXCSR", All, {}) OBVIOUS
  <2> HIDE DEF p
  <2>5. Does("host", "RX", "ClearEpCSR", p) BY <1>2, <1>7, <2>4, AccessForms DEF Does, All
  <2> QED BY <2>2, <2>3, <2>5 DEF Good
<1>16. Good("host", "RX", "StartInToken", 0, USBC_Host_Rx_StartInToken)
  <2>1. D("StartInToken", 0, "RXCSR", {}, {5}) BY <1>1, <1>3, <1>7, SMTT(30)
  <2> DEFINE p == <<Update("RXCSR", {}, {5})>>
  <2>2. USBC_Host_Rx_StartInToken = p BY AccessForms DEF USBC_Host_Rx_StartInToken, RXCSR_H, DoubleFifo
  <2>3. p \in Seq(Allowed("host", "RX", "StartInToken", 0)) BY <2>1, SeqFacts
  <2>4. Len(p) = 1 /\ p[1] = Update("RXCSR", {}, {5}) OBVIOUS
  <2> HIDE DEF p
  <2>5. Does("host", "RX", "StartInToken", p) BY <1>2, <1>7, <2>4, AccessForms DEF Does, All
  <2> QED BY <2>2, <2>3, <2>5 DEF Good
<1>17. Good("host", "RX", "StopInToken", 0, USBC_Host_Rx_StopInToken)
  <2>1. D("StopInToken", 0, "RXCSR", {5}, {}) BY <1>1, <1>3, <1>7, SMTT(30)
  <2> DEFINE p == <<Update("RXCSR", {5}, {})>>
  <2>2. USBC_Host_Rx_StopInToken = p BY AccessForms DEF USBC_Host_Rx_StopInToken, RXCSR_H, DoubleFifo
  <2>3. p \in Seq(Allowed("host", "RX", "StopInToken", 0)) BY <2>1, SeqFacts
  <2>4. Len(p) = 1 /\ p[1] = Update("RXCSR", {5}, {}) OBVIOUS
  <2> HIDE DEF p
  <2>5. Does("host", "RX", "StopInToken", p) BY <1>2, <1>7, <2>4, AccessForms DEF Does, All
  <2> QED BY <2>2, <2>3, <2>5 DEF Good
<1>18. Good("host", "RX", "ReadDataStatus", 0, USBC_Host_Rx_ReadDataHalf)
  <2>1. D("ReadDataStatus", 0, "RXCSR", {0}, {}) BY <1>1, <1>3, <1>7, SMTT(30)
  <2> DEFINE p == <<Update("RXCSR", {0}, {})>>
  <2>2. USBC_Host_Rx_ReadDataHalf = p BY AccessForms DEF USBC_Host_Rx_ReadDataHalf, RXCSR_H, DoubleFifo
  <2>3. p \in Seq(Allowed("host", "RX", "ReadDataStatus", 0)) BY <2>1, SeqFacts
  <2>4. Len(p) = 1 /\ p[1] = Update("RXCSR", {0}, {}) OBVIOUS
  <2> HIDE DEF p
  <2>5. Does("host", "RX", "ReadDataStatus", p) BY <1>2, <1>7, <2>4, AccessForms DEF Does, All
  <2> QED BY <2>2, <2>3, <2>5 DEF Good
<1>19. Good("host", "RX", "ReadDataStatus", 0, USBC_Host_Rx_ReadDataComplete)
  <2>1. D("ReadDataStatus", 0, "RXCSR", {0}, {}) BY <1>1, <1>3, <1>7, SMTT(30)
  <2> DEFINE p == <<Update("RXCSR", {0}, {})>>
  <2>2. USBC_Host_Rx_ReadDataComplete = p BY AccessForms DEF USBC_Host_Rx_ReadDataComplete, RXCSR_H, DoubleFifo
  <2>3. p \in Seq(Allowed("host", "RX", "ReadDataStatus", 0)) BY <2>1, SeqFacts
  <2>4. Len(p) = 1 /\ p[1] = Update("RXCSR", {0}, {}) OBVIOUS
  <2> HIDE DEF p
  <2>5. Does("host", "RX", "ReadDataStatus", p) BY <1>2, <1>7, <2>4, AccessForms DEF Does, All
  <2> QED BY <2>2, <2>3, <2>5 DEF Good
<1>20. ASSUME NEW a, NEW x, NEW m, NEW y, NEW i
      PROVE  Good("host", "RX", "ConfigEp", a, USBC_Host_Rx_ConfigEp(x, m, y, DoubleFifo, a, i))
  <2> DEFINE u == Update("RXCSR", All, {7, 4})
             v == Update("RXMAXP", {}, Bits(a % 2^11))
             w == Update("RXTYPE", All, Speed(m) \cup Protocol(y) \cup Bits(x))
             z == Update("RXINTERVAL", All, Bits(i))
             p == <<u, u, v, w, z>>
  <2>1. D("ConfigEp", a, "RXCSR", All, {7, 4}) BY <1>1, <1>3, <1>7
  <2>2. D("ConfigEp", a, "RXMAXP", {}, Bits(a % 2^11)) BY <1>6
  <2>3. D("ConfigEp", a, "RXTYPE", All, Speed(m) \cup Protocol(y) \cup Bits(x)) /\ D("ConfigEp", a, "RXINTERVAL", All, Bits(i))
    <3>1. Speed(m) \cup Protocol(y) \cup Bits(x) \in SUBSET All BY <1>1
    <3> QED BY <1>1, <1>4, <3>1
  <2>4. USBC_Host_Rx_ConfigEp(x, m, y, DoubleFifo, a, i) = <<u>> \o <<u>> \o <<v>> \o <<w>> \o <<z>>
    BY AccessForms DEF USBC_Host_Rx_ConfigEp, USBC_Host_Rx_EpType, RXCSR_H, DoubleFifo
  <2>5. p \in Seq(Allowed("host", "RX", "ConfigEp", a)) BY <2>1, <2>2, <2>3, SeqFacts
  <2>6. Len(p) = 5 /\ p[1] = u /\ p[3] = v OBVIOUS
  <2>7. <<u>> \o <<u>> \o <<v>> \o <<w>> \o <<z>> = p
    <3>1. /\ u \in Allowed("host", "RX", "ConfigEp", a) /\ v \in Allowed("host", "RX", "ConfigEp", a)
          /\ w \in Allowed("host", "RX", "ConfigEp", a) /\ z \in Allowed("host", "RX", "ConfigEp", a)
      BY <2>1, <2>2, <2>3
    <3> HIDE DEF u, v, w, z
    <3>2. <<u>> \o <<u>> = <<u, u>> BY <3>1, Joined11
    <3>3. <<u, u>> \o <<v>> = <<u, u, v>> BY <3>1, Joined21
    <3>4. <<u, u, v>> \o <<w>> = <<u, u, v, w>> BY <3>1, Joined31
    <3>5. <<u, u, v, w>> \o <<z>> = <<u, u, v, w, z>> BY <3>1, Joined41
    <3> QED BY <3>2, <3>3, <3>4, <3>5
  <2> HIDE DEF p
  <2>8. Does("host", "RX", "ConfigEp", p) BY <1>2, <1>7, <2>6, AccessForms DEF Does, All
  <2> QED BY <2>4, <2>5, <2>7, <2>8 DEF Good
<1> QED BY <1>8, <1>9, <1>10, <1>11, <1>12, <1>13, <1>14, <1>15, <1>16, <1>17, <1>18, <1>19, <1>20

-----------------------------------------------------------------------------
(* The same for the functions that both sides share.                       *)

(* The switch on the type of an endpoint.                                  *)
LEMMA SwitchFacts ==
  \A p, q, r : Switch("EP0", p, q, r) = p /\ Switch("TX", p, q, r) = q /\ Switch("RX", p, q, r) = r
BY DEF Switch

(* The register of the pending interrupts, and the ones nobody watches.    *)
PendReg(t) == IF t = "RX" THEN "INTRx" ELSE "INTTx"
OtgOthers == {"INTTxE", "INTRxE", "INTUSB", "INTUSBE", "TMCTL", "VEND0",
              "TXFIFOAD", "TXFIFOSZ", "RXFIFOAD", "RXFIFOSZ"}

(* What a shared function f may do: to a change bit, only the query about  *)
(* it, and to a pending bit, only the function that clears it by name.     *)
OtgFits(x, f, a, reg, clr, set) ==
  \/ reg \in OtgOthers
  \/ reg = "ISCR" /\ Changes \subseteq clr /\ set \cap Changes \subseteq IF f = "IsChange" THEN {a} ELSE {}
  \/ /\ reg = PendReg(x[1]) /\ clr = All
     /\ \/ f = "ClearEpPending" /\ set = {x[2]}
        \/ f = "ClearEpPendingAll"

(* The accesses that fit.                                                  *)
OtgAllowed(x, f, a) == {o \in Accesses : OtgFits(x, f, a, o.reg, o.clr, o.set)}

(* An access that fits is allowed.                                         *)
LEMMA OtgAllowedFacts ==
  ASSUME NEW x, NEW f, NEW a, NEW reg \in Layout, NEW clr \in SUBSET All, NEW set \in SUBSET All,
         OtgFits(x, f, a, reg, clr, set)
  PROVE  Update(reg, clr, set) \in OtgAllowed(x, f, a)
BY DEF Update, OtgAllowed, Accesses, Here

(* Any access to a register nobody watches is allowed.                     *)
LEMMA OtgOtherFacts ==
  ASSUME NEW x, NEW f, NEW a, NEW reg \in OtgOthers, NEW set \in SUBSET All
  PROVE  /\ Write(reg, set) \in OtgAllowed(x, f, a)
         /\ Update(reg, {}, set) \in OtgAllowed(x, f, a)
         /\ Update(reg, set, {}) \in OtgAllowed(x, f, a)
<1>1. reg \in Layout BY DEF OtgOthers, Layout, Common, Banked
<1>2. \A clr, z : OtgFits(x, f, a, reg, clr, z) BY DEF OtgFits
<1>3. All \in SUBSET All /\ {} \in SUBSET All OBVIOUS
<1> QED BY <1>1, <1>2, <1>3, OtgAllowedFacts, AccessForms

(* The shared functions about an endpoint.                                 *)
LEMMA OtgTargetPrograms ==
  ASSUME NEW x \in Targets, NEW c \in OtgCalls(x[1], x[2])
  PROVE  c.prog \in Seq(OtgAllowed(x, c.f, c.a))
<1> DEFINE t == x[1]
           ep == x[2]
           ok(f, prog) == prog \in Seq(OtgAllowed(x, f, 0))
<1>0. t \in {"EP0", "TX", "RX"} /\ ep \in 0..15 /\ ep \in All BY TargetFacts
<1>1. /\ {ep} \in SUBSET All /\ 0..15 \in SUBSET All /\ All \in SUBSET All /\ {} \in SUBSET All
      /\ \A n : Bits(n) \in SUBSET All /\ {0} \cup {b + 1 : b \in Bits(n)} \in SUBSET All
  BY <1>0 DEF All, Bits
<1>2. \A f : \A reg \in OtgOthers : \A set \in SUBSET All :
        /\ Update(reg, All, set) \in OtgAllowed(x, f, 0)
        /\ Update(reg, {}, set) \in OtgAllowed(x, f, 0)
        /\ Update(reg, set, {}) \in OtgAllowed(x, f, 0)
  BY OtgOtherFacts, AccessForms
<1>3. \A f : ok(f, <<>>) BY SeqFacts
<1>4. ok("ClearEpPending", USBC_INT_ClearEpPending(t, ep))
  <2>1. Update(PendReg(t), All, {ep}) \in OtgAllowed(x, "ClearEpPending", 0)
    <3>1. PendReg(t) \in Layout BY DEF PendReg, Layout, Common
    <3>2. OtgFits(x, "ClearEpPending", 0, PendReg(t), All, {ep}) BY DEF OtgFits
    <3> QED BY <1>1, <3>1, <3>2, OtgAllowedFacts
  <2>2. USBC_INT_ClearEpPending(t, ep) = <<Update(PendReg(t), All, {ep})>>
    <3>1. CASE t = "RX" BY <3>1, SwitchFacts, AccessForms DEF USBC_INT_ClearEpPending, USBC_INT_ClearRxPending, PendReg
    <3>2. CASE t # "RX" BY <1>0, <3>2, SwitchFacts, AccessForms DEF USBC_INT_ClearEpPending, USBC_INT_ClearTxPending, PendReg
    <3> QED BY <3>1, <3>2
  <2> QED BY <2>1, <2>2, SeqFacts
<1>5. ok("ClearEpPendingAll", USBC_INT_ClearEpPendingAll(t))
  <2>1. Update(PendReg(t), All, 0..15) \in OtgAllowed(x, "ClearEpPendingAll", 0)
    <3>1. PendReg(t) \in Layout BY DEF PendReg, Layout, Common
    <3>2. OtgFits(x, "ClearEpPendingAll", 0, PendReg(t), All, 0..15) BY DEF OtgFits
    <3> QED BY <1>1, <3>1, <3>2, OtgAllowedFacts
  <2>2. USBC_INT_ClearEpPendingAll(t) = <<Update(PendReg(t), All, 0..15)>>
    <3>1. CASE t = "RX" BY <3>1, SwitchFacts, AccessForms DEF USBC_INT_ClearEpPendingAll, USBC_INT_ClearRxPendingAll, PendReg
    <3>2. CASE t # "RX" BY <1>0, <3>2, SwitchFacts, AccessForms DEF USBC_INT_ClearEpPendingAll, USBC_INT_ClearTxPendingAll, PendReg
    <3> QED BY <3>1, <3>2
  <2> QED BY <2>1, <2>2, SeqFacts
<1>6. {"INTTxE", "INTRxE", "VEND0", "TXFIFOAD", "TXFIFOSZ", "RXFIFOAD", "RXFIFOSZ"} \subseteq OtgOthers
  BY DEF OtgOthers
<1>7. /\ ok("EnableEp", USBC_INT_EnableEp(t, ep)) /\ ok("DisableEp", USBC_INT_DisableEp(t, ep))
      /\ ok("DisableEpAll", USBC_INT_DisableEpAll(t))
  <2>1. /\ \A r \in {"INTTxE", "INTRxE"} :
             /\ ok("EnableEp", <<set_bit(r, ep)>>) /\ ok("DisableEp", <<clear_bit(r, ep)>>)
             /\ ok("DisableEpAll", <<Write(r, {})>>)
    BY <1>1, <1>2, <1>6, SeqFacts, AccessForms
  <2> HIDE DEF ok
  <2>2. CASE t = "EP0" BY <1>3, <2>2, SwitchFacts DEF USBC_INT_EnableEp, USBC_INT_DisableEp, USBC_INT_DisableEpAll
  <2>3. CASE t = "TX" BY <2>1, <2>3, SwitchFacts
      DEF USBC_INT_EnableEp, USBC_INT_DisableEp, USBC_INT_DisableEpAll, USBC_INT_EnableTxEp, USBC_INT_DisableTxEp, USBC_INT_DisableTxAll
  <2>4. CASE t = "RX" BY <2>1, <2>4, SwitchFacts
      DEF USBC_INT_EnableEp, USBC_INT_DisableEp, USBC_INT_DisableEpAll, USBC_INT_EnableRxEp, USBC_INT_DisableRxEp, USBC_INT_DisableRxAll
  <2> QED BY <1>0, <2>2, <2>3, <2>4
<1> DEFINE fifo == USBC_ConfigFifo(t, FALSE, 512, 1024)
<1>8. ok("ConfigFifo", USBC_ConfigFifo_Default(t)) /\ ok("ConfigFifo", fifo)
  <2>1. /\ \A m, n : ok("ConfigFifo", <<Write("TXFIFOAD", Bits(m)), Write("TXFIFOSZ", Bits(n))>>)
        /\ \A m, n : ok("ConfigFifo", <<Write("RXFIFOAD", Bits(m)), Write("RXFIFOSZ", Bits(n))>>)
        /\ ok("ConfigFifo", <<Write("TXFIFOAD", {}), Write("TXFIFOSZ", {})>>)
        /\ ok("ConfigFifo", <<Write("RXFIFOAD", {}), Write("RXFIFOSZ", {})>>)
    BY <1>1, <1>2, <1>6, SeqFacts, AccessForms
  <2>2. \A s \in Seq(OtgAllowed(x, "ConfigFifo", 0)) : s \o <<>> = s BY ConcatEmptySeq
  <2>3. ok("ConfigFifo", USBC_ConfigFifo_TxEp(FALSE, 512, 1024)) /\ ok("ConfigFifo", USBC_ConfigFifo_RxEp(FALSE, 512, 1024))
    BY <2>1, <2>2 DEF USBC_ConfigFifo_TxEp, USBC_ConfigFifo_RxEp
  <2> DEFINE tx == USBC_ConfigFifo_TxEp(FALSE, 512, 1024)
             rx == USBC_ConfigFifo_RxEp(FALSE, 512, 1024)
  <2>4. fifo = Switch(t, <<>>, tx, rx) BY DEF USBC_ConfigFifo
  <2> HIDE DEF ok, tx, rx, fifo
  <2>5. ok("ConfigFifo", tx) /\ ok("ConfigFifo", rx) BY <2>3 DEF tx, rx
  <2>6. CASE t = "EP0" BY <1>3, <2>4, <2>6, SwitchFacts DEF USBC_ConfigFifo_Default
  <2>7. CASE t = "TX" BY <2>1, <2>4, <2>5, <2>7, SwitchFacts DEF USBC_ConfigFifo_Default, USBC_ConfigFifo_TxEp_Default
  <2>8. CASE t = "RX" BY <2>1, <2>4, <2>5, <2>8, SwitchFacts DEF USBC_ConfigFifo_Default, USBC_ConfigFifo_RxEp_Default
  <2> QED BY <1>0, <2>6, <2>7, <2>8
<1>9. ok("SelectBus", USBC_SelectBus("DMA", t, ep)) /\ ok("SelectBus", USBC_SelectBus("PIO", t, ep))
  <2> DEFINE n == IF t = "TX" THEN (ep - 1) * 2 ELSE ep * 2 - 1
             set == {0} \cup {b + 1 : b \in Bits(n)}
  <2>1. set \in SUBSET All BY <1>1
  <2>2. USBC_SelectBus("DMA", t, ep) = <<Update("VEND0", {}, set)>> BY DEF USBC_SelectBus
  <2>3. USBC_SelectBus("PIO", t, ep) = <<Update("VEND0", All, {})>> BY AccessForms DEF USBC_SelectBus
  <2> HIDE DEF set, n
  <2> QED BY <1>1, <1>2, <1>6, <2>1, <2>2, <2>3, SeqFacts
<1>10. \/ c = CallOf("ClearEpPending", 0, USBC_INT_ClearEpPending(t, ep))
       \/ c = CallOf("ClearEpPendingAll", 0, USBC_INT_ClearEpPendingAll(t))
       \/ c = CallOf("EnableEp", 0, USBC_INT_EnableEp(t, ep)) \/ c = CallOf("DisableEp", 0, USBC_INT_DisableEp(t, ep))
       \/ c = CallOf("DisableEpAll", 0, USBC_INT_DisableEpAll(t))
       \/ c = CallOf("ConfigFifo", 0, fifo) \/ c = CallOf("ConfigFifo", 0, USBC_ConfigFifo_Default(t))
       \/ c = CallOf("SelectBus", 0, USBC_SelectBus("DMA", t, ep)) \/ c = CallOf("SelectBus", 0, USBC_SelectBus("PIO", t, ep))
  BY Zenon DEF OtgCalls
<1> HIDE DEF ok, fifo
<1>11. \E f, prog : c = CallOf(f, 0, prog) /\ ok(f, prog)
  BY <1>4, <1>5, <1>7, <1>8, <1>9, <1>10
<1> QED BY <1>11 DEF CallOf, ok

(* The functions about the interface status.                               *)
LEMMA LineFacts ==
  ASSUME NEW f, NEW a, NEW clr \in SUBSET All, NEW set \in SUBSET All,
         set \cap Changes \subseteq IF f = "IsChange" THEN {a} ELSE {}
  PROVE  <<USBC_WakeUp_ClearChangeDetect(clr, set)>> \in Seq(OtgAllowed(NoTarget, f, a))
<1>1. ChangeBits = Changes /\ Changes \in SUBSET All BY DEF ChangeBits, Changes, ISCR, All
<1>2. "ISCR" \in Layout BY DEF Layout, Common
<1>3. OtgFits(NoTarget, f, a, "ISCR", clr \cup Changes, set) BY DEF OtgFits
<1>4. Update("ISCR", clr \cup Changes, set) \in OtgAllowed(NoTarget, f, a) BY <1>1, <1>2, <1>3, OtgAllowedFacts
<1> QED BY <1>1, <1>4, SeqFacts DEF USBC_WakeUp_ClearChangeDetect

(* The shared functions about no endpoint.                                 *)
LEMMA OtgGeneralPrograms ==
  ASSUME NEW c \in OtgGeneral
  PROVE  c.prog \in Seq(OtgAllowed(NoTarget, c.f, c.a))
<1> DEFINE ok(f, a, prog) == prog \in Seq(OtgAllowed(NoTarget, f, a))
<1>1. Changes = {4, 5, 6} BY DEF Changes, ISCR
<1>2. ASSUME NEW clr \in SUBSET All, NEW set \in SUBSET All, set \cap {4, 5, 6} = {}
      PROVE  ok("Line", 0, <<USBC_WakeUp_ClearChangeDetect(clr, set)>>)
  BY <1>1, <1>2, LineFacts
<1>3. /\ {} \in SUBSET All /\ {17} \in SUBSET All /\ {16} \in SUBSET All /\ {14, 15} \in SUBSET All
      /\ {15} \in SUBSET All /\ {12, 13} \in SUBSET All /\ {13} \in SUBSET All /\ {7} \in SUBSET All
      /\ {3} \in SUBSET All /\ {2} \in SUBSET All /\ {1} \in SUBSET All /\ {0} \in SUBSET All
      /\ {4} \in SUBSET All /\ {5} \in SUBSET All /\ {6} \in SUBSET All /\ 0..7 \in SUBSET All
      /\ {0, 2} \in SUBSET All
  BY DEF All
<1> DEFINE line(clr, set) == <<USBC_WakeUp_ClearChangeDetect(clr, set)>>
<1>4. /\ ok("Line", 0, line({}, {17})) /\ ok("Line", 0, line({17}, {})) /\ ok("Line", 0, line({}, {16}))
      /\ ok("Line", 0, line({16}, {})) /\ ok("Line", 0, line({}, {7})) /\ ok("Line", 0, line({7}, {}))
      /\ ok("Line", 0, line({}, {3})) /\ ok("Line", 0, line({3}, {}))
  BY <1>2, <1>3
<1>5. /\ ok("Line", 0, line({}, {2})) /\ ok("Line", 0, line({2}, {})) /\ ok("Line", 0, line({}, {1}))
      /\ ok("Line", 0, line({1}, {})) /\ ok("Line", 0, line({}, {0})) /\ ok("Line", 0, line({0}, {}))
  BY <1>2, <1>3
<1>6. /\ ok("Line", 0, line({14, 15}, {})) /\ ok("Line", 0, line({14, 15}, {15})) /\ ok("Line", 0, line({}, {14, 15}))
      /\ ok("Line", 0, line({12, 13}, {})) /\ ok("Line", 0, line({12, 13}, {13})) /\ ok("Line", 0, line({}, {12, 13}))
  BY <1>2, <1>3
<1>7. /\ ok("IsChange", 6, line({}, {6})) /\ ok("IsChange", 5, line({}, {5})) /\ ok("IsChange", 4, line({}, {4}))
  BY <1>3, LineFacts
<1> HIDE DEF ok, line
<1>8. /\ \A p \in {USBC_EnableIdPullUp, USBC_DisableIdPullUp, USBC_EnableDpDmPullUp, USBC_DisableDpDmPullUp,
                   USBC_EnableHosc, USBC_DisableHosc, USBC_EnableWakeIrq, USBC_DisableWakeIrq,
                   USBC_EnableVbusChange, USBC_DisableVbusChange, USBC_EnableIdChange, USBC_DisableIdChange,
                   USBC_EnableDpDmChange, USBC_DisableDpDmChange} : ok("Line", 0, p)
      /\ \A m : ok("Line", 0, USBC_ForceId(m)) /\ ok("Line", 0, USBC_ForceVbusValid(m))
      /\ ok("IsChange", ISCR.VBUS_CHANGE_DETECT, USBC_IsVbusChange)
      /\ ok("IsChange", ISCR.ID_CHANGE_DETECT, USBC_IsIdChange)
      /\ ok("IsChange", ISCR.DPDM_CHANGE_DETECT, USBC_IsDpDmChange)
  <2>1. \A p \in {USBC_EnableIdPullUp, USBC_DisableIdPullUp, USBC_EnableDpDmPullUp, USBC_DisableDpDmPullUp,
                   USBC_EnableHosc, USBC_DisableHosc, USBC_EnableWakeIrq, USBC_DisableWakeIrq} : ok("Line", 0, p)
    BY <1>4 DEF line, ISCR, USBC_EnableIdPullUp, USBC_DisableIdPullUp, USBC_EnableDpDmPullUp,
      USBC_DisableDpDmPullUp, USBC_EnableHosc, USBC_DisableHosc, USBC_EnableWakeIrq, USBC_DisableWakeIrq
  <2>2. \A p \in {USBC_EnableVbusChange, USBC_DisableVbusChange, USBC_EnableIdChange, USBC_DisableIdChange,
                   USBC_EnableDpDmChange, USBC_DisableDpDmChange} : ok("Line", 0, p)
    BY <1>5 DEF line, ISCR, USBC_EnableVbusChange, USBC_DisableVbusChange, USBC_EnableIdChange,
      USBC_DisableIdChange, USBC_EnableDpDmChange, USBC_DisableDpDmChange
  <2>3. \A m : ok("Line", 0, USBC_ForceId(m)) /\ ok("Line", 0, USBC_ForceVbusValid(m))
    BY <1>6 DEF line, USBC_ForceId, USBC_ForceVbusValid, USBC_ForceIdDisable, USBC_ForceIdToLow,
      USBC_ForceIdToHigh, USBC_ForceVbusValidDisable, USBC_ForceVbusValidToLow, USBC_ForceVbusValidToHigh
  <2>4. /\ ok("IsChange", ISCR.VBUS_CHANGE_DETECT, USBC_IsVbusChange)
        /\ ok("IsChange", ISCR.ID_CHANGE_DETECT, USBC_IsIdChange)
        /\ ok("IsChange", ISCR.DPDM_CHANGE_DETECT, USBC_IsDpDmChange)
    BY <1>7 DEF line, ISCR, USBC_IsVbusChange, USBC_IsIdChange, USBC_IsDpDmChange
  <2> QED BY <2>1, <2>2, <2>3, <2>4
<1>9. \A f : \A reg \in OtgOthers : \A set \in SUBSET All :
        /\ Update(reg, All, set) \in OtgAllowed(NoTarget, f, 0)
        /\ Update(reg, {}, set) \in OtgAllowed(NoTarget, f, 0)
        /\ Update(reg, set, {}) \in OtgAllowed(NoTarget, f, 0)
  BY OtgOtherFacts, AccessForms
<1>10. {"INTUSB", "INTUSBE", "TMCTL"} \subseteq OtgOthers BY DEF OtgOthers
<1>11. /\ ok("ClearMisc", 0, USBC_INT_ClearMiscPending({2})) /\ ok("ClearMisc", 0, USBC_INT_ClearMiscPendingAll)
       /\ ok("Misc", 0, USBC_INT_EnableUsbMiscUint({0, 2})) /\ ok("Misc", 0, USBC_INT_DisableUsbMiscUint({0}))
       /\ ok("Misc", 0, USBC_INT_DisableUsbMiscAll)
  BY <1>3, <1>9, <1>10, SeqFacts, AccessForms DEF ok, USBC_INT_ClearMiscPending, USBC_INT_ClearMiscPendingAll,
     USBC_INT_EnableUsbMiscUint, USBC_INT_DisableUsbMiscUint, USBC_INT_DisableUsbMiscAll
<1>12. /\ ok("Test", 0, USBC_EnterMode_TestPacket) /\ ok("Test", 0, USBC_EnterMode_Test_K)
       /\ ok("Test", 0, USBC_EnterMode_Test_J) /\ ok("Test", 0, USBC_EnterMode_Test_SE0_NAK)
       /\ ok("Test", 0, USBC_EnterMode_Idle)
  BY <1>3, <1>9, <1>10, SeqFacts, AccessForms DEF ok, TMCTL, USBC_EnterMode_TestPacket, USBC_EnterMode_Test_K,
     USBC_EnterMode_Test_J, USBC_EnterMode_Test_SE0_NAK, USBC_EnterMode_Idle
<1>13. \E f, a, prog : c = CallOf(f, a, prog) /\ ok(f, a, prog)
  BY <1>8, <1>11, <1>12 DEF OtgGeneral
<1> QED BY <1>13 DEF CallOf, ok

-----------------------------------------------------------------------------
(* The calls of the two sides, each one of these programs.                 *)

(* The calls about endpoint 0 of the device side.                          *)
LEMMA DevEp0Calls ==
  ASSUME NEW c \in DevCalls("EP0")
  PROVE  Good("dev", "EP0", c.f, c.a, c.prog)
<1> DEFINE ok(f, a, prog) == Good("dev", "EP0", f, a, prog)
<1>1. \A f \in {"WriteDataStatus", "ReadDataStatus", "ConfigEpDma", "ClearEpDma"} : ok(f, 0, <<>>)
  BY Idle DEF Starters, Stoppers, Enders, Configurers
<1>2. "ConfigEp" \in Configurers BY DEF Configurers
<1>3. \A ty, n : \A d \in BOOLEAN : ok("ConfigEp", n, USBC_Dev_ConfigEp(ty, "EP0", d, n))
  BY <1>2, DevEp0, SwitchFacts DEF USBC_Dev_ConfigEp
<1>4. ok("ConfigEp_Default", 0, USBC_Dev_ConfigEp_Default("EP0"))
  BY DevEp0, SwitchFacts DEF USBC_Dev_ConfigEp_Default
<1>5. ok("FlushFifo", 0, USBC_Dev_FlushFifo("EP0"))
  BY DevEp0, SwitchFacts DEF USBC_Dev_FlushFifo
<1>6. ok("EpSendStall", 0, USBC_Dev_EpSendStall("EP0"))
  BY DevEp0, SwitchFacts DEF USBC_Dev_EpSendStall
<1>7. ok("EpClearStall", 0, USBC_Dev_EpClearStall("EP0"))
  BY DevEp0, SwitchFacts DEF USBC_Dev_EpClearStall
<1>8. ok("ConfigEpDma", 0, USBC_Dev_ConfigEpDma("EP0"))
  BY <1>1, SwitchFacts DEF USBC_Dev_ConfigEpDma
<1>9. ok("ClearEpDma", 0, USBC_Dev_ClearEpDma("EP0"))
  BY <1>1, SwitchFacts DEF USBC_Dev_ClearEpDma
<1>10. \A d \in BOOLEAN : ok("WriteDataStatus", 0, USBC_Dev_WriteDataStatus("EP0", d))
  BY DevEp0, SwitchFacts DEF USBC_Dev_WriteDataStatus, USBC_Dev_WriteDataHalf, USBC_Dev_WriteDataComplete
<1>11. \A d \in BOOLEAN : ok("ReadDataStatus", 0, USBC_Dev_ReadDataStatus("EP0", d))
  BY DevEp0, SwitchFacts DEF USBC_Dev_ReadDataStatus, USBC_Dev_ReadDataHalf, USBC_Dev_ReadDataComplete
<1> HIDE DEF ok
<1>12. \/ \E ty, n : \E d \in BOOLEAN : c = CallOf("ConfigEp", n, USBC_Dev_ConfigEp(ty, "EP0", d, n))
       \/ c = CallOf("ConfigEp_Default", 0, USBC_Dev_ConfigEp_Default("EP0"))
       \/ c = CallOf("FlushFifo", 0, USBC_Dev_FlushFifo("EP0"))
       \/ c = CallOf("EpSendStall", 0, USBC_Dev_EpSendStall("EP0"))
       \/ c = CallOf("EpClearStall", 0, USBC_Dev_EpClearStall("EP0"))
       \/ c = CallOf("ConfigEpDma", 0, USBC_Dev_ConfigEpDma("EP0"))
       \/ c = CallOf("ClearEpDma", 0, USBC_Dev_ClearEpDma("EP0"))
       \/ \E d \in BOOLEAN : c = CallOf("WriteDataStatus", 0, USBC_Dev_WriteDataStatus("EP0", d))
       \/ \E d \in BOOLEAN : c = CallOf("ReadDataStatus", 0, USBC_Dev_ReadDataStatus("EP0", d))
  BY SMT DEF DevCalls
<1>13. \E f, a, prog : c = CallOf(f, a, prog) /\ ok(f, a, prog)
  <2>1. CASE \E ty, n : \E d \in BOOLEAN : c = CallOf("ConfigEp", n, USBC_Dev_ConfigEp(ty, "EP0", d, n)) BY Zenon, <2>1, <1>3
  <2>2. CASE c = CallOf("ConfigEp_Default", 0, USBC_Dev_ConfigEp_Default("EP0")) BY Zenon, <2>2, <1>4
  <2>3. CASE c = CallOf("FlushFifo", 0, USBC_Dev_FlushFifo("EP0")) BY Zenon, <2>3, <1>5
  <2>4. CASE c = CallOf("EpSendStall", 0, USBC_Dev_EpSendStall("EP0")) BY Zenon, <2>4, <1>6
  <2>5. CASE c = CallOf("EpClearStall", 0, USBC_Dev_EpClearStall("EP0")) BY Zenon, <2>5, <1>7
  <2>6. CASE c = CallOf("ConfigEpDma", 0, USBC_Dev_ConfigEpDma("EP0")) BY Zenon, <2>6, <1>8
  <2>7. CASE c = CallOf("ClearEpDma", 0, USBC_Dev_ClearEpDma("EP0")) BY Zenon, <2>7, <1>9
  <2>8. CASE \E d \in BOOLEAN : c = CallOf("WriteDataStatus", 0, USBC_Dev_WriteDataStatus("EP0", d)) BY Zenon, <2>8, <1>10
  <2>9. CASE \E d \in BOOLEAN : c = CallOf("ReadDataStatus", 0, USBC_Dev_ReadDataStatus("EP0", d)) BY Zenon, <2>9, <1>11
  <2> QED BY Zenon, <1>12, <2>1, <2>2, <2>3, <2>4, <2>5, <2>6, <2>7, <2>8, <2>9
<1> QED BY <1>13 DEF CallOf, ok

(* The calls about its sending endpoints.                                  *)
LEMMA DevTxCalls ==
  ASSUME NEW c \in DevCalls("TX")
  PROVE  Good("dev", "TX", c.f, c.a, c.prog)
<1> DEFINE ok(f, a, prog) == Good("dev", "TX", f, a, prog)
<1>1. \A f \in {"WriteDataStatus", "ReadDataStatus"} : ok(f, 0, <<>>)
  BY Idle DEF Starters, Stoppers, Enders, Configurers
<1>2. "ConfigEp" \in Configurers BY DEF Configurers
<1>3. \A ty, n : \A d \in BOOLEAN : ok("ConfigEp", n, USBC_Dev_ConfigEp(ty, "TX", d, n))
  BY <1>2, DevTx, SwitchFacts DEF USBC_Dev_ConfigEp
<1>4. ok("ConfigEp_Default", 0, USBC_Dev_ConfigEp_Default("TX"))
  BY DevTx, SwitchFacts DEF USBC_Dev_ConfigEp_Default
<1>5. ok("FlushFifo", 0, USBC_Dev_FlushFifo("TX"))
  BY DevTx, SwitchFacts DEF USBC_Dev_FlushFifo
<1>6. ok("EpSendStall", 0, USBC_Dev_EpSendStall("TX"))
  BY DevTx, SwitchFacts DEF USBC_Dev_EpSendStall
<1>7. ok("EpClearStall", 0, USBC_Dev_EpClearStall("TX"))
  BY DevTx, SwitchFacts DEF USBC_Dev_EpClearStall
<1>8. ok("ConfigEpDma", 0, USBC_Dev_ConfigEpDma("TX"))
  BY DevTx, SwitchFacts DEF USBC_Dev_ConfigEpDma
<1>9. ok("ClearEpDma", 0, USBC_Dev_ClearEpDma("TX"))
  BY DevTx, SwitchFacts DEF USBC_Dev_ClearEpDma
<1>10. \A d \in BOOLEAN : ok("WriteDataStatus", 0, USBC_Dev_WriteDataStatus("TX", d))
  BY DevTx, SwitchFacts DEF USBC_Dev_WriteDataStatus, USBC_Dev_WriteDataHalf, USBC_Dev_WriteDataComplete
<1>11. \A d \in BOOLEAN : ok("ReadDataStatus", 0, USBC_Dev_ReadDataStatus("TX", d))
  BY <1>1, SwitchFacts DEF USBC_Dev_ReadDataStatus, USBC_Dev_ReadDataHalf, USBC_Dev_ReadDataComplete
<1> HIDE DEF ok
<1>12. \/ \E ty, n : \E d \in BOOLEAN : c = CallOf("ConfigEp", n, USBC_Dev_ConfigEp(ty, "TX", d, n))
       \/ c = CallOf("ConfigEp_Default", 0, USBC_Dev_ConfigEp_Default("TX"))
       \/ c = CallOf("FlushFifo", 0, USBC_Dev_FlushFifo("TX"))
       \/ c = CallOf("EpSendStall", 0, USBC_Dev_EpSendStall("TX"))
       \/ c = CallOf("EpClearStall", 0, USBC_Dev_EpClearStall("TX"))
       \/ c = CallOf("ConfigEpDma", 0, USBC_Dev_ConfigEpDma("TX"))
       \/ c = CallOf("ClearEpDma", 0, USBC_Dev_ClearEpDma("TX"))
       \/ \E d \in BOOLEAN : c = CallOf("WriteDataStatus", 0, USBC_Dev_WriteDataStatus("TX", d))
       \/ \E d \in BOOLEAN : c = CallOf("ReadDataStatus", 0, USBC_Dev_ReadDataStatus("TX", d))
  BY SMT DEF DevCalls
<1>13. \E f, a, prog : c = CallOf(f, a, prog) /\ ok(f, a, prog)
  <2>1. CASE \E ty, n : \E d \in BOOLEAN : c = CallOf("ConfigEp", n, USBC_Dev_ConfigEp(ty, "TX", d, n)) BY Zenon, <2>1, <1>3
  <2>2. CASE c = CallOf("ConfigEp_Default", 0, USBC_Dev_ConfigEp_Default("TX")) BY Zenon, <2>2, <1>4
  <2>3. CASE c = CallOf("FlushFifo", 0, USBC_Dev_FlushFifo("TX")) BY Zenon, <2>3, <1>5
  <2>4. CASE c = CallOf("EpSendStall", 0, USBC_Dev_EpSendStall("TX")) BY Zenon, <2>4, <1>6
  <2>5. CASE c = CallOf("EpClearStall", 0, USBC_Dev_EpClearStall("TX")) BY Zenon, <2>5, <1>7
  <2>6. CASE c = CallOf("ConfigEpDma", 0, USBC_Dev_ConfigEpDma("TX")) BY Zenon, <2>6, <1>8
  <2>7. CASE c = CallOf("ClearEpDma", 0, USBC_Dev_ClearEpDma("TX")) BY Zenon, <2>7, <1>9
  <2>8. CASE \E d \in BOOLEAN : c = CallOf("WriteDataStatus", 0, USBC_Dev_WriteDataStatus("TX", d)) BY Zenon, <2>8, <1>10
  <2>9. CASE \E d \in BOOLEAN : c = CallOf("ReadDataStatus", 0, USBC_Dev_ReadDataStatus("TX", d)) BY Zenon, <2>9, <1>11
  <2> QED BY Zenon, <1>12, <2>1, <2>2, <2>3, <2>4, <2>5, <2>6, <2>7, <2>8, <2>9
<1> QED BY <1>13 DEF CallOf, ok

(* The calls about its receiving endpoints.                                *)
LEMMA DevRxCalls ==
  ASSUME NEW c \in DevCalls("RX")
  PROVE  Good("dev", "RX", c.f, c.a, c.prog)
<1> DEFINE ok(f, a, prog) == Good("dev", "RX", f, a, prog)
<1>1. \A f \in {"WriteDataStatus", "ReadDataStatus"} : ok(f, 0, <<>>)
  BY Idle DEF Starters, Stoppers, Enders, Configurers
<1>2. "ConfigEp" \in Configurers BY DEF Configurers
<1>3. \A ty, n : \A d \in BOOLEAN : ok("ConfigEp", n, USBC_Dev_ConfigEp(ty, "RX", d, n))
  BY <1>2, DevRx, SwitchFacts DEF USBC_Dev_ConfigEp
<1>4. ok("ConfigEp_Default", 0, USBC_Dev_ConfigEp_Default("RX"))
  BY DevRx, SwitchFacts DEF USBC_Dev_ConfigEp_Default
<1>5. ok("FlushFifo", 0, USBC_Dev_FlushFifo("RX"))
  BY DevRx, SwitchFacts DEF USBC_Dev_FlushFifo
<1>6. ok("EpSendStall", 0, USBC_Dev_EpSendStall("RX"))
  BY DevRx, SwitchFacts DEF USBC_Dev_EpSendStall
<1>7. ok("EpClearStall", 0, USBC_Dev_EpClearStall("RX"))
  BY DevRx, SwitchFacts DEF USBC_Dev_EpClearStall
<1>8. ok("ConfigEpDma", 0, USBC_Dev_ConfigEpDma("RX"))
  BY DevRx, SwitchFacts DEF USBC_Dev_ConfigEpDma
<1>9. ok("ClearEpDma", 0, USBC_Dev_ClearEpDma("RX"))
  BY DevRx, SwitchFacts DEF USBC_Dev_ClearEpDma
<1>10. \A d \in BOOLEAN : ok("WriteDataStatus", 0, USBC_Dev_WriteDataStatus("RX", d))
  BY <1>1, SwitchFacts DEF USBC_Dev_WriteDataStatus, USBC_Dev_WriteDataHalf, USBC_Dev_WriteDataComplete
<1>11. \A d \in BOOLEAN : ok("ReadDataStatus", 0, USBC_Dev_ReadDataStatus("RX", d))
  BY DevRx, SwitchFacts DEF USBC_Dev_ReadDataStatus, USBC_Dev_ReadDataHalf, USBC_Dev_ReadDataComplete
<1> HIDE DEF ok
<1>12. \/ \E ty, n : \E d \in BOOLEAN : c = CallOf("ConfigEp", n, USBC_Dev_ConfigEp(ty, "RX", d, n))
       \/ c = CallOf("ConfigEp_Default", 0, USBC_Dev_ConfigEp_Default("RX"))
       \/ c = CallOf("FlushFifo", 0, USBC_Dev_FlushFifo("RX"))
       \/ c = CallOf("EpSendStall", 0, USBC_Dev_EpSendStall("RX"))
       \/ c = CallOf("EpClearStall", 0, USBC_Dev_EpClearStall("RX"))
       \/ c = CallOf("ConfigEpDma", 0, USBC_Dev_ConfigEpDma("RX"))
       \/ c = CallOf("ClearEpDma", 0, USBC_Dev_ClearEpDma("RX"))
       \/ \E d \in BOOLEAN : c = CallOf("WriteDataStatus", 0, USBC_Dev_WriteDataStatus("RX", d))
       \/ \E d \in BOOLEAN : c = CallOf("ReadDataStatus", 0, USBC_Dev_ReadDataStatus("RX", d))
  BY SMT DEF DevCalls
<1>13. \E f, a, prog : c = CallOf(f, a, prog) /\ ok(f, a, prog)
  <2>1. CASE \E ty, n : \E d \in BOOLEAN : c = CallOf("ConfigEp", n, USBC_Dev_ConfigEp(ty, "RX", d, n)) BY Zenon, <2>1, <1>3
  <2>2. CASE c = CallOf("ConfigEp_Default", 0, USBC_Dev_ConfigEp_Default("RX")) BY Zenon, <2>2, <1>4
  <2>3. CASE c = CallOf("FlushFifo", 0, USBC_Dev_FlushFifo("RX")) BY Zenon, <2>3, <1>5
  <2>4. CASE c = CallOf("EpSendStall", 0, USBC_Dev_EpSendStall("RX")) BY Zenon, <2>4, <1>6
  <2>5. CASE c = CallOf("EpClearStall", 0, USBC_Dev_EpClearStall("RX")) BY Zenon, <2>5, <1>7
  <2>6. CASE c = CallOf("ConfigEpDma", 0, USBC_Dev_ConfigEpDma("RX")) BY Zenon, <2>6, <1>8
  <2>7. CASE c = CallOf("ClearEpDma", 0, USBC_Dev_ClearEpDma("RX")) BY Zenon, <2>7, <1>9
  <2>8. CASE \E d \in BOOLEAN : c = CallOf("WriteDataStatus", 0, USBC_Dev_WriteDataStatus("RX", d)) BY Zenon, <2>8, <1>10
  <2>9. CASE \E d \in BOOLEAN : c = CallOf("ReadDataStatus", 0, USBC_Dev_ReadDataStatus("RX", d)) BY Zenon, <2>9, <1>11
  <2> QED BY Zenon, <1>12, <2>1, <2>2, <2>3, <2>4, <2>5, <2>6, <2>7, <2>8, <2>9
<1> QED BY <1>13 DEF CallOf, ok

(* The functions that write the registers with addresses of their own.     *)
AddressPrograms(t, ep) ==
  {USBC_Host_SetFunctionAddress(t, ep, 3, ManyTT, 1, 2), USBC_Host_SetFunctionAddress_Deafult(t, ep),
   USBC_Host_SetHubAddress(t, ep, OneTT, 1) \o USBC_Host_SetHPortAddress(t, ep, 2),
   USBC_Host_SetHubAddress_Deafult(t, ep) \o USBC_Host_SetHPortAddress_Deafult(t, ep),
   USBC_Host_ConfigRqPktCount(ep, 1), USBC_Host_ClearRqPktCount(ep)}

(* The calls about the addresses of the device at the other end.           *)
LEMMA AddressCalls ==
  ASSUME NEW g, NEW t \in {"EP0", "TX", "RX"}, NEW ep \in Eps, NEW f \in {"Address", "RqPktCount"},
         NEW prog \in AddressPrograms(t, ep)
  PROVE  Good(g, t, f, 0, prog)
<1> DEFINE S == Allowed(g, t, f, 0)
           hub(m) == Bits(1) \cup (IF m THEN {7} ELSE {})
<1>1. \A reg \in Addressed : \A set \in SUBSET All : WriteAt(reg, ep, set) \in S
  <2>1. ep \in Int BY TargetFacts
  <2>2. Addressed \subseteq Layout BY DEF Layout
  <2> QED BY <2>1, <2>2 DEF Allowed, Accesses, WriteAt
<1>2. /\ {} \in SUBSET All /\ \A n : Bits(n) \in SUBSET All
      /\ hub(ManyTT) \in SUBSET All /\ hub(OneTT) \in SUBSET All
  BY BitsType DEF All
<1>3. /\ "TXFADDR" \in Addressed /\ "TXHADDR" \in Addressed /\ "TXHPORT" \in Addressed
      /\ "RXFADDR" \in Addressed /\ "RXHADDR" \in Addressed /\ "RXHPORT" \in Addressed /\ "RPCOUNT" \in Addressed
  BY DEF Addressed
<1> HIDE DEF S
<1>4. /\ USBC_Host_SetFunctionAddress(t, ep, 3, ManyTT, 1, 2) \in Seq(S)
      /\ USBC_Host_SetFunctionAddress_Deafult(t, ep) \in Seq(S)
      /\ USBC_Host_SetHubAddress(t, ep, OneTT, 1) \in Seq(S) /\ USBC_Host_SetHPortAddress(t, ep, 2) \in Seq(S)
      /\ USBC_Host_SetHubAddress_Deafult(t, ep) \in Seq(S) /\ USBC_Host_SetHPortAddress_Deafult(t, ep) \in Seq(S)
  <2>1. /\ USBC_Host_SetFunctionAddress(t, ep, 3, ManyTT, 1, 2) =
             Switch(t, <<>>, <<WriteAt("TXFADDR", ep, Bits(3)), WriteAt("TXHADDR", ep, hub(ManyTT)), WriteAt("TXHPORT", ep, Bits(2))>>,
                             <<WriteAt("RXFADDR", ep, Bits(3)), WriteAt("RXHADDR", ep, hub(ManyTT)), WriteAt("RXHPORT", ep, Bits(2))>>)
        /\ USBC_Host_SetHubAddress(t, ep, OneTT, 1) =
             Switch(t, <<>>, <<WriteAt("TXHADDR", ep, hub(OneTT))>>, <<WriteAt("RXHADDR", ep, hub(OneTT))>>)
    BY DEF USBC_Host_SetFunctionAddress, USBC_Host_SetHubAddress
  <2> DEFINE fa == USBC_Host_SetFunctionAddress(t, ep, 3, ManyTT, 1, 2)
             ha == USBC_Host_SetHubAddress(t, ep, OneTT, 1)
  <2> HIDE DEF fa, ha, hub
  <2>2. fa \in Seq(S) /\ ha \in Seq(S)
    <3> DEFINE h == hub(ManyTT)
               k == hub(OneTT)
    <3>1. h \in SUBSET All /\ k \in SUBSET All BY <1>2
    <3>2. fa = Switch(t, <<>>, <<WriteAt("TXFADDR", ep, Bits(3)), WriteAt("TXHADDR", ep, h), WriteAt("TXHPORT", ep, Bits(2))>>,
                             <<WriteAt("RXFADDR", ep, Bits(3)), WriteAt("RXHADDR", ep, h), WriteAt("RXHPORT", ep, Bits(2))>>)
      BY <2>1 DEF fa
    <3>3. ha = Switch(t, <<>>, <<WriteAt("TXHADDR", ep, k)>>, <<WriteAt("RXHADDR", ep, k)>>) BY <2>1 DEF ha
    <3> HIDE DEF h, k
    <3>4. \A p, q, r : p \in Seq(S) /\ q \in Seq(S) /\ r \in Seq(S) => Switch(t, p, q, r) \in Seq(S) BY SwitchFacts
    <3> QED BY <1>1, <1>2, <1>3, <3>1, <3>2, <3>3, <3>4, SeqFacts
  <2>3. /\ USBC_Host_SetFunctionAddress_Deafult(t, ep) \in Seq(S) /\ USBC_Host_SetHPortAddress(t, ep, 2) \in Seq(S)
        /\ USBC_Host_SetHubAddress_Deafult(t, ep) \in Seq(S) /\ USBC_Host_SetHPortAddress_Deafult(t, ep) \in Seq(S)
    <3>1. \A p, q, r : p \in Seq(S) /\ q \in Seq(S) /\ r \in Seq(S) => Switch(t, p, q, r) \in Seq(S) BY SwitchFacts
    <3> QED BY <1>1, <1>2, <1>3, <3>1, SeqFacts DEF USBC_Host_SetFunctionAddress_Deafult,
       USBC_Host_SetHPortAddress, USBC_Host_SetHubAddress_Deafult, USBC_Host_SetHPortAddress_Deafult
  <2> QED BY <2>2, <2>3 DEF fa, ha
<1>5. USBC_Host_ConfigRqPktCount(ep, 1) \in Seq(S) /\ USBC_Host_ClearRqPktCount(ep) \in Seq(S)
  BY <1>1, <1>2, <1>3, SeqFacts DEF USBC_Host_ConfigRqPktCount, USBC_Host_ClearRqPktCount
<1>6. prog \in Seq(S) BY <1>4, <1>5, SeqFacts DEF AddressPrograms
<1>7. Does(g, t, f, prog) BY DEF Does, Starters, Stoppers, Enders, Configurers
<1> QED BY <1>6, <1>7 DEF Good, S

(* The calls of the host side about an endpoint, one by one.               *)
LEMMA HostCallForms ==
  ASSUME NEW t, NEW ep, NEW c \in HostCalls(t, ep)
  PROVE  \/ \E m, ty, k : c = CallOf("ConfigEp", k, USBC_Host_ConfigEp(t, ep, m, ty, DoubleFifo, k, 8))
         \/ c = CallOf("ConfigEp_Default", 0, USBC_Host_ConfigEp_Default(t))
         \/ c = CallOf("FlushFifo", 0, USBC_Host_FlushFifo(t))
         \/ c = CallOf("ConfigEpDma", 0, USBC_Host_ConfigEpDma(t))
         \/ c = CallOf("ClearEpDma", 0, USBC_Host_ClearEpDma(t))
         \/ c = CallOf("ClearEpNakTimeOut", 0, USBC_Host_ClearEpNakTimeOut(t))
         \/ c = CallOf("ClearEpError", 0, USBC_Host_ClearEpError(t))
         \/ c = CallOf("ClearEpStall", 0, USBC_Host_ClearEpStall(t))
         \/ c = CallOf("ClearEpCSR", 0, USBC_Host_ClearEpCSR(t))
         \/ c = CallOf("StartInToken", 0, USBC_Host_StartInToken(t))
         \/ c = CallOf("StopInToken", 0, USBC_Host_StopInToken(t))
         \/ \E d \in BOOLEAN : c = CallOf("WriteDataStatus", 0, USBC_Host_WriteDataStatus(t, d))
         \/ \E d \in BOOLEAN : c = CallOf("ReadDataStatus", 0, USBC_Host_ReadDataStatus(t, d))
         \/ \E f, prog : c = CallOf(f, 0, prog) /\ f \in {"Address", "RqPktCount"} /\ prog \in AddressPrograms(t, ep)
<1> DEFINE configs == {CallOf("ConfigEp", n, USBC_Host_ConfigEp(t, ep, m, ty, DoubleFifo, n, 8)) :
                        m \in {"HS", "LS"}, ty \in {"BULK", "INT"}, n \in Sizes}
           writes == {CallOf("WriteDataStatus", 0, USBC_Host_WriteDataStatus(t, d)) : d \in BOOLEAN}
           reads == {CallOf("ReadDataStatus", 0, USBC_Host_ReadDataStatus(t, d)) : d \in BOOLEAN}
           plain ==
             {CallOf("ConfigEp_Default", 0, USBC_Host_ConfigEp_Default(t)),
              CallOf("FlushFifo", 0, USBC_Host_FlushFifo(t)),
              CallOf("ConfigEpDma", 0, USBC_Host_ConfigEpDma(t)),
              CallOf("ClearEpDma", 0, USBC_Host_ClearEpDma(t)),
              CallOf("ClearEpNakTimeOut", 0, USBC_Host_ClearEpNakTimeOut(t)),
              CallOf("ClearEpError", 0, USBC_Host_ClearEpError(t)),
              CallOf("ClearEpStall", 0, USBC_Host_ClearEpStall(t)),
              CallOf("ClearEpCSR", 0, USBC_Host_ClearEpCSR(t)),
              CallOf("StartInToken", 0, USBC_Host_StartInToken(t)),
              CallOf("StopInToken", 0, USBC_Host_StopInToken(t)),
              CallOf("Address", 0, USBC_Host_SetFunctionAddress(t, ep, 3, ManyTT, 1, 2)),
              CallOf("Address", 0, USBC_Host_SetFunctionAddress_Deafult(t, ep)),
              CallOf("Address", 0, USBC_Host_SetHubAddress(t, ep, OneTT, 1)
                                   \o USBC_Host_SetHPortAddress(t, ep, 2)),
              CallOf("Address", 0, USBC_Host_SetHubAddress_Deafult(t, ep)
                                   \o USBC_Host_SetHPortAddress_Deafult(t, ep)),
              CallOf("RqPktCount", 0, USBC_Host_ConfigRqPktCount(ep, 1)),
              CallOf("RqPktCount", 0, USBC_Host_ClearRqPktCount(ep))}
<1>1. c \in configs \cup plain \cup writes \cup reads
  <2>1. HostCalls(t, ep) = configs \cup plain \cup writes \cup reads BY SMT DEF HostCalls
  <2> QED BY <2>1
<1>2. c \in configs => \E m, ty, k : c = CallOf("ConfigEp", k, USBC_Host_ConfigEp(t, ep, m, ty, DoubleFifo, k, 8))
  BY SMT
<1>3. c \in writes => \E d \in BOOLEAN : c = CallOf("WriteDataStatus", 0, USBC_Host_WriteDataStatus(t, d)) OBVIOUS
<1>4. c \in reads => \E d \in BOOLEAN : c = CallOf("ReadDataStatus", 0, USBC_Host_ReadDataStatus(t, d)) OBVIOUS
<1> DEFINE addressed == \E f, prog : c = CallOf(f, 0, prog) /\ f \in {"Address", "RqPktCount"} /\ prog \in AddressPrograms(t, ep)
<1>5. c \in plain => addressed
         \/ c = CallOf("ConfigEp_Default", 0, USBC_Host_ConfigEp_Default(t))
         \/ c = CallOf("FlushFifo", 0, USBC_Host_FlushFifo(t))
         \/ c = CallOf("ConfigEpDma", 0, USBC_Host_ConfigEpDma(t))
         \/ c = CallOf("ClearEpDma", 0, USBC_Host_ClearEpDma(t))
         \/ c = CallOf("ClearEpNakTimeOut", 0, USBC_Host_ClearEpNakTimeOut(t))
         \/ c = CallOf("ClearEpError", 0, USBC_Host_ClearEpError(t))
         \/ c = CallOf("ClearEpStall", 0, USBC_Host_ClearEpStall(t))
         \/ c = CallOf("ClearEpCSR", 0, USBC_Host_ClearEpCSR(t))
         \/ c = CallOf("StartInToken", 0, USBC_Host_StartInToken(t))
         \/ c = CallOf("StopInToken", 0, USBC_Host_StopInToken(t))
  BY Zenon DEF AddressPrograms
<1> HIDE DEF configs, writes, reads, plain
<1> QED BY Zenon, <1>1, <1>2, <1>3, <1>4, <1>5

(* The host side at endpoint 0.                              *)
LEMMA HostEp0Calls ==
  ASSUME NEW ep \in Eps, NEW c \in HostCalls("EP0", ep)
  PROVE  Good("host", "EP0", c.f, c.a, c.prog)
<1> DEFINE ok(f, a, prog) == Good("host", "EP0", f, a, prog)
           config(m, ty, k) == USBC_Host_ConfigEp("EP0", ep, m, ty, DoubleFifo, k, 8)
<1>1. \A f \in {"WriteDataStatus", "ReadDataStatus", "ConfigEpDma", "ClearEpDma"} : ok(f, 0, <<>>)
  BY Idle DEF Starters, Stoppers, Enders, Configurers, CommandBit, NoBit
<1>2. \A m, ty, k : ok("ConfigEp", k, config(m, ty, k))
  <2>1. \A m, ty, k : config(m, ty, k) = USBC_Host_ep0_ConfigEp(m, 8) BY SwitchFacts DEF USBC_Host_ConfigEp
  <2> QED BY <2>1, HostEp0
<1>3. ok("ConfigEp_Default", 0, USBC_Host_ConfigEp_Default("EP0"))
  BY HostEp0,  SwitchFacts DEF USBC_Host_ConfigEp_Default
<1>4. ok("FlushFifo", 0, USBC_Host_FlushFifo("EP0"))
  BY HostEp0,  SwitchFacts DEF USBC_Host_FlushFifo
<1>5. ok("ConfigEpDma", 0, USBC_Host_ConfigEpDma("EP0"))
  BY <1>1, SwitchFacts DEF USBC_Host_ConfigEpDma
<1>6. ok("ClearEpDma", 0, USBC_Host_ClearEpDma("EP0"))
  BY <1>1, SwitchFacts DEF USBC_Host_ClearEpDma
<1>7. ok("ClearEpNakTimeOut", 0, USBC_Host_ClearEpNakTimeOut("EP0"))
  BY HostEp0,  SwitchFacts DEF USBC_Host_ClearEpNakTimeOut
<1>8. ok("ClearEpError", 0, USBC_Host_ClearEpError("EP0"))
  BY HostEp0,  SwitchFacts DEF USBC_Host_ClearEpError
<1>9. ok("ClearEpStall", 0, USBC_Host_ClearEpStall("EP0"))
  BY HostEp0,  SwitchFacts DEF USBC_Host_ClearEpStall
<1>10. ok("ClearEpCSR", 0, USBC_Host_ClearEpCSR("EP0"))
  BY HostEp0,  SwitchFacts DEF USBC_Host_ClearEpCSR
<1>11. ok("StartInToken", 0, USBC_Host_StartInToken("EP0"))
  BY HostEp0,  SwitchFacts DEF USBC_Host_StartInToken
<1>12. ok("StopInToken", 0, USBC_Host_StopInToken("EP0"))
  BY HostEp0,  SwitchFacts DEF USBC_Host_StopInToken
<1>13. \A d \in BOOLEAN : ok("WriteDataStatus", 0, USBC_Host_WriteDataStatus("EP0", d))
  BY HostEp0,  SwitchFacts DEF USBC_Host_WriteDataStatus, USBC_Host_WriteDataHalf, USBC_Host_WriteDataComplete
<1>14. \A d \in BOOLEAN : ok("ReadDataStatus", 0, USBC_Host_ReadDataStatus("EP0", d))
  BY HostEp0,  SwitchFacts DEF USBC_Host_ReadDataStatus, USBC_Host_ReadDataHalf, USBC_Host_ReadDataComplete
<1> DEFINE addressed(f, prog) == f \in {"Address", "RqPktCount"} /\ prog \in AddressPrograms("EP0", ep)
<1>15. \A f, prog : addressed(f, prog) => ok(f, 0, prog) BY AddressCalls
<1> HIDE DEF ok, config
<1>16. \/ \E m, ty, k : c = CallOf("ConfigEp", k, config(m, ty, k))
       \/ c = CallOf("ConfigEp_Default", 0, USBC_Host_ConfigEp_Default("EP0"))
       \/ c = CallOf("FlushFifo", 0, USBC_Host_FlushFifo("EP0"))
       \/ c = CallOf("ConfigEpDma", 0, USBC_Host_ConfigEpDma("EP0"))
       \/ c = CallOf("ClearEpDma", 0, USBC_Host_ClearEpDma("EP0"))
       \/ c = CallOf("ClearEpNakTimeOut", 0, USBC_Host_ClearEpNakTimeOut("EP0"))
       \/ c = CallOf("ClearEpError", 0, USBC_Host_ClearEpError("EP0"))
       \/ c = CallOf("ClearEpStall", 0, USBC_Host_ClearEpStall("EP0"))
       \/ c = CallOf("ClearEpCSR", 0, USBC_Host_ClearEpCSR("EP0"))
       \/ c = CallOf("StartInToken", 0, USBC_Host_StartInToken("EP0"))
       \/ c = CallOf("StopInToken", 0, USBC_Host_StopInToken("EP0"))
       \/ \E d \in BOOLEAN : c = CallOf("WriteDataStatus", 0, USBC_Host_WriteDataStatus("EP0", d))
       \/ \E d \in BOOLEAN : c = CallOf("ReadDataStatus", 0, USBC_Host_ReadDataStatus("EP0", d))
       \/ \E f, prog : c = CallOf(f, 0, prog) /\ addressed(f, prog)
  BY Zenon, HostCallForms DEF config
<1> HIDE DEF addressed
<1>17. \E f, a, prog : c = CallOf(f, a, prog) /\ ok(f, a, prog)
  <2>1. CASE \E m, ty, k : c = CallOf("ConfigEp", k, config(m, ty, k)) BY Zenon, <2>1, <1>2
  <2>2. CASE c = CallOf("ConfigEp_Default", 0, USBC_Host_ConfigEp_Default("EP0")) BY Zenon, <2>2, <1>3
  <2>3. CASE c = CallOf("FlushFifo", 0, USBC_Host_FlushFifo("EP0")) BY Zenon, <2>3, <1>4
  <2>4. CASE c = CallOf("ConfigEpDma", 0, USBC_Host_ConfigEpDma("EP0")) BY Zenon, <2>4, <1>5
  <2>5. CASE c = CallOf("ClearEpDma", 0, USBC_Host_ClearEpDma("EP0")) BY Zenon, <2>5, <1>6
  <2>6. CASE c = CallOf("ClearEpNakTimeOut", 0, USBC_Host_ClearEpNakTimeOut("EP0")) BY Zenon, <2>6, <1>7
  <2>7. CASE c = CallOf("ClearEpError", 0, USBC_Host_ClearEpError("EP0")) BY Zenon, <2>7, <1>8
  <2>8. CASE c = CallOf("ClearEpStall", 0, USBC_Host_ClearEpStall("EP0")) BY Zenon, <2>8, <1>9
  <2>9. CASE c = CallOf("ClearEpCSR", 0, USBC_Host_ClearEpCSR("EP0")) BY Zenon, <2>9, <1>10
  <2>10. CASE c = CallOf("StartInToken", 0, USBC_Host_StartInToken("EP0")) BY Zenon, <2>10, <1>11
  <2>11. CASE c = CallOf("StopInToken", 0, USBC_Host_StopInToken("EP0")) BY Zenon, <2>11, <1>12
  <2>12. CASE \E d \in BOOLEAN : c = CallOf("WriteDataStatus", 0, USBC_Host_WriteDataStatus("EP0", d)) BY Zenon, <2>12, <1>13
  <2>13. CASE \E d \in BOOLEAN : c = CallOf("ReadDataStatus", 0, USBC_Host_ReadDataStatus("EP0", d)) BY Zenon, <2>13, <1>14
  <2>14. CASE \E f, prog : c = CallOf(f, 0, prog) /\ addressed(f, prog) BY Zenon, <2>14, <1>15
  <2> QED BY Zenon, <1>16, <2>1, <2>2, <2>3, <2>4, <2>5, <2>6, <2>7, <2>8, <2>9, <2>10, <2>11, <2>12, <2>13, <2>14
<1> QED BY <1>17 DEF CallOf, ok

(* The host side at an OUT endpoint.                              *)
LEMMA HostTxCalls ==
  ASSUME NEW ep \in Eps, NEW c \in HostCalls("TX", ep)
  PROVE  Good("host", "TX", c.f, c.a, c.prog)
<1> DEFINE ok(f, a, prog) == Good("host", "TX", f, a, prog)
           config(m, ty, k) == USBC_Host_ConfigEp("TX", ep, m, ty, DoubleFifo, k, 8)
<1>1. \A f \in {"WriteDataStatus", "ReadDataStatus", "StartInToken", "StopInToken"} : ok(f, 0, <<>>)
  BY Idle DEF Starters, Stoppers, Enders, Configurers, CommandBit, NoBit
<1>2. \A m, ty, k : ok("ConfigEp", k, config(m, ty, k))
  <2>1. \A m, ty, k : config(m, ty, k) = USBC_Host_Tx_ConfigEp(ep, m, ty, DoubleFifo, k, 8) BY SwitchFacts DEF USBC_Host_ConfigEp
  <2> QED BY <2>1, HostTx
<1>3. ok("ConfigEp_Default", 0, USBC_Host_ConfigEp_Default("TX"))
  BY HostTx,  SwitchFacts DEF USBC_Host_ConfigEp_Default
<1>4. ok("FlushFifo", 0, USBC_Host_FlushFifo("TX"))
  BY HostTx,  SwitchFacts DEF USBC_Host_FlushFifo
<1>5. ok("ConfigEpDma", 0, USBC_Host_ConfigEpDma("TX"))
  BY HostTx,  SwitchFacts DEF USBC_Host_ConfigEpDma
<1>6. ok("ClearEpDma", 0, USBC_Host_ClearEpDma("TX"))
  BY HostTx,  SwitchFacts DEF USBC_Host_ClearEpDma
<1>7. ok("ClearEpNakTimeOut", 0, USBC_Host_ClearEpNakTimeOut("TX"))
  BY HostTx,  SwitchFacts DEF USBC_Host_ClearEpNakTimeOut
<1>8. ok("ClearEpError", 0, USBC_Host_ClearEpError("TX"))
  BY HostTx,  SwitchFacts DEF USBC_Host_ClearEpError
<1>9. ok("ClearEpStall", 0, USBC_Host_ClearEpStall("TX"))
  BY HostTx,  SwitchFacts DEF USBC_Host_ClearEpStall
<1>10. ok("ClearEpCSR", 0, USBC_Host_ClearEpCSR("TX"))
  BY HostTx,  SwitchFacts DEF USBC_Host_ClearEpCSR
<1>11. ok("StartInToken", 0, USBC_Host_StartInToken("TX"))
  BY <1>1, SwitchFacts DEF USBC_Host_StartInToken
<1>12. ok("StopInToken", 0, USBC_Host_StopInToken("TX"))
  BY <1>1, SwitchFacts DEF USBC_Host_StopInToken
<1>13. \A d \in BOOLEAN : ok("WriteDataStatus", 0, USBC_Host_WriteDataStatus("TX", d))
  BY HostTx,  SwitchFacts DEF USBC_Host_WriteDataStatus, USBC_Host_WriteDataHalf, USBC_Host_WriteDataComplete
<1>14. \A d \in BOOLEAN : ok("ReadDataStatus", 0, USBC_Host_ReadDataStatus("TX", d))
  BY <1>1, SwitchFacts DEF USBC_Host_ReadDataStatus, USBC_Host_ReadDataHalf, USBC_Host_ReadDataComplete
<1> DEFINE addressed(f, prog) == f \in {"Address", "RqPktCount"} /\ prog \in AddressPrograms("TX", ep)
<1>15. \A f, prog : addressed(f, prog) => ok(f, 0, prog) BY AddressCalls
<1> HIDE DEF ok, config
<1>16. \/ \E m, ty, k : c = CallOf("ConfigEp", k, config(m, ty, k))
       \/ c = CallOf("ConfigEp_Default", 0, USBC_Host_ConfigEp_Default("TX"))
       \/ c = CallOf("FlushFifo", 0, USBC_Host_FlushFifo("TX"))
       \/ c = CallOf("ConfigEpDma", 0, USBC_Host_ConfigEpDma("TX"))
       \/ c = CallOf("ClearEpDma", 0, USBC_Host_ClearEpDma("TX"))
       \/ c = CallOf("ClearEpNakTimeOut", 0, USBC_Host_ClearEpNakTimeOut("TX"))
       \/ c = CallOf("ClearEpError", 0, USBC_Host_ClearEpError("TX"))
       \/ c = CallOf("ClearEpStall", 0, USBC_Host_ClearEpStall("TX"))
       \/ c = CallOf("ClearEpCSR", 0, USBC_Host_ClearEpCSR("TX"))
       \/ c = CallOf("StartInToken", 0, USBC_Host_StartInToken("TX"))
       \/ c = CallOf("StopInToken", 0, USBC_Host_StopInToken("TX"))
       \/ \E d \in BOOLEAN : c = CallOf("WriteDataStatus", 0, USBC_Host_WriteDataStatus("TX", d))
       \/ \E d \in BOOLEAN : c = CallOf("ReadDataStatus", 0, USBC_Host_ReadDataStatus("TX", d))
       \/ \E f, prog : c = CallOf(f, 0, prog) /\ addressed(f, prog)
  BY Zenon, HostCallForms DEF config
<1> HIDE DEF addressed
<1>17. \E f, a, prog : c = CallOf(f, a, prog) /\ ok(f, a, prog)
  <2>1. CASE \E m, ty, k : c = CallOf("ConfigEp", k, config(m, ty, k)) BY Zenon, <2>1, <1>2
  <2>2. CASE c = CallOf("ConfigEp_Default", 0, USBC_Host_ConfigEp_Default("TX")) BY Zenon, <2>2, <1>3
  <2>3. CASE c = CallOf("FlushFifo", 0, USBC_Host_FlushFifo("TX")) BY Zenon, <2>3, <1>4
  <2>4. CASE c = CallOf("ConfigEpDma", 0, USBC_Host_ConfigEpDma("TX")) BY Zenon, <2>4, <1>5
  <2>5. CASE c = CallOf("ClearEpDma", 0, USBC_Host_ClearEpDma("TX")) BY Zenon, <2>5, <1>6
  <2>6. CASE c = CallOf("ClearEpNakTimeOut", 0, USBC_Host_ClearEpNakTimeOut("TX")) BY Zenon, <2>6, <1>7
  <2>7. CASE c = CallOf("ClearEpError", 0, USBC_Host_ClearEpError("TX")) BY Zenon, <2>7, <1>8
  <2>8. CASE c = CallOf("ClearEpStall", 0, USBC_Host_ClearEpStall("TX")) BY Zenon, <2>8, <1>9
  <2>9. CASE c = CallOf("ClearEpCSR", 0, USBC_Host_ClearEpCSR("TX")) BY Zenon, <2>9, <1>10
  <2>10. CASE c = CallOf("StartInToken", 0, USBC_Host_StartInToken("TX")) BY Zenon, <2>10, <1>11
  <2>11. CASE c = CallOf("StopInToken", 0, USBC_Host_StopInToken("TX")) BY Zenon, <2>11, <1>12
  <2>12. CASE \E d \in BOOLEAN : c = CallOf("WriteDataStatus", 0, USBC_Host_WriteDataStatus("TX", d)) BY Zenon, <2>12, <1>13
  <2>13. CASE \E d \in BOOLEAN : c = CallOf("ReadDataStatus", 0, USBC_Host_ReadDataStatus("TX", d)) BY Zenon, <2>13, <1>14
  <2>14. CASE \E f, prog : c = CallOf(f, 0, prog) /\ addressed(f, prog) BY Zenon, <2>14, <1>15
  <2> QED BY Zenon, <1>16, <2>1, <2>2, <2>3, <2>4, <2>5, <2>6, <2>7, <2>8, <2>9, <2>10, <2>11, <2>12, <2>13, <2>14
<1> QED BY <1>17 DEF CallOf, ok

(* The host side at an IN endpoint.                              *)
LEMMA HostRxCalls ==
  ASSUME NEW ep \in Eps, NEW c \in HostCalls("RX", ep)
  PROVE  Good("host", "RX", c.f, c.a, c.prog)
<1> DEFINE ok(f, a, prog) == Good("host", "RX", f, a, prog)
           config(m, ty, k) == USBC_Host_ConfigEp("RX", ep, m, ty, DoubleFifo, k, 8)
<1>1. \A f \in {"WriteDataStatus", "ReadDataStatus"} : ok(f, 0, <<>>)
  BY Idle DEF Starters, Stoppers, Enders, Configurers, CommandBit, NoBit
<1>2. \A m, ty, k : ok("ConfigEp", k, config(m, ty, k))
  <2>1. \A m, ty, k : config(m, ty, k) = USBC_Host_Rx_ConfigEp(ep, m, ty, DoubleFifo, k, 8) BY SwitchFacts DEF USBC_Host_ConfigEp
  <2> QED BY <2>1, HostRx
<1>3. ok("ConfigEp_Default", 0, USBC_Host_ConfigEp_Default("RX"))
  BY HostRx,  SwitchFacts DEF USBC_Host_ConfigEp_Default
<1>4. ok("FlushFifo", 0, USBC_Host_FlushFifo("RX"))
  BY HostRx,  SwitchFacts DEF USBC_Host_FlushFifo
<1>5. ok("ConfigEpDma", 0, USBC_Host_ConfigEpDma("RX"))
  BY HostRx,  SwitchFacts DEF USBC_Host_ConfigEpDma
<1>6. ok("ClearEpDma", 0, USBC_Host_ClearEpDma("RX"))
  BY HostRx,  SwitchFacts DEF USBC_Host_ClearEpDma
<1>7. ok("ClearEpNakTimeOut", 0, USBC_Host_ClearEpNakTimeOut("RX"))
  BY HostRx,  SwitchFacts DEF USBC_Host_ClearEpNakTimeOut
<1>8. ok("ClearEpError", 0, USBC_Host_ClearEpError("RX"))
  BY HostRx,  SwitchFacts DEF USBC_Host_ClearEpError
<1>9. ok("ClearEpStall", 0, USBC_Host_ClearEpStall("RX"))
  BY HostRx,  SwitchFacts DEF USBC_Host_ClearEpStall
<1>10. ok("ClearEpCSR", 0, USBC_Host_ClearEpCSR("RX"))
  BY HostRx,  SwitchFacts DEF USBC_Host_ClearEpCSR
<1>11. ok("StartInToken", 0, USBC_Host_StartInToken("RX"))
  BY HostRx,  SwitchFacts DEF USBC_Host_StartInToken
<1>12. ok("StopInToken", 0, USBC_Host_StopInToken("RX"))
  BY HostRx,  SwitchFacts DEF USBC_Host_StopInToken
<1>13. \A d \in BOOLEAN : ok("WriteDataStatus", 0, USBC_Host_WriteDataStatus("RX", d))
  BY <1>1, SwitchFacts DEF USBC_Host_WriteDataStatus, USBC_Host_WriteDataHalf, USBC_Host_WriteDataComplete
<1>14. \A d \in BOOLEAN : ok("ReadDataStatus", 0, USBC_Host_ReadDataStatus("RX", d))
  BY HostRx,  SwitchFacts DEF USBC_Host_ReadDataStatus, USBC_Host_ReadDataHalf, USBC_Host_ReadDataComplete
<1> DEFINE addressed(f, prog) == f \in {"Address", "RqPktCount"} /\ prog \in AddressPrograms("RX", ep)
<1>15. \A f, prog : addressed(f, prog) => ok(f, 0, prog) BY AddressCalls
<1> HIDE DEF ok, config
<1>16. \/ \E m, ty, k : c = CallOf("ConfigEp", k, config(m, ty, k))
       \/ c = CallOf("ConfigEp_Default", 0, USBC_Host_ConfigEp_Default("RX"))
       \/ c = CallOf("FlushFifo", 0, USBC_Host_FlushFifo("RX"))
       \/ c = CallOf("ConfigEpDma", 0, USBC_Host_ConfigEpDma("RX"))
       \/ c = CallOf("ClearEpDma", 0, USBC_Host_ClearEpDma("RX"))
       \/ c = CallOf("ClearEpNakTimeOut", 0, USBC_Host_ClearEpNakTimeOut("RX"))
       \/ c = CallOf("ClearEpError", 0, USBC_Host_ClearEpError("RX"))
       \/ c = CallOf("ClearEpStall", 0, USBC_Host_ClearEpStall("RX"))
       \/ c = CallOf("ClearEpCSR", 0, USBC_Host_ClearEpCSR("RX"))
       \/ c = CallOf("StartInToken", 0, USBC_Host_StartInToken("RX"))
       \/ c = CallOf("StopInToken", 0, USBC_Host_StopInToken("RX"))
       \/ \E d \in BOOLEAN : c = CallOf("WriteDataStatus", 0, USBC_Host_WriteDataStatus("RX", d))
       \/ \E d \in BOOLEAN : c = CallOf("ReadDataStatus", 0, USBC_Host_ReadDataStatus("RX", d))
       \/ \E f, prog : c = CallOf(f, 0, prog) /\ addressed(f, prog)
  BY Zenon, HostCallForms DEF config
<1> HIDE DEF addressed
<1>17. \E f, a, prog : c = CallOf(f, a, prog) /\ ok(f, a, prog)
  <2>1. CASE \E m, ty, k : c = CallOf("ConfigEp", k, config(m, ty, k)) BY Zenon, <2>1, <1>2
  <2>2. CASE c = CallOf("ConfigEp_Default", 0, USBC_Host_ConfigEp_Default("RX")) BY Zenon, <2>2, <1>3
  <2>3. CASE c = CallOf("FlushFifo", 0, USBC_Host_FlushFifo("RX")) BY Zenon, <2>3, <1>4
  <2>4. CASE c = CallOf("ConfigEpDma", 0, USBC_Host_ConfigEpDma("RX")) BY Zenon, <2>4, <1>5
  <2>5. CASE c = CallOf("ClearEpDma", 0, USBC_Host_ClearEpDma("RX")) BY Zenon, <2>5, <1>6
  <2>6. CASE c = CallOf("ClearEpNakTimeOut", 0, USBC_Host_ClearEpNakTimeOut("RX")) BY Zenon, <2>6, <1>7
  <2>7. CASE c = CallOf("ClearEpError", 0, USBC_Host_ClearEpError("RX")) BY Zenon, <2>7, <1>8
  <2>8. CASE c = CallOf("ClearEpStall", 0, USBC_Host_ClearEpStall("RX")) BY Zenon, <2>8, <1>9
  <2>9. CASE c = CallOf("ClearEpCSR", 0, USBC_Host_ClearEpCSR("RX")) BY Zenon, <2>9, <1>10
  <2>10. CASE c = CallOf("StartInToken", 0, USBC_Host_StartInToken("RX")) BY Zenon, <2>10, <1>11
  <2>11. CASE c = CallOf("StopInToken", 0, USBC_Host_StopInToken("RX")) BY Zenon, <2>11, <1>12
  <2>12. CASE \E d \in BOOLEAN : c = CallOf("WriteDataStatus", 0, USBC_Host_WriteDataStatus("RX", d)) BY Zenon, <2>12, <1>13
  <2>13. CASE \E d \in BOOLEAN : c = CallOf("ReadDataStatus", 0, USBC_Host_ReadDataStatus("RX", d)) BY Zenon, <2>13, <1>14
  <2>14. CASE \E f, prog : c = CallOf(f, 0, prog) /\ addressed(f, prog) BY Zenon, <2>14, <1>15
  <2> QED BY Zenon, <1>16, <2>1, <2>2, <2>3, <2>4, <2>5, <2>6, <2>7, <2>8, <2>9, <2>10, <2>11, <2>12, <2>13, <2>14
<1> QED BY <1>17 DEF CallOf, ok

-----------------------------------------------------------------------------
(* The numbers in the fields of the registers.                             *)

(* The weights of the bits.                                                *)
LEMMA Powers ==
  /\ 2^0 = 1 /\ 2^1 = 2 /\ 2^2 = 4 /\ 2^3 = 8 /\ 2^4 = 16 /\ 2^5 = 32 /\ 2^6 = 64 /\ 2^7 = 128
  /\ 2^8 = 256 /\ 2^9 = 512 /\ 2^10 = 1024 /\ 2^11 = 2048 /\ 2^12 = 4096 /\ 2^13 = 8192 /\ 2^14 = 16384 /\ 2^15 = 32768
OBVIOUS

(* A recursive function of a field's bits: it exists, one sum after another.*)
LEMMA ValueSum ==
  ASSUME NEW b
  PROVE  LET w(i) == IF i \in b THEN 2^i ELSE 0
         IN  Value(b) = w(0) + w(1) + w(2) + w(3) + w(4) + w(5) + w(6) + w(7)
                         + w(8) + w(9) + w(10) + w(11) + w(12) + w(13) + w(14) + w(15)
<1> DEFINE w(i) == IF i \in b THEN 2^i ELSE 0
           Is(h, m) == h = [n \in 0..m |-> IF n = 0 THEN 0 ELSE h[n - 1] + w(n - 1)]
           low == CHOOSE h : h = [n \in 0..16 |-> IF n = 0 THEN 0 ELSE h[n - 1] + w(n - 1)]
           Bad == {m \in 0..16 : ~ \E h : Is(h, m)}
<1>1. Bad = {}
  <2> SUFFICES ASSUME Bad # {} PROVE FALSE OBVIOUS
  <2>1. PICK m \in Bad : \A y \in Bad : m <= y
    <3>1. Bad \subseteq Nat OBVIOUS
    <3> HIDE DEF Bad
    <3> QED BY <3>1, LeastOf
  <2>2. m \in 0..16 /\ ~ \E h : Is(h, m) BY <2>1
  <2> HIDE DEF w
  <2>3. CASE m = 0
    <3> DEFINE h == [n \in 0..0 |-> 0]
    <3>1. Is(h, 0) OBVIOUS
    <3> QED BY <2>2, <2>3, <3>1
  <2>4. CASE m # 0
    <3>1. m - 1 \in 0..16 /\ ~(m <= m - 1) BY <2>2, <2>4
    <3>2. m - 1 \notin Bad BY <2>1, <3>1
    <3>3. PICK h : Is(h, m - 1) BY <3>1, <3>2
    <3> DEFINE g == [n \in 0..m |-> IF n = 0 THEN 0 ELSE h[n - 1] + w(n - 1)]
               e == [n \in 0..m |-> IF n = 0 THEN 0 ELSE g[n - 1] + w(n - 1)]
    <3>4. \A n \in 0..(m - 1) : g[n] = h[n] BY <2>2, <3>3
    <3>5. g = [n \in 0..m |-> g[n]] /\ e = [n \in 0..m |-> e[n]] OBVIOUS
    <3>6. ASSUME NEW n \in 0..m PROVE g[n] = e[n]
      <4>1. CASE n = 0 BY <4>1
      <4>2. CASE n # 0
        <5>1. n - 1 \in 0..(m - 1) BY <2>2, <4>2
        <5>2. g[n - 1] = h[n - 1] BY <3>4, <5>1
        <5>3. g[n] = h[n - 1] + w(n - 1) BY <4>2
        <5>4. e[n] = g[n - 1] + w(n - 1) BY <4>2
        <5> HIDE DEF g, e
        <5> QED BY <5>2, <5>3, <5>4
      <4> QED BY <4>1, <4>2
    <3>7. g = e
      <4> HIDE DEF g, e
      <4> QED BY <3>5, <3>6
    <3> QED BY <2>2, <3>7
  <2> QED BY <2>3, <2>4
<1>2. \E h : h = [n \in 0..16 |-> IF n = 0 THEN 0 ELSE h[n - 1] + w(n - 1)]
  <2>1. 16 \in 0..16 OBVIOUS
  <2> HIDE DEF Is
  <2>2. \E h : Is(h, 16) BY <1>1, <2>1
  <2> QED BY <2>2 DEF Is
<1>3. low = [n \in 0..16 |-> IF n = 0 THEN 0 ELSE low[n - 1] + w(n - 1)]
  <2> HIDE DEF w
  <2> QED BY <1>2, Zenon
<1>4. Value(b) = low[16] BY DEF Value
<1> HIDE DEF low
<1>5. low[0] = 0 /\ \A n \in 1..16 : low[n] = low[n - 1] + w(n - 1)
  <2> HIDE DEF w
  <2> QED BY <1>3
<1>6. \A i \in 0..15 : w(i) \in Int BY Powers
<1> HIDE DEF w
<1>7. /\ low[1] = low[0] + w(0) /\ low[2] = low[1] + w(1) /\ low[3] = low[2] + w(2) /\ low[4] = low[3] + w(3)
      /\ low[5] = low[4] + w(4) /\ low[6] = low[5] + w(5) /\ low[7] = low[6] + w(6) /\ low[8] = low[7] + w(7)
      /\ low[9] = low[8] + w(8) /\ low[10] = low[9] + w(9) /\ low[11] = low[10] + w(10) /\ low[12] = low[11] + w(11)
      /\ low[13] = low[12] + w(12) /\ low[14] = low[13] + w(13) /\ low[15] = low[14] + w(14) /\ low[16] = low[15] + w(15)
  BY <1>5
<1>8. Value(b) = w(0) + w(1) + w(2) + w(3) + w(4) + w(5) + w(6) + w(7)
                  + w(8) + w(9) + w(10) + w(11) + w(12) + w(13) + w(14) + w(15)
  BY <1>4, <1>5, <1>6, <1>7
<1> QED BY <1>8 DEF w

(* The sum with the weights in figures.                                    *)
LEMMA ValueOf ==
  ASSUME NEW b
  PROVE  Value(b) =
           (IF 0 \in b THEN 1 ELSE 0) + (IF 1 \in b THEN 2 ELSE 0) + (IF 2 \in b THEN 4 ELSE 0)
           + (IF 3 \in b THEN 8 ELSE 0) + (IF 4 \in b THEN 16 ELSE 0) + (IF 5 \in b THEN 32 ELSE 0)
           + (IF 6 \in b THEN 64 ELSE 0) + (IF 7 \in b THEN 128 ELSE 0) + (IF 8 \in b THEN 256 ELSE 0)
           + (IF 9 \in b THEN 512 ELSE 0) + (IF 10 \in b THEN 1024 ELSE 0) + (IF 11 \in b THEN 2048 ELSE 0)
           + (IF 12 \in b THEN 4096 ELSE 0) + (IF 13 \in b THEN 8192 ELSE 0) + (IF 14 \in b THEN 16384 ELSE 0)
           + (IF 15 \in b THEN 32768 ELSE 0)
BY ValueSum, Powers

(* The binary digits of a number.                                          *)
LEMMA BitsOf ==
  ASSUME NEW n \in Nat
  PROVE  /\ Bits(n) \subseteq 0..15
         /\ 0 \in Bits(n) <=> (n \div 1) % 2 = 1
         /\ 1 \in Bits(n) <=> (n \div 2) % 2 = 1
         /\ 2 \in Bits(n) <=> (n \div 4) % 2 = 1
         /\ 3 \in Bits(n) <=> (n \div 8) % 2 = 1
         /\ 4 \in Bits(n) <=> (n \div 16) % 2 = 1
         /\ 5 \in Bits(n) <=> (n \div 32) % 2 = 1
         /\ 6 \in Bits(n) <=> (n \div 64) % 2 = 1
         /\ 7 \in Bits(n) <=> (n \div 128) % 2 = 1
         /\ 8 \in Bits(n) <=> (n \div 256) % 2 = 1
         /\ 9 \in Bits(n) <=> (n \div 512) % 2 = 1
         /\ 10 \in Bits(n) <=> (n \div 1024) % 2 = 1
         /\ 11 \in Bits(n) <=> (n \div 2048) % 2 = 1
         /\ 12 \in Bits(n) <=> (n \div 4096) % 2 = 1
         /\ 13 \in Bits(n) <=> (n \div 8192) % 2 = 1
         /\ 14 \in Bits(n) <=> (n \div 16384) % 2 = 1
         /\ 15 \in Bits(n) <=> (n \div 32768) % 2 = 1
<1>1. \A i \in 0..15 : i \in Bits(n) <=> (n \div 2^i) % 2 = 1 BY DEF Bits
<1>2. Bits(n) \subseteq 0..15 BY DEF Bits
<1> QED BY <1>1, <1>2, Powers

(* An endpoint is selected by its own number.                              *)
LEMMA BitsValue == \A n \in 0..15 : Value(Bits(n)) = n
<1> TAKE n \in 0..15
<1> DEFINE b == Bits(n)
<1>1. /\ n \div 16 = 0 /\ n \div 32 = 0 /\ n \div 64 = 0 /\ n \div 128 = 0 /\ n \div 256 = 0 /\ n \div 512 = 0
      /\ n \div 1024 = 0 /\ n \div 2048 = 0 /\ n \div 4096 = 0 /\ n \div 8192 = 0 /\ n \div 16384 = 0 /\ n \div 32768 = 0
  OBVIOUS
<1>2. /\ 4 \notin b /\ 5 \notin b /\ 6 \notin b /\ 7 \notin b /\ 8 \notin b /\ 9 \notin b
      /\ 10 \notin b /\ 11 \notin b /\ 12 \notin b /\ 13 \notin b /\ 14 \notin b /\ 15 \notin b
  BY <1>1, BitsOf
<1>3. /\ 0 \in b <=> (n \div 1) % 2 = 1
      /\ 1 \in b <=> (n \div 2) % 2 = 1
      /\ 2 \in b <=> (n \div 4) % 2 = 1
      /\ 3 \in b <=> (n \div 8) % 2 = 1
  BY BitsOf
<1> HIDE DEF b
<1>4. Value(b) = (IF 0 \in b THEN 1 ELSE 0) + (IF 1 \in b THEN 2 ELSE 0) + (IF 2 \in b THEN 4 ELSE 0)
                  + (IF 3 \in b THEN 8 ELSE 0)
  BY <1>2, ValueOf
<1>5. Value(b) = n BY <1>3, <1>4
<1> QED BY <1>5 DEF b

(* The numbers that the registers of the bulk endpoints are written with.  *)
LEMMA NumberBits ==
  /\ Bits(0) = {} /\ Bits(64) = {6} /\ Bits(512) = {9}
  /\ Bits(12) = {2, 3} /\ Bits(140) = {2, 3, 7} /\ Bits(6) = {1, 2}
<1>1. 0..15 = {0, 1, 2, 3, 4, 5, 6, 7, 8, 9, 10, 11, 12, 13, 14, 15} OBVIOUS
<1>2. Bits(0) = {} BY <1>1, BitsOf
<1>3. Bits(64) = {6}
  <2> DEFINE b == Bits(64)
  <2>1. b \subseteq 0..15 /\ 6 \in b BY BitsOf
  <2>2. /\ 0 \notin b /\ 1 \notin b /\ 2 \notin b /\ 3 \notin b /\ 4 \notin b /\ 5 \notin b /\ 7 \notin b
        /\ 8 \notin b /\ 9 \notin b /\ 10 \notin b /\ 11 \notin b /\ 12 \notin b /\ 13 \notin b /\ 14 \notin b /\ 15 \notin b
    BY BitsOf
  <2> HIDE DEF b
  <2>3. b = {6} BY <1>1, <2>1, <2>2
  <2> QED BY <2>3 DEF b
<1>4. Bits(512) = {9}
  <2> DEFINE b == Bits(512)
  <2>1. b \subseteq 0..15 /\ 9 \in b BY BitsOf
  <2>2. /\ 0 \notin b /\ 1 \notin b /\ 2 \notin b /\ 3 \notin b /\ 4 \notin b /\ 5 \notin b /\ 6 \notin b
        /\ 7 \notin b /\ 8 \notin b /\ 10 \notin b /\ 11 \notin b /\ 12 \notin b /\ 13 \notin b /\ 14 \notin b /\ 15 \notin b
    BY BitsOf
  <2> HIDE DEF b
  <2>3. b = {9} BY <1>1, <2>1, <2>2
  <2> QED BY <2>3 DEF b
<1>5. Bits(12) = {2, 3}
  <2> DEFINE b == Bits(12)
  <2>1. b \subseteq 0..15 /\ 2 \in b /\ 3 \in b BY BitsOf
  <2>2. /\ 0 \notin b /\ 1 \notin b /\ 4 \notin b /\ 5 \notin b /\ 6 \notin b /\ 7 \notin b /\ 8 \notin b
        /\ 9 \notin b /\ 10 \notin b /\ 11 \notin b /\ 12 \notin b /\ 13 \notin b /\ 14 \notin b /\ 15 \notin b
    BY BitsOf
  <2> HIDE DEF b
  <2>3. b = {2, 3} BY <1>1, <2>1, <2>2
  <2> QED BY <2>3 DEF b
<1>6. Bits(140) = {2, 3, 7}
  <2> DEFINE b == Bits(140)
  <2>1. b \subseteq 0..15 /\ 2 \in b /\ 3 \in b /\ 7 \in b BY BitsOf
  <2>2. /\ 0 \notin b /\ 1 \notin b /\ 4 \notin b /\ 5 \notin b /\ 6 \notin b /\ 8 \notin b
        /\ 9 \notin b /\ 10 \notin b /\ 11 \notin b /\ 12 \notin b /\ 13 \notin b /\ 14 \notin b /\ 15 \notin b
    BY BitsOf
  <2> HIDE DEF b
  <2>3. b = {2, 3, 7} BY <1>1, <2>1, <2>2
  <2> QED BY <2>3 DEF b
<1>7. Bits(6) = {1, 2}
  <2> DEFINE b == Bits(6)
  <2>1. b \subseteq 0..15 /\ 1 \in b /\ 2 \in b BY BitsOf
  <2>2. /\ 0 \notin b /\ 3 \notin b /\ 4 \notin b /\ 5 \notin b /\ 6 \notin b /\ 7 \notin b /\ 8 \notin b
        /\ 9 \notin b /\ 10 \notin b /\ 11 \notin b /\ 12 \notin b /\ 13 \notin b /\ 14 \notin b /\ 15 \notin b
    BY BitsOf
  <2> HIDE DEF b
  <2>3. b = {1, 2} BY <1>1, <2>1, <2>2
  <2> QED BY <2>3 DEF b
<1> QED BY <1>2, <1>3, <1>4, <1>5, <1>6, <1>7

(* The numbers that the registers are read as.                             *)
LEMMA FieldValues ==
  /\ Value({}) = 0 /\ Value({6}) = 64 /\ Value({9}) = 512
  /\ Value({2, 3}) = 12 /\ Value({2, 3, 7}) = 140 /\ Value({1, 2}) = 6
<1>1. Value({}) = 0 BY ValueOf
<1>2. Value({6}) = 64 BY ValueOf
<1>3. Value({9}) = 512 BY ValueOf
<1>4. Value({2, 3}) = 12 BY ValueOf
<1>5. Value({2, 3, 7}) = 140 BY ValueOf
<1>6. Value({1, 2}) = 6 BY ValueOf
<1> QED BY <1>1, <1>2, <1>3, <1>4, <1>5, <1>6

(* The size code of both FIFO sizes: that of 512 bytes.                    *)
LEMMA SizeCodes == SizeCode(64) = 6 /\ SizeCode(512) = 6
<1>1. BitLength(32) = 6
  <2>1. /\ 2^16 = 65536 /\ 2^17 = 131072 /\ 2^18 = 262144 /\ 2^19 = 524288 /\ 2^20 = 1048576 /\ 2^21 = 2097152
        /\ 2^22 = 4194304 /\ 2^23 = 8388608 /\ 2^24 = 16777216 /\ 2^25 = 33554432 /\ 2^26 = 67108864
        /\ 2^27 = 134217728 /\ 2^28 = 268435456 /\ 2^29 = 536870912 /\ 2^30 = 1073741824
    OBVIOUS
  <2>2. \A i \in 0..30 : i \in {0, 1, 2, 3, 4, 5, 6, 7, 8, 9, 10, 11, 12, 13, 14, 15, 16, 17, 18, 19, 20, 21, 22, 23, 24,
                                25, 26, 27, 28, 29, 30}
    OBVIOUS
  <2>3. /\ 32 \div 2^0 > 0 /\ 32 \div 2^1 > 0 /\ 32 \div 2^2 > 0 /\ 32 \div 2^3 > 0 /\ 32 \div 2^4 > 0 /\ 32 \div 2^5 > 0
    BY Powers
  <2>4. /\ 32 \div 2^6 = 0 /\ 32 \div 2^7 = 0 /\ 32 \div 2^8 = 0 /\ 32 \div 2^9 = 0 /\ 32 \div 2^10 = 0 /\ 32 \div 2^11 = 0
        /\ 32 \div 2^12 = 0 /\ 32 \div 2^13 = 0 /\ 32 \div 2^14 = 0 /\ 32 \div 2^15 = 0
    BY Powers
  <2>5. /\ 32 \div 2^16 = 0 /\ 32 \div 2^17 = 0 /\ 32 \div 2^18 = 0 /\ 32 \div 2^19 = 0 /\ 32 \div 2^20 = 0 /\ 32 \div 2^21 = 0
        /\ 32 \div 2^22 = 0 /\ 32 \div 2^23 = 0
    BY <2>1
  <2>6. /\ 32 \div 2^24 = 0 /\ 32 \div 2^25 = 0 /\ 32 \div 2^26 = 0 /\ 32 \div 2^27 = 0 /\ 32 \div 2^28 = 0
        /\ 32 \div 2^29 = 0 /\ 32 \div 2^30 = 0
    BY <2>1
  <2> DEFINE q(i) == 32 \div 2^i
  <2>7. {i \in 0..30 : q(i) > 0} = 0..5
    <3>1. \A i \in 0..5 : i \in {0, 1, 2, 3, 4, 5} OBVIOUS
    <3>2. \A i \in 6..30 : i \in {6, 7, 8, 9, 10, 11, 12, 13, 14, 15, 16, 17, 18, 19, 20, 21, 22, 23, 24,
                                25, 26, 27, 28, 29, 30}
      OBVIOUS
    <3>3. \A i \in 0..5 : q(i) > 0 BY <2>3, <3>1
    <3>4. \A i \in 6..30 : q(i) = 0 BY <2>4, <2>5, <2>6, <3>2
    <3> HIDE DEF q
    <3> QED BY <3>3, <3>4
  <2>8. Cardinality(0..5) = 6
    <3>1. \A a, b \in Int : Cardinality(a..b) = IF a > b THEN 0 ELSE b - a + 1 BY FS_Interval
    <3>2. Cardinality(0..5) = IF 0 > 5 THEN 0 ELSE 5 - 0 + 1
      <4>1. 0 \in Int /\ 5 \in Int OBVIOUS
      <4> QED BY <3>1, <4>1, Zenon
    <3> QED BY <3>2
  <2> QED BY <2>7, <2>8 DEF BitLength
<1>2. ((((64 + 511) \div 512) * 512) \div 16) = 32 /\ ((((512 + 511) \div 512) * 512) \div 16) = 32 OBVIOUS
<1> QED BY <1>1, <1>2 DEF SizeCode

(* The numbers that usb_bulk_ep_reset computes.                            *)
LEMMA FifoNumbers ==
  /\ bulk_in_addr \div 8 = 12 /\ bulk_out_addr \div 8 = 140 /\ BULK_FIFOSIZE % 2^11 = 512 /\ 512 % 2^11 = 512
  /\ 64 % 2^11 = 64 /\ 0 % 2^11 = 0
BY Powers DEF bulk_in_addr, bulk_out_addr, BULK_FIFOSIZE

(* Functions that concern no endpoint, and drop, ask and end nothing.      *)
Plain == {"TransferMode", "ConectSwitch", "SetAddress", "IsoUpdateEnable", "ClearSetupEnd", "Port", "Session"}

(* The calls that bring about nothing that the properties speak of.        *)
LEMMA PlainFacts ==
  ASSUME NEW g \in {"dev", "host"}, NEW f \in Plain
  PROVE  /\ f \notin Droppers \cup Starters \cup Stoppers \cup Configurers \cup {"ConfigEpDma", "ClearEpDma"}
         /\ \A reg \in {"PCTL", "FADDR", "DEVCTL"} : \A clr, set \in SUBSET All :
              Update(reg, clr, set) \in Allowed(g, "EP0", f, 0)
         /\ \A prog : Does(g, "EP0", f, prog)
<1>1. f \notin Droppers \cup Starters \cup Stoppers \cup Configurers \cup {"ConfigEpDma", "ClearEpDma"}
  BY DEF Plain, Droppers, Starters, Stoppers, Enders, Configurers
<1>2. ASSUME NEW reg \in {"PCTL", "FADDR", "DEVCTL"}, NEW clr \in SUBSET All, NEW set \in SUBSET All
      PROVE  Update(reg, clr, set) \in Allowed(g, "EP0", f, 0)
  <2>1. Fits(g, "EP0", f, 0, reg, clr, set) BY DEF Fits, Others
  <2> QED BY <2>1, AllowedFacts, RegNames
<1>3. \A prog : Does(g, "EP0", f, prog) BY <1>1 DEF Does
<1> QED BY <1>1, <1>2, <1>3

(* The calls of the device side about no endpoint.                         *)
LEMMA DevGeneralCalls ==
  ASSUME NEW c \in DevGeneral, c.f # "bulk_ep_reset"
  PROVE  c.f \in Plain /\ c.a = 0 /\ Good("dev", "EP0", c.f, 0, c.prog)
<1> DEFINE ok(f, prog) == Good("dev", "EP0", f, 0, prog)
           modes == {CallOf("TransferMode", 0, USBC_Dev_ConfigTransferMode(ty, s)) :
                       ty \in {"CTRL", "ISO", "INT", "BULK"}, s \in {"HS", "FS", "LS"}}
           switches == {CallOf("ConectSwitch", 0, USBC_Dev_ConectSwitch(on)) : on \in BOOLEAN}
           resets == {CallOf("bulk_ep_reset", n, usb_bulk_ep_reset(BULK_FIFOSIZE, n)) : n \in Sizes}
           rest == {CallOf("SetAddress", 0, USBC_Dev_SetAddress(5)),
                    CallOf("SetAddress", 0, USBC_Dev_SetAddress_default),
                    CallOf("IsoUpdateEnable", 0, USBC_Dev_IsoUpdateEnable),
                    CallOf("ClearSetupEnd", 0, USBC_Dev_Ctrl_ClearSetupEnd)}
<1>1. c \in modes \cup switches \cup resets \cup rest
  <2>1. DevGeneral = modes \cup switches \cup resets \cup rest BY SMT DEF DevGeneral
  <2> QED BY <2>1
<1>2. /\ {7} \in SUBSET All /\ {6} \in SUBSET All /\ {5} \in SUBSET All /\ {} \in SUBSET All /\ All \in SUBSET All
      /\ \A n : Bits(n) \in SUBSET All
  BY BitsType DEF All
<1>3. {"TransferMode", "ConectSwitch", "SetAddress", "IsoUpdateEnable", "ClearSetupEnd"} \subseteq Plain BY DEF Plain
<1>4. \A f \in Plain : \A reg \in {"PCTL", "FADDR", "DEVCTL"} : \A clr, set \in SUBSET All :
        <<Update(reg, clr, set)>> \in Seq(Allowed("dev", "EP0", f, 0))
  BY PlainFacts, SeqFacts
<1>5. \A f \in Plain : \A prog \in Seq(Allowed("dev", "EP0", f, 0)) : ok(f, prog) BY PlainFacts DEF Good
<1>6. \A ty, s : ok("TransferMode", USBC_Dev_ConfigTransferMode(ty, s))
  <2> TAKE ty, s
  <2> DEFINE S == Seq(Allowed("dev", "EP0", "TransferMode", 0))
             p == CASE ty = "CTRL" -> USBC_Dev_TsType_Ctrl
                    [] ty = "ISO" -> USBC_Dev_TsType_Iso
                    [] ty = "INT" -> USBC_Dev_TsType_Int
                    [] ty = "BULK" -> USBC_Dev_TsType_Bulk
                    [] OTHER -> USBC_Dev_TsType_default
             q == CASE s = "HS" -> USBC_Dev_TsMode_Hs
                    [] s = "FS" -> USBC_Dev_TsMode_Fs
                    [] s = "LS" -> USBC_Dev_TsMode_Ls
                    [] OTHER -> USBC_Dev_TsMode_default
  <2>1. /\ <<Update("PCTL", {7}, {})>> \in S /\ <<Update("PCTL", {}, {7})>> \in S
        /\ <<Update("PCTL", {5}, {})>> \in S /\ <<Update("PCTL", {}, {5})>> \in S
    BY <1>2, <1>3, <1>4
  <2> HIDE DEF S
  <2>2. p \in S
    BY <2>1, AccessForms DEF USBC_Dev_TsType_Ctrl, USBC_Dev_TsType_Iso, USBC_Dev_TsType_Int, USBC_Dev_TsType_Bulk,
       USBC_Dev_TsType_default, POWER_D
  <2>3. q \in S
    BY <2>1, AccessForms DEF USBC_Dev_TsMode_Hs, USBC_Dev_TsMode_Fs, USBC_Dev_TsMode_Ls, USBC_Dev_TsMode_default, POWER_D
  <2>4. USBC_Dev_ConfigTransferMode(ty, s) = p \o q BY DEF USBC_Dev_ConfigTransferMode
  <2> HIDE DEF p, q
  <2>5. p \o q \in S BY <2>2, <2>3, SeqFacts DEF S
  <2> QED BY <1>3, <1>5, <2>4, <2>5 DEF S
<1>7. \A on \in BOOLEAN : ok("ConectSwitch", USBC_Dev_ConectSwitch(on))
  <2> TAKE on \in BOOLEAN
  <2>1. /\ <<Update("PCTL", {6}, {})>> \in Seq(Allowed("dev", "EP0", "ConectSwitch", 0))
        /\ <<Update("PCTL", {}, {6})>> \in Seq(Allowed("dev", "EP0", "ConectSwitch", 0))
    BY <1>2, <1>3, <1>4
  <2>2. USBC_Dev_ConectSwitch(on) \in {<<Update("PCTL", {6}, {})>>, <<Update("PCTL", {}, {6})>>}
    BY AccessForms DEF USBC_Dev_ConectSwitch, POWER_D
  <2> QED BY <1>3, <1>5, <2>1, <2>2
<1>8. ok("SetAddress", USBC_Dev_SetAddress(5)) /\ ok("SetAddress", USBC_Dev_SetAddress_default)
  BY <1>2, <1>3, <1>4, <1>5, AccessForms DEF USBC_Dev_SetAddress, USBC_Dev_SetAddress_default
<1>9. ok("IsoUpdateEnable", USBC_Dev_IsoUpdateEnable)
  BY <1>2, <1>3, <1>4, <1>5, AccessForms DEF USBC_Dev_IsoUpdateEnable, USBC_Dev_TsType_Iso, POWER_D
<1>10. ok("ClearSetupEnd", USBC_Dev_Ctrl_ClearSetupEnd)
  <2>1. Fits("dev", "EP0", "ClearSetupEnd", 0, "TXCSR", {}, {7})
    BY DEF Fits, CsrName, LeavesReady, CommandBit, NoBit
  <2>2. Update("TXCSR", {}, {7}) \in Allowed("dev", "EP0", "ClearSetupEnd", 0) BY <1>2, <2>1, AllowedFacts, RegNames
  <2>3. USBC_Dev_Ctrl_ClearSetupEnd = <<Update("TXCSR", {}, {7})>>
    BY AccessForms DEF USBC_Dev_Ctrl_ClearSetupEnd, USBC_Dev_ep0_ClearSetupEnd, CSR0, CSR0_D
  <2> QED BY <1>3, <1>5, <2>2, <2>3, SeqFacts
<1> HIDE DEF ok
<1> DEFINE fine == \E f \in Plain : \E prog : c = CallOf(f, 0, prog) /\ ok(f, prog)
<1>11. c \in modes => fine
  <2>1. c \in modes => \E ty, s : c = CallOf("TransferMode", 0, USBC_Dev_ConfigTransferMode(ty, s)) BY SMT
  <2> HIDE DEF modes
  <2> QED BY <1>3, <1>6, <2>1, Zenon
<1>12. c \in switches => fine
  <2>1. c \in switches => \E on \in BOOLEAN : c = CallOf("ConectSwitch", 0, USBC_Dev_ConectSwitch(on)) OBVIOUS
  <2> HIDE DEF switches
  <2> QED BY <1>3, <1>7, <2>1, Zenon
<1>13. c \notin resets BY DEF CallOf
<1>14. c \in rest => fine BY <1>3, <1>8, <1>9, <1>10, Zenon
<1> HIDE DEF modes, switches, resets, rest
<1>15. fine
  <2> HIDE DEF fine
  <2> QED BY <1>1, <1>11, <1>12, <1>13, <1>14
<1> QED BY <1>15 DEF CallOf, ok

(* The same of the host side.                                              *)
LEMMA HostGeneralCalls ==
  ASSUME NEW c \in HostGeneral
  PROVE  c.f \in Plain /\ c.a = 0 /\ Good("host", "EP0", c.f, 0, c.prog)
<1> DEFINE ok(f, prog) == Good("host", "EP0", f, 0, prog)
<1>1. /\ {0} \in SUBSET All /\ {1} \in SUBSET All /\ {2} \in SUBSET All /\ {3} \in SUBSET All /\ {5} \in SUBSET All /\ {} \in SUBSET All
  BY DEF All
<1>2. {"TransferMode", "Port", "Session"} \subseteq Plain BY DEF Plain
<1>3. \A f \in Plain : \A reg \in {"PCTL", "FADDR", "DEVCTL"} : \A clr, set \in SUBSET All :
        ok(f, <<Update(reg, clr, set)>>)
  BY PlainFacts, SeqFacts DEF Good
<1> HIDE DEF ok
<1>4. \A s : ok("TransferMode", USBC_Host_ConfigTransferMode(s))
  <2> TAKE s
  <2>1. USBC_Host_ConfigTransferMode(s) \in {<<Update("PCTL", {}, {5})>>, <<Update("PCTL", {5}, {})>>}
    BY AccessForms DEF USBC_Host_ConfigTransferMode, USBC_Host_TsMode_Hs, USBC_Host_TsMode_Fs, USBC_Host_TsMode_Ls,
       USBC_Host_TsMode_Default, POWER_H
  <2> QED BY <1>1, <1>2, <1>3, <2>1
<1>5. /\ ok("Port", USBC_Host_ResetPort) /\ ok("Port", USBC_Host_ClearResetPortFlag)
      /\ ok("Port", USBC_Host_RusumePort) /\ ok("Port", USBC_Host_ClearRusumePortFlag)
      /\ ok("Port", USBC_Host_SuspendPort) /\ ok("Session", USBC_Host_StartSession)
      /\ ok("Session", USBC_Host_EndSession)
  BY <1>1, <1>2, <1>3, AccessForms DEF USBC_Host_ResetPort, USBC_Host_ClearResetPortFlag, USBC_Host_RusumePort,
     USBC_Host_ClearRusumePortFlag, USBC_Host_SuspendPort, USBC_Host_StartSession, USBC_Host_EndSession, POWER_H, DEVCTL
<1>6. \E f \in Plain : \E prog : c = CallOf(f, 0, prog) /\ ok(f, prog) BY <1>2, <1>4, <1>5 DEF HostGeneral
<1> QED BY <1>6 DEF CallOf, ok

(* The calls of the host side that act on endpoint 0.                      *)
LEMMA HostControlCalls ==
  ASSUME NEW c \in HostControl
  PROVE  c.a = 0 /\ c.f # "bulk_ep_reset" /\ Good("host", "EP0", c.f, 0, c.prog)
<1> DEFINE ok(f, prog) == f # "bulk_ep_reset" /\ Good("host", "EP0", f, 0, prog)
<1>1. USBC_Host_SendCtrlStatus(TRUE) = USBC_Host_ep0_StatusAfterIn BY Zenon DEF USBC_Host_SendCtrlStatus
<1>2. USBC_Host_SendCtrlStatus(FALSE) = USBC_Host_ep0_StatusAfterOut BY Zenon DEF USBC_Host_SendCtrlStatus
<1>3. /\ ok("Ping", USBC_Host_EnablePing) /\ ok("NoPing", USBC_Host_DisablePing)
      /\ ok("SendSetupPkt", USBC_Host_SendSetupPkt)
      /\ ok("StatusAfterIn", USBC_Host_ep0_StatusAfterIn) /\ ok("StartInToken", USBC_Host_ep0_StatusAfterOut)
  BY HostEp0 DEF USBC_Host_EnablePing, USBC_Host_DisablePing, USBC_Host_SendSetupPkt
<1> HIDE DEF ok
<1>4. \/ c = CallOf("Ping", 0, USBC_Host_EnablePing) \/ c = CallOf("NoPing", 0, USBC_Host_DisablePing)
      \/ c = CallOf("SendSetupPkt", 0, USBC_Host_SendSetupPkt)
      \/ c = CallOf("StatusAfterIn", 0, USBC_Host_ep0_StatusAfterIn)
      \/ c = CallOf("StartInToken", 0, USBC_Host_ep0_StatusAfterOut)
  BY <1>1, <1>2, Zenon DEF HostControl
<1>5. \E f, prog : c = CallOf(f, 0, prog) /\ ok(f, prog) BY <1>3, <1>4, Zenon
<1> QED BY <1>5 DEF CallOf, ok

-----------------------------------------------------------------------------
(* The shape of a call: the endpoints that its accesses select.            *)

(* A sequence and what follows it.                                         *)
Glues(u, s, t) ==
  /\ Len(u) = Len(s) + Len(t)
  /\ \A i \in 1..Len(s) : u[i] = s[i]
  /\ \A i \in 1..Len(t) : u[Len(s) + i] = t[i]
(* Which access of two joined programs comes from which.                   *)
LEMMA Glued ==
  ASSUME NEW S, NEW s \in Seq(S), NEW t \in Seq(S), NEW u, u = s \o t
  PROVE  u \in Seq(S) /\ Glues(u, s, t)
<1>1. /\ u \in Seq(S) /\ Len(u) = Len(s) + Len(t)
      /\ \A i \in 1..(Len(s) + Len(t)) : u[i] = IF i <= Len(s) THEN s[i] ELSE t[i - Len(s)]
  BY ConcatProperties
<1>2. Len(s) \in Nat /\ Len(t) \in Nat OBVIOUS
<1>3. \A i \in 1..Len(s) : u[i] = s[i] BY <1>1, <1>2
<1>4. ASSUME NEW i \in 1..Len(t) PROVE u[Len(s) + i] = t[i]
  <2> DEFINE j == Len(s) + i
  <2>1. j \in 1..(Len(s) + Len(t)) /\ ~(j <= Len(s)) /\ j - Len(s) = i BY <1>2
  <2> HIDE DEF j
  <2>2. u[j] = t[i] BY <1>1, <2>1
  <2> QED BY <2>2 DEF j
<1> QED BY <1>1, <1>3, <1>4 DEF Glues

(* The accesses of usb_bulk_ep_reset, with the selection of endpoint 0     *)
(* that ends it.                                                           *)
TxWhole == Update("TXCSR", All, {13, 6, 3})
(* The CSR of the receiving endpoint, written whole.                       *)
RxWhole == Update("RXCSR", All, {7, 4})
(* The accesses of usb_bulk_ep_reset, one by one.                          *)
IsBulkReset(p) ==
  /\ p \in Seq(Accesses) /\ Len(p) = 19
  /\ p[1] = Update("EPIND", All, Bits(1))
  /\ p[2] = TxWhole /\ p[3] = TxWhole
  /\ p[4] = Update("TXMAXP", 0..12, Bits(512)) /\ p[5] = Update("TXCSR", {14}, {})
  /\ p[6] = Update("TXFIFOAD", All, Bits(140)) /\ p[7] = Update("TXFIFOSZ", All, Bits(6))
  /\ p[8] = Update("TXFIFOSZ", {}, {4}) /\ p[9] = Update("INTTxE", {}, {1})
  /\ p[10] = Update("EPIND", All, Bits(2))
  /\ p[11] = RxWhole /\ p[12] = RxWhole
  /\ p[13] = Update("RXMAXP", 0..12, Bits(512)) /\ p[14] = Update("RXCSR", {14}, {})
  /\ p[15] = Update("RXFIFOAD", All, Bits(12)) /\ p[16] = Update("RXFIFOSZ", All, Bits(6))
  /\ p[17] = Update("RXFIFOSZ", {}, {4}) /\ p[18] = Update("INTRxE", {}, {2})
  /\ p[19] = Update("EPIND", All, Bits(0))

(* They are these.                                                         *)
LEMMA BulkAccesses ==
  ASSUME NEW n \in Sizes, NEW p, p = usb_bulk_ep_reset(BULK_FIFOSIZE, n) \o USBC_SelectActiveEp(0)
  PROVE  IsBulkReset(p)
<1> DEFINE A == Accesses
           d1 == Update("EPIND", All, Bits(1))
           d10 == Update("EPIND", All, Bits(2))
           d19 == Update("EPIND", All, Bits(0))
           d4 == Update("TXMAXP", 0..12, Bits(512))
           d5 == Update("TXCSR", {14}, {})
           d6 == Update("TXFIFOAD", All, Bits(140))
           d7 == Update("TXFIFOSZ", All, Bits(6))
           d8 == Update("TXFIFOSZ", {}, {4})
           d9 == Update("INTTxE", {}, {1})
           d13 == Update("RXMAXP", 0..12, Bits(512))
           d14 == Update("RXCSR", {14}, {})
           d15 == Update("RXFIFOAD", All, Bits(12))
           d16 == Update("RXFIFOSZ", All, Bits(6))
           d17 == Update("RXFIFOSZ", {}, {4})
           d18 == Update("INTRxE", {}, {2})
<1>1. \A reg \in Layout : \A clr, set \in SUBSET All : Update(reg, clr, set) \in A BY DEF Update, Accesses, Here
<1>2. "EPIND" \in Layout BY DEF Layout, Common
<1>3. /\ All \in SUBSET All /\ {} \in SUBSET All /\ {13, 6, 3} \in SUBSET All /\ {7, 4} \in SUBSET All
      /\ {14} \in SUBSET All /\ {4} \in SUBSET All /\ {1} \in SUBSET All /\ {2} \in SUBSET All /\ 0..12 \in SUBSET All
      /\ \A m : Bits(m) \in SUBSET All
  BY BitsType DEF All
<1> HIDE DEF A
<1>4. /\ d1 \in A /\ d10 \in A /\ d19 \in A /\ TxWhole \in A /\ RxWhole \in A /\ d4 \in A /\ d5 \in A
      /\ d6 \in A /\ d7 \in A /\ d8 \in A /\ d9 \in A /\ d13 \in A /\ d14 \in A /\ d15 \in A /\ d16 \in A
      /\ d17 \in A /\ d18 \in A
  <2>1. d1 \in A /\ d10 \in A /\ d19 \in A BY <1>1, <1>2, <1>3
  <2>2. TxWhole \in A /\ d4 \in A /\ d5 \in A BY <1>1, <1>3, RegNames DEF TxWhole
  <2>3. d6 \in A /\ d7 \in A /\ d8 \in A /\ d9 \in A BY <1>1, <1>3, RegNames
  <2>4. RxWhole \in A /\ d13 \in A /\ d14 \in A BY <1>1, <1>3, RegNames DEF RxWhole
  <2>5. d15 \in A /\ d16 \in A /\ d17 \in A /\ d18 \in A BY <1>1, <1>3, RegNames
  <2> HIDE DEF d1, d4, d5, d6, d7, d8, d9, d10, d13, d14, d15, d16, d17, d18, d19
  <2> QED BY <2>1, <2>2, <2>3, <2>4, <2>5
<1>5. \A t, b : Update(t, {}, {b}) = set_bit(t, b) BY AccessForms
<1>6. USBC_SelectActiveEp(1) = <<d1>> /\ USBC_SelectActiveEp(2) = <<d10>> /\ USBC_SelectActiveEp(0) = <<d19>>
  BY AccessForms DEF USBC_SelectActiveEp
<1>7. DoubleFifo BY DEF DoubleFifo
<1>70. \A u, v : (IF DoubleFifo THEN u ELSE v) = u BY <1>7
<1>8. USBC_Dev_ConfigEp("BULK", "TX", DoubleFifo, BULK_FIFOSIZE % 2^11) = <<TxWhole, TxWhole, d4, d5>>
  <2> DEFINE whole == Write("TXCSR", {13, 6, 3})
             maxp == <<Update("TXMAXP", 0..12, MaxPkt(BULK_FIFOSIZE % 2^11))>>
             twice == IF DoubleFifo THEN <<whole>> ELSE <<>>
  <2>8. USBC_Dev_ConfigEp("BULK", "TX", DoubleFifo, BULK_FIFOSIZE % 2^11)
          = USBC_Dev_Tx_ConfigEp("BULK", DoubleFifo, BULK_FIFOSIZE % 2^11)
    BY SwitchFacts DEF USBC_Dev_ConfigEp
  <2>9. USBC_Dev_Tx_ConfigEp("BULK", DoubleFifo, BULK_FIFOSIZE % 2^11)
          = <<whole>> \o twice \o maxp \o USBC_Dev_Tx_EnableBulkEp
    BY DEF USBC_Dev_Tx_ConfigEp, TXCSR_D
  <2>10. twice = <<whole>> BY <1>70, Zenon
  <2>1. USBC_Dev_ConfigEp("BULK", "TX", DoubleFifo, BULK_FIFOSIZE % 2^11)
          = <<whole>> \o <<whole>> \o maxp \o USBC_Dev_Tx_EnableBulkEp
    <3> HIDE DEF whole, maxp, twice
    <3> QED BY <2>8, <2>9, <2>10
  <2>2. Write("TXCSR", {13, 6, 3}) = TxWhole BY AccessForms DEF TxWhole
  <2>3. Update("TXMAXP", 0..12, MaxPkt(BULK_FIFOSIZE % 2^11)) = d4 BY FifoNumbers DEF MaxPkt
  <2>4. USBC_Dev_Tx_EnableBulkEp = <<d5>> BY AccessForms DEF USBC_Dev_Tx_EnableBulkEp, TXCSR_D
  <2> HIDE DEF d4, d5
  <2>5. <<TxWhole>> \o <<TxWhole>> = <<TxWhole, TxWhole>> BY <1>4, Joined11
  <2>6. <<TxWhole, TxWhole>> \o <<d4>> = <<TxWhole, TxWhole, d4>> BY <1>4, Joined21
  <2>7. <<TxWhole, TxWhole, d4>> \o <<d5>> = <<TxWhole, TxWhole, d4, d5>> BY <1>4, Joined31
  <2> QED BY <2>1, <2>2, <2>3, <2>4, <2>5, <2>6, <2>7
<1>9. USBC_Dev_ConfigEp("BULK", "RX", DoubleFifo, BULK_FIFOSIZE % 2^11) = <<RxWhole, RxWhole, d13, d14>>
  <2> DEFINE whole == Write("RXCSR", {7, 4})
             maxp == <<Update("RXMAXP", 0..12, MaxPkt(BULK_FIFOSIZE % 2^11))>>
             twice == IF DoubleFifo THEN <<whole>> ELSE <<>>
  <2>8. USBC_Dev_ConfigEp("BULK", "RX", DoubleFifo, BULK_FIFOSIZE % 2^11)
          = USBC_Dev_Rx_ConfigEp("BULK", DoubleFifo, BULK_FIFOSIZE % 2^11)
    BY SwitchFacts DEF USBC_Dev_ConfigEp
  <2>9. USBC_Dev_Rx_ConfigEp("BULK", DoubleFifo, BULK_FIFOSIZE % 2^11)
          = <<whole>> \o twice \o maxp \o USBC_Dev_Rx_EnableBulkEp
    BY DEF USBC_Dev_Rx_ConfigEp, RXCSR_D
  <2>10. twice = <<whole>> BY <1>70, Zenon
  <2>1. USBC_Dev_ConfigEp("BULK", "RX", DoubleFifo, BULK_FIFOSIZE % 2^11)
          = <<whole>> \o <<whole>> \o maxp \o USBC_Dev_Rx_EnableBulkEp
    <3> HIDE DEF whole, maxp, twice
    <3> QED BY <2>8, <2>9, <2>10
  <2>2. Write("RXCSR", {7, 4}) = RxWhole BY AccessForms DEF RxWhole
  <2>3. Update("RXMAXP", 0..12, MaxPkt(BULK_FIFOSIZE % 2^11)) = d13 BY FifoNumbers DEF MaxPkt
  <2>4. USBC_Dev_Rx_EnableBulkEp = <<d14>> BY AccessForms DEF USBC_Dev_Rx_EnableBulkEp, RXCSR_D
  <2> HIDE DEF d13, d14
  <2>5. <<RxWhole>> \o <<RxWhole>> = <<RxWhole, RxWhole>> BY <1>4, Joined11
  <2>6. <<RxWhole, RxWhole>> \o <<d13>> = <<RxWhole, RxWhole, d13>> BY <1>4, Joined21
  <2>7. <<RxWhole, RxWhole, d13>> \o <<d14>> = <<RxWhole, RxWhole, d13, d14>> BY <1>4, Joined31
  <2> QED BY <2>1, <2>2, <2>3, <2>4, <2>5, <2>6, <2>7
<1>10. SizeCode(n) = 6 BY SizeCodes DEF Sizes
<1>11. USBC_ConfigFifo("TX", DoubleFifo, n, bulk_out_addr) = <<d6, d7, d8>>
  <2> DEFINE two == <<Write("TXFIFOAD", Bits(bulk_out_addr \div 8)), Write("TXFIFOSZ", Bits(SizeCode(n)))>>
             twice == IF DoubleFifo THEN <<set_bit("TXFIFOSZ", 4)>> ELSE <<>>
  <2>4. USBC_ConfigFifo("TX", DoubleFifo, n, bulk_out_addr) = USBC_ConfigFifo_TxEp(DoubleFifo, n, bulk_out_addr)
    BY SwitchFacts DEF USBC_ConfigFifo
  <2>5. USBC_ConfigFifo_TxEp(DoubleFifo, n, bulk_out_addr) = two \o twice BY Zenon DEF USBC_ConfigFifo_TxEp
  <2>6. twice = <<set_bit("TXFIFOSZ", 4)>> BY <1>70, Zenon
  <2>1. USBC_ConfigFifo("TX", DoubleFifo, n, bulk_out_addr) = two \o <<set_bit("TXFIFOSZ", 4)>>
    <3> HIDE DEF two, twice
    <3> QED BY <2>4, <2>5, <2>6
  <2>2. Write("TXFIFOAD", Bits(bulk_out_addr \div 8)) = d6 /\ Write("TXFIFOSZ", Bits(SizeCode(n))) = d7 /\ set_bit("TXFIFOSZ", 4) = d8
    BY <1>10, FifoNumbers, AccessForms
  <2> HIDE DEF d6, d7, d8
  <2>3. <<d6, d7>> \o <<d8>> = <<d6, d7, d8>> BY <1>4, Joined21
  <2> QED BY <2>1, <2>2, <2>3
<1>12. USBC_ConfigFifo("RX", DoubleFifo, n, bulk_in_addr) = <<d15, d16, d17>>
  <2> DEFINE two == <<Write("RXFIFOAD", Bits(bulk_in_addr \div 8)), Write("RXFIFOSZ", Bits(SizeCode(n)))>>
             twice == IF DoubleFifo THEN <<set_bit("RXFIFOSZ", 4)>> ELSE <<>>
  <2>4. USBC_ConfigFifo("RX", DoubleFifo, n, bulk_in_addr) = USBC_ConfigFifo_RxEp(DoubleFifo, n, bulk_in_addr)
    BY SwitchFacts DEF USBC_ConfigFifo
  <2>5. USBC_ConfigFifo_RxEp(DoubleFifo, n, bulk_in_addr) = two \o twice BY Zenon DEF USBC_ConfigFifo_RxEp
  <2>6. twice = <<set_bit("RXFIFOSZ", 4)>> BY <1>70, Zenon
  <2>1. USBC_ConfigFifo("RX", DoubleFifo, n, bulk_in_addr) = two \o <<set_bit("RXFIFOSZ", 4)>>
    <3> HIDE DEF two, twice
    <3> QED BY <2>4, <2>5, <2>6
  <2>2. Write("RXFIFOAD", Bits(bulk_in_addr \div 8)) = d15 /\ Write("RXFIFOSZ", Bits(SizeCode(n))) = d16 /\ set_bit("RXFIFOSZ", 4) = d17
    BY <1>10, FifoNumbers, AccessForms
  <2> HIDE DEF d15, d16, d17
  <2>3. <<d15, d16>> \o <<d17>> = <<d15, d16, d17>> BY <1>4, Joined21
  <2> QED BY <2>1, <2>2, <2>3
<1>13. USBC_INT_EnableEp("TX", 1) = <<d9>> /\ USBC_INT_EnableEp("RX", 2) = <<d18>>
  BY AccessForms, SwitchFacts DEF USBC_INT_EnableEp, USBC_INT_EnableTxEp, USBC_INT_EnableRxEp
<1> HIDE DEF d1, d4, d5, d6, d7, d8, d9, d10, d13, d14, d15, d16, d17, d18, d19
<1> DEFINE s1 == <<d1>>
           s2 == <<TxWhole, TxWhole, d4, d5>>
           s3 == <<d6, d7, d8>>
           s4 == <<d9>>
           s5 == <<d10>>
           s6 == <<RxWhole, RxWhole, d13, d14>>
           s7 == <<d15, d16, d17>>
           s8 == <<d18>>
           s9 == <<d19>>
<1>14. usb_bulk_ep_reset(BULK_FIFOSIZE, n) \o USBC_SelectActiveEp(0)
         = s1 \o s2 \o s3 \o s4 \o s5 \o s6 \o s7 \o s8 \o s9
  BY <1>6, <1>8, <1>9, <1>11, <1>12, <1>13 DEF usb_bulk_ep_reset
<1>15. /\ s1 \in Seq(A) /\ Len(s1) = 1 /\ s1[1] = d1
       /\ s2 \in Seq(A) /\ Len(s2) = 4 /\ s2[1] = TxWhole /\ s2[2] = TxWhole /\ s2[3] = d4 /\ s2[4] = d5
       /\ s3 \in Seq(A) /\ Len(s3) = 3 /\ s3[1] = d6 /\ s3[2] = d7 /\ s3[3] = d8
       /\ s4 \in Seq(A) /\ Len(s4) = 1 /\ s4[1] = d9
       /\ s5 \in Seq(A) /\ Len(s5) = 1 /\ s5[1] = d10
       /\ s6 \in Seq(A) /\ Len(s6) = 4 /\ s6[1] = RxWhole /\ s6[2] = RxWhole /\ s6[3] = d13 /\ s6[4] = d14
       /\ s7 \in Seq(A) /\ Len(s7) = 3 /\ s7[1] = d15 /\ s7[2] = d16 /\ s7[3] = d17
       /\ s8 \in Seq(A) /\ Len(s8) = 1 /\ s8[1] = d18
       /\ s9 \in Seq(A) /\ Len(s9) = 1 /\ s9[1] = d19
  BY <1>4, SeqFacts
<1> HIDE DEF s1, s2, s3, s4, s5, s6, s7, s8, s9
<1> DEFINE q2 == s1 \o s2
           q3 == q2 \o s3
           q4 == q3 \o s4
           q5 == q4 \o s5
           q6 == q5 \o s6
           q7 == q6 \o s7
           q8 == q7 \o s8
           q9 == q8 \o s9
<1>16. /\ q2 \in Seq(A) /\ Len(q2) = 5
       /\ q2[1] = d1 /\ q2[2] = TxWhole /\ q2[3] = TxWhole /\ q2[4] = d4 /\ q2[5] = d5
  <2>0. s1 \in Seq(A) /\ s2 \in Seq(A) /\ Len(s1) = 1 /\ Len(s2) = 4 BY <1>15
  <2>4. q2 = s1 \o s2 OBVIOUS
  <2> HIDE DEF q2
  <2>3. q2 \in Seq(A) /\ Glues(q2, s1, s2) BY <2>0, <2>4, Glued
  <2>1. q2 \in Seq(A) /\ Len(q2) = 1 + 4 /\ (\A i \in 1..1 : q2[i] = s1[i]) /\ (\A i \in 1..4 : q2[1 + i] = s2[i])
    BY <2>0, <2>3 DEF Glues
  <2> QED BY <1>15, <2>1
<1> HIDE DEF q2
<1>17. /\ q3 \in Seq(A) /\ Len(q3) = 8 /\ \A i \in 1..5 : q3[i] = q2[i]
       /\ q3[6] = d6 /\ q3[7] = d7 /\ q3[8] = d8
  <2>0. q2 \in Seq(A) /\ s3 \in Seq(A) /\ Len(q2) = 5 /\ Len(s3) = 3 BY <1>15, <1>16
  <2>4. q3 = q2 \o s3 OBVIOUS
  <2> HIDE DEF q3
  <2>3. q3 \in Seq(A) /\ Glues(q3, q2, s3) BY <2>0, <2>4, Glued
  <2>1. q3 \in Seq(A) /\ Len(q3) = 5 + 3 /\ (\A i \in 1..5 : q3[i] = q2[i]) /\ (\A i \in 1..3 : q3[5 + i] = s3[i])
    BY <2>0, <2>3 DEF Glues
  <2> QED BY <1>15, <2>1
<1> HIDE DEF q3
<1>18. /\ q4 \in Seq(A) /\ Len(q4) = 9 /\ \A i \in 1..8 : q4[i] = q3[i]
       /\ q4[9] = d9
  <2>0. q3 \in Seq(A) /\ s4 \in Seq(A) /\ Len(q3) = 8 /\ Len(s4) = 1 BY <1>15, <1>17
  <2>4. q4 = q3 \o s4 OBVIOUS
  <2> HIDE DEF q4
  <2>3. q4 \in Seq(A) /\ Glues(q4, q3, s4) BY <2>0, <2>4, Glued
  <2>1. q4 \in Seq(A) /\ Len(q4) = 8 + 1 /\ (\A i \in 1..8 : q4[i] = q3[i]) /\ (\A i \in 1..1 : q4[8 + i] = s4[i])
    BY <2>0, <2>3 DEF Glues
  <2> QED BY <1>15, <2>1
<1> HIDE DEF q4
<1>19. /\ q5 \in Seq(A) /\ Len(q5) = 10 /\ \A i \in 1..9 : q5[i] = q4[i]
       /\ q5[10] = d10
  <2>0. q4 \in Seq(A) /\ s5 \in Seq(A) /\ Len(q4) = 9 /\ Len(s5) = 1 BY <1>15, <1>18
  <2>4. q5 = q4 \o s5 OBVIOUS
  <2> HIDE DEF q5
  <2>3. q5 \in Seq(A) /\ Glues(q5, q4, s5) BY <2>0, <2>4, Glued
  <2>1. q5 \in Seq(A) /\ Len(q5) = 9 + 1 /\ (\A i \in 1..9 : q5[i] = q4[i]) /\ (\A i \in 1..1 : q5[9 + i] = s5[i])
    BY <2>0, <2>3 DEF Glues
  <2> QED BY <1>15, <2>1
<1> HIDE DEF q5
<1>20. /\ q6 \in Seq(A) /\ Len(q6) = 14 /\ \A i \in 1..10 : q6[i] = q5[i]
       /\ q6[11] = RxWhole /\ q6[12] = RxWhole /\ q6[13] = d13 /\ q6[14] = d14
  <2>0. q5 \in Seq(A) /\ s6 \in Seq(A) /\ Len(q5) = 10 /\ Len(s6) = 4 BY <1>15, <1>19
  <2>4. q6 = q5 \o s6 OBVIOUS
  <2> HIDE DEF q6
  <2>3. q6 \in Seq(A) /\ Glues(q6, q5, s6) BY <2>0, <2>4, Glued
  <2>1. q6 \in Seq(A) /\ Len(q6) = 10 + 4 /\ (\A i \in 1..10 : q6[i] = q5[i]) /\ (\A i \in 1..4 : q6[10 + i] = s6[i])
    BY <2>0, <2>3 DEF Glues
  <2> QED BY <1>15, <2>1
<1> HIDE DEF q6
<1>21. /\ q7 \in Seq(A) /\ Len(q7) = 17 /\ \A i \in 1..14 : q7[i] = q6[i]
       /\ q7[15] = d15 /\ q7[16] = d16 /\ q7[17] = d17
  <2>0. q6 \in Seq(A) /\ s7 \in Seq(A) /\ Len(q6) = 14 /\ Len(s7) = 3 BY <1>15, <1>20
  <2>4. q7 = q6 \o s7 OBVIOUS
  <2> HIDE DEF q7
  <2>3. q7 \in Seq(A) /\ Glues(q7, q6, s7) BY <2>0, <2>4, Glued
  <2>1. q7 \in Seq(A) /\ Len(q7) = 14 + 3 /\ (\A i \in 1..14 : q7[i] = q6[i]) /\ (\A i \in 1..3 : q7[14 + i] = s7[i])
    BY <2>0, <2>3 DEF Glues
  <2> QED BY <1>15, <2>1
<1> HIDE DEF q7
<1>22. /\ q8 \in Seq(A) /\ Len(q8) = 18 /\ \A i \in 1..17 : q8[i] = q7[i]
       /\ q8[18] = d18
  <2>0. q7 \in Seq(A) /\ s8 \in Seq(A) /\ Len(q7) = 17 /\ Len(s8) = 1 BY <1>15, <1>21
  <2>4. q8 = q7 \o s8 OBVIOUS
  <2> HIDE DEF q8
  <2>3. q8 \in Seq(A) /\ Glues(q8, q7, s8) BY <2>0, <2>4, Glued
  <2>1. q8 \in Seq(A) /\ Len(q8) = 17 + 1 /\ (\A i \in 1..17 : q8[i] = q7[i]) /\ (\A i \in 1..1 : q8[17 + i] = s8[i])
    BY <2>0, <2>3 DEF Glues
  <2> QED BY <1>15, <2>1
<1> HIDE DEF q8
<1>23. /\ q9 \in Seq(A) /\ Len(q9) = 19 /\ \A i \in 1..18 : q9[i] = q8[i]
       /\ q9[19] = d19
  <2>0. q8 \in Seq(A) /\ s9 \in Seq(A) /\ Len(q8) = 18 /\ Len(s9) = 1 BY <1>15, <1>22
  <2>4. q9 = q8 \o s9 OBVIOUS
  <2> HIDE DEF q9
  <2>3. q9 \in Seq(A) /\ Glues(q9, q8, s9) BY <2>0, <2>4, Glued
  <2>1. q9 \in Seq(A) /\ Len(q9) = 18 + 1 /\ (\A i \in 1..18 : q9[i] = q8[i]) /\ (\A i \in 1..1 : q9[18 + i] = s9[i])
    BY <2>0, <2>3 DEF Glues
  <2> QED BY <1>15, <2>1
<1>24. p = q9
  BY <1>14 DEF q2, q3, q4, q5, q6, q7, q8
<1> HIDE DEF q9
<1>25. /\ q9[1] = d1 /\ q9[2] = TxWhole /\ q9[3] = TxWhole /\ q9[4] = d4 /\ q9[5] = d5
  BY <1>16, <1>17, <1>18, <1>19, <1>20, <1>21, <1>22, <1>23
<1>26. q9[6] = d6 /\ q9[7] = d7 /\ q9[8] = d8 /\ q9[9] = d9 /\ q9[10] = d10
  BY <1>17, <1>18, <1>19, <1>20, <1>21, <1>22, <1>23
<1>27. /\ q9[11] = RxWhole /\ q9[12] = RxWhole /\ q9[13] = d13 /\ q9[14] = d14
       /\ q9[15] = d15 /\ q9[16] = d16 /\ q9[17] = d17 /\ q9[18] = d18 /\ q9[19] = d19
  BY <1>20, <1>21, <1>22, <1>23
<1>28. p \in Seq(Accesses) /\ Len(p) = 19 BY <1>23, <1>24 DEF A
<1>29. /\ p[1] = Update("EPIND", All, Bits(1)) /\ p[2] = TxWhole /\ p[3] = TxWhole
       /\ p[4] = Update("TXMAXP", 0..12, Bits(512)) /\ p[5] = Update("TXCSR", {14}, {})
  BY <1>24, <1>25 DEF d1, d4, d5
<1>30. /\ p[6] = Update("TXFIFOAD", All, Bits(140)) /\ p[7] = Update("TXFIFOSZ", All, Bits(6))
       /\ p[8] = Update("TXFIFOSZ", {}, {4}) /\ p[9] = Update("INTTxE", {}, {1})
       /\ p[10] = Update("EPIND", All, Bits(2))
  BY <1>24, <1>26 DEF d6, d7, d8, d9, d10
<1>31. /\ p[11] = RxWhole /\ p[12] = RxWhole
       /\ p[13] = Update("RXMAXP", 0..12, Bits(512)) /\ p[14] = Update("RXCSR", {14}, {})
  BY <1>24, <1>27 DEF d13, d14
<1>32. /\ p[15] = Update("RXFIFOAD", All, Bits(12)) /\ p[16] = Update("RXFIFOSZ", All, Bits(6))
       /\ p[17] = Update("RXFIFOSZ", {}, {4}) /\ p[18] = Update("INTRxE", {}, {2})
       /\ p[19] = Update("EPIND", All, Bits(0))
  BY <1>24, <1>27 DEF d15, d16, d17, d18, d19
<1> QED BY <1>28, <1>29, <1>30, <1>31, <1>32 DEF IsBulkReset

(* The endpoints a call is about, the ones it accesses the registers of,   *)
(* and the maximal packet it is given.                                     *)
BulkTargets == {<<"TX", 1>>, <<"RX", 2>>}
Own(c) == IF c.f = "bulk_ep_reset" THEN BulkTargets ELSE {c.x}
Acts(c) ==
  IF c.f = "bulk_ep_reset" THEN BulkTargets ELSE IF c.x = NoTarget THEN {<<"EP0", 0>>} ELSE {c.x}
Packet(c) == IF c.f = "bulk_ep_reset" THEN BULK_FIFOSIZE ELSE c.a

(* Endpoint sel[i] is selected after the i-th access of call c: an access  *)
(* selects it, or is one that c may make to an endpoint of its own.        *)
Follows(g, c, sel) ==
  /\ sel[0] = 0 /\ sel[Len(c.prog)] = 0
  /\ \A i \in 0..Len(c.prog) : sel[i] \in Eps
  /\ \A i \in 1..Len(c.prog) :
       \/ c.prog[i] = Update("EPIND", All, Bits(sel[i]))
       \/ /\ sel[i] = sel[i - 1]
          /\ \E y \in Acts(c) : y[2] = sel[i] /\ c.prog[i] \in Allowed(g, y[1], c.f, Packet(c))

(* The accesses of call c that bring about what it is for at endpoint y.   *)
Brings(c, sel, y, reg) == {k \in 1..Len(c.prog) : sel[k] = y[2] /\ c.prog[k].reg = reg}
(* Call c does to endpoint y what it is for.                               *)
Effects(g, c, sel, y) ==
  /\ CommandBit(g, y[1]) # NoBit =>
       /\ c.f \in Starters =>
            \E k \in Brings(c, sel, y, CsrName(y[1])) : CommandBit(g, y[1]) \in c.prog[k].set
       /\ c.f \in Stoppers =>
            \E k \in Brings(c, sel, y, CsrName(y[1])) : CommandBit(g, y[1]) \in c.prog[k].clr \ c.prog[k].set
  /\ y[1] # "EP0" =>
       /\ c.f \in Configurers \cup {"ConfigEp_Default"} => Brings(c, sel, y, MaxpName(y[1])) # {}
       /\ g = "dev" /\ c.f \in {"ConfigEpDma", "ClearEpDma"} => Brings(c, sel, y, "VEND0") # {}

(* USBC_SelectActiveEp writes EPIND whole.                                 *)
LEMMA SelectFacts ==
  \A n : /\ USBC_SelectActiveEp(n) = <<Update("EPIND", All, Bits(n))>>
         /\ Update("EPIND", All, Bits(n)) \in Accesses
<1> TAKE n
<1>1. USBC_SelectActiveEp(n) = <<Update("EPIND", All, Bits(n))>> BY AccessForms DEF USBC_SelectActiveEp
<1>2. "EPIND" \in Layout /\ All \in SUBSET All BY DEF Layout, Common
<1>3. Update("EPIND", All, Bits(n)) \in Accesses BY <1>2, BitsType DEF Update, Accesses, Here
<1> QED BY <1>1, <1>3

(* A call about endpoint y selects it first and endpoint 0 last.           *)
LEMMA Bracketed ==
  ASSUME NEW g, NEW c, NEW y \in Targets, NEW inner, Good(g, y[1], c.f, c.a, inner),
         c.f # "bulk_ep_reset", c.x = y,
         c.prog = USBC_SelectActiveEp(y[2]) \o inner \o USBC_SelectActiveEp(0)
  PROVE  c.prog \in Seq(Accesses) /\ \E sel : Follows(g, c, sel) /\ Effects(g, c, sel, y)
<1> DEFINE A == Allowed(g, y[1], c.f, c.a)
           M == Len(inner)
           s == <<Update("EPIND", All, Bits(y[2]))>>
           z == <<Update("EPIND", All, Bits(0))>>
           sy == s \o inner
           prog == c.prog
           sel == [i \in 0..(M + 2) |-> IF i = 0 \/ i = M + 2 THEN 0 ELSE y[2]]
<1>1. inner \in Seq(A) /\ M \in Nat /\ A \subseteq Accesses BY DEF Good, Allowed
<1>2. /\ s \in Seq(Accesses) /\ Len(s) = 1 /\ s[1] = Update("EPIND", All, Bits(y[2]))
      /\ z \in Seq(Accesses) /\ Len(z) = 1 /\ z[1] = Update("EPIND", All, Bits(0))
  BY SelectFacts, SeqFacts
<1>3. prog = sy \o z BY SelectFacts
<1>4. inner \in Seq(Accesses)
  <2> HIDE DEF A
  <2> QED BY <1>1
<1> HIDE DEF s, z, A
<1>5. sy \in Seq(Accesses) /\ Glues(sy, s, inner) BY <1>2, <1>4, Glued
<1> HIDE DEF sy
<1>6. prog \in Seq(Accesses) /\ Glues(prog, sy, z) BY <1>2, <1>3, <1>5, Glued
<1>7. Len(sy) = 1 + M BY <1>2, <1>5 DEF Glues
<1>8. /\ Len(prog) = M + 2 /\ prog[1] = Update("EPIND", All, Bits(y[2]))
      /\ prog[M + 2] = Update("EPIND", All, Bits(0))
      /\ \A i \in 1..M : prog[1 + i] = inner[i]
  <2>1. Len(prog) = (1 + M) + 1 /\ (\A i \in 1..(1 + M) : prog[i] = sy[i]) /\ (\A i \in 1..1 : prog[(1 + M) + i] = z[i])
    BY <1>2, <1>6, <1>7 DEF Glues
  <2>2. (\A i \in 1..1 : sy[i] = s[i]) /\ (\A i \in 1..M : sy[1 + i] = inner[i])
    BY <1>2, <1>5 DEF Glues
  <2> HIDE DEF prog
  <2>3. Len(prog) = M + 2 BY <1>1, <2>1
  <2>4. 1 \in 1..(1 + M) /\ 1 \in 1..1 BY <1>1
  <2>5. prog[1] = s[1] BY <2>1, <2>2, <2>4
  <2>6. prog[(1 + M) + 1] = z[1] /\ (1 + M) + 1 = M + 2 BY <1>1, <2>1, <2>4
  <2>7. ASSUME NEW i \in 1..M PROVE prog[1 + i] = inner[i]
    <3>1. 1 + i \in 1..(1 + M) BY <1>1
    <3> QED BY <2>1, <2>2, <3>1
  <2> QED BY <1>2, <2>3, <2>5, <2>6, <2>7
<1> HIDE DEF M
<1>9. sel[0] = 0 /\ sel[M + 2] = 0 /\ \A i \in 1..(M + 1) : sel[i] = y[2] BY <1>1
<1>10. \A i \in 0..(M + 2) : sel[i] \in Eps
  <2>1. y[2] \in Eps /\ 0 \in Eps BY TargetFacts
  <2> QED BY <1>1, <2>1
<1> HIDE DEF sel
<1>11. Acts(c) = {y}
  <2>1. y # NoTarget BY TargetFacts DEF NoTarget
  <2> QED BY <2>1 DEF Acts
<1>12. Packet(c) = c.a BY DEF Packet
<1>13. ASSUME NEW i \in 1..(M + 2)
       PROVE  \/ prog[i] = Update("EPIND", All, Bits(sel[i]))
              \/ /\ sel[i] = sel[i - 1]
                 /\ \E w \in Acts(c) : w[2] = sel[i] /\ prog[i] \in Allowed(g, w[1], c.f, Packet(c))
  <2>1. CASE i = 1
    <3>1. 1 \in 1..(M + 1) BY <1>1
    <3> QED BY <1>8, <1>9, <2>1, <3>1
  <2>2. CASE i = M + 2 BY <1>8, <1>9, <2>2
  <2>3. CASE i # 1 /\ i # M + 2
    <3> DEFINE j == i - 1
    <3>1. j \in 1..M /\ 1 + j = i /\ i \in 1..(M + 1) /\ i - 1 \in 1..(M + 1) BY <1>1, <2>3
    <3>2. prog[i] = inner[j] BY <1>8, <3>1
    <3>3. inner[j] \in A BY <1>1, <3>1 DEF M
    <3> HIDE DEF j
    <3>4. prog[i] \in Allowed(g, y[1], c.f, Packet(c)) BY <1>12, <3>2, <3>3 DEF A
    <3>5. sel[i] = y[2] /\ sel[i - 1] = y[2] BY <1>9, <3>1
    <3> QED BY <1>11, <3>4, <3>5
  <2> QED BY <2>1, <2>2, <2>3
<1>14. Follows(g, c, sel) BY <1>8, <1>9, <1>10, <1>13 DEF Follows
<1>15. ASSUME NEW reg, NEW k \in 1..M, inner[k].reg = reg
       PROVE  1 + k \in Brings(c, sel, y, reg) /\ c.prog[1 + k] = inner[k]
  <2>1. 1 + k \in 1..(M + 2) /\ 1 + k \in 1..(M + 1) BY <1>1
  <2>2. prog[1 + k] = inner[k] /\ sel[1 + k] = y[2] BY <1>8, <1>9, <2>1
  <2>3. Len(c.prog) = M + 2 BY <1>8
  <2> QED BY <1>15, <2>1, <2>2, <2>3 DEF Brings
<1>16. Does(g, y[1], c.f, inner) BY DEF Good
<1>17. Effects(g, c, sel, y)
  <2>1. ASSUME CommandBit(g, y[1]) # NoBit, c.f \in Starters
        PROVE  \E k \in Brings(c, sel, y, CsrName(y[1])) : CommandBit(g, y[1]) \in c.prog[k].set
    <3>1. PICK k \in 1..M : inner[k].reg = CsrName(y[1]) /\ CommandBit(g, y[1]) \in inner[k].set
      BY <1>16, <2>1 DEF Does, M
    <3> QED BY <1>15, <3>1
  <2>2. ASSUME CommandBit(g, y[1]) # NoBit, c.f \in Stoppers
        PROVE  \E k \in Brings(c, sel, y, CsrName(y[1])) : CommandBit(g, y[1]) \in c.prog[k].clr \ c.prog[k].set
    <3>1. PICK k \in 1..M : inner[k].reg = CsrName(y[1]) /\ CommandBit(g, y[1]) \in inner[k].clr \ inner[k].set
      BY <1>16, <2>2 DEF Does, M
    <3> QED BY <1>15, <3>1
  <2>3. ASSUME y[1] # "EP0", c.f \in Configurers \cup {"ConfigEp_Default"}
        PROVE  Brings(c, sel, y, MaxpName(y[1])) # {}
    <3>1. PICK k \in 1..M : inner[k].reg = MaxpName(y[1]) BY <1>16, <2>3 DEF Does, M
    <3> QED BY <1>15, <3>1
  <2>4. ASSUME y[1] # "EP0", g = "dev", c.f \in {"ConfigEpDma", "ClearEpDma"}
        PROVE  Brings(c, sel, y, "VEND0") # {}
    <3>1. PICK k \in 1..M : inner[k].reg = "VEND0" BY <1>16, <2>4 DEF Does, M
    <3> QED BY <1>15, <3>1
  <2> QED BY <2>1, <2>2, <2>3, <2>4 DEF Effects
<1> QED BY <1>6, <1>14, <1>17

(* One about no endpoint is made with endpoint 0 selected.                 *)
LEMMA Unbracketed ==
  ASSUME NEW g, NEW c, NEW inner, Good(g, "EP0", c.f, c.a, inner),
         c.f # "bulk_ep_reset", c.x = NoTarget, c.prog = inner \o USBC_SelectActiveEp(0)
  PROVE  c.prog \in Seq(Accesses) /\ \E sel : Follows(g, c, sel)
<1> DEFINE A == Allowed(g, "EP0", c.f, c.a)
           M == Len(inner)
           z == <<Update("EPIND", All, Bits(0))>>
           prog == c.prog
           sel == [i \in 0..(M + 1) |-> 0]
<1>1. inner \in Seq(A) /\ M \in Nat /\ A \subseteq Accesses BY DEF Good, Allowed
<1>2. z \in Seq(Accesses) /\ Len(z) = 1 /\ z[1] = Update("EPIND", All, Bits(0)) BY SelectFacts, SeqFacts
<1>3. prog = inner \o z BY SelectFacts
<1>4. inner \in Seq(Accesses)
  <2> HIDE DEF A
  <2> QED BY <1>1
<1> HIDE DEF z, A
<1>5. prog \in Seq(Accesses) /\ Glues(prog, inner, z) BY <1>2, <1>3, <1>4, Glued
<1>6. /\ Len(prog) = M + 1 /\ (\A i \in 1..M : prog[i] = inner[i]) /\ prog[M + 1] = Update("EPIND", All, Bits(0))
  <2>1. Len(prog) = M + 1 /\ (\A i \in 1..M : prog[i] = inner[i]) /\ \A i \in 1..1 : prog[M + i] = z[i]
    BY <1>2, <1>5 DEF Glues
  <2>2. 1 \in 1..1 OBVIOUS
  <2> HIDE DEF prog
  <2>3. prog[M + 1] = z[1] BY <2>1, <2>2
  <2> QED BY <1>2, <2>1, <2>3
<1> HIDE DEF M
<1>7. \A i \in 0..(M + 1) : sel[i] = 0 OBVIOUS
<1>8. sel[0] = 0 /\ sel[M + 1] = 0 BY <1>1
<1>9. Acts(c) = {<<"EP0", 0>>} /\ Packet(c) = c.a BY DEF Acts, Packet
<1> HIDE DEF sel
<1>10. ASSUME NEW i \in 1..(M + 1)
       PROVE  \/ prog[i] = Update("EPIND", All, Bits(sel[i]))
              \/ /\ sel[i] = sel[i - 1]
                 /\ \E w \in Acts(c) : w[2] = sel[i] /\ prog[i] \in Allowed(g, w[1], c.f, Packet(c))
  <2>0. sel[i] = 0 /\ sel[i - 1] = 0
    <3>1. i \in 0..(M + 1) /\ i - 1 \in 0..(M + 1) BY <1>1
    <3> QED BY <1>7, <3>1
  <2>1. CASE i = M + 1 BY <1>6, <2>0, <2>1
  <2>2. CASE i # M + 1
    <3>1. i \in 1..M BY <1>1, <2>2
    <3>2. prog[i] \in A BY <1>1, <1>6, <3>1 DEF M
    <3> DEFINE w == <<"EP0", 0>>
    <3>3. w \in Acts(c) /\ w[2] = 0 /\ w[1] = "EP0" BY <1>9
    <3> HIDE DEF w
    <3>4. prog[i] \in Allowed(g, w[1], c.f, Packet(c)) BY <1>9, <3>2, <3>3 DEF A
    <3> QED BY <2>0, <3>3, <3>4
  <2> QED BY <2>1, <2>2
<1>11. 0 \in Eps BY TargetFacts
<1>12. Follows(g, c, sel) BY <1>6, <1>7, <1>8, <1>10, <1>11 DEF Follows
<1> QED BY <1>5, <1>12

(* The endpoint that is selected after each access of usb_bulk_ep_reset.   *)
BulkSel == [i \in 0..19 |-> IF i \in 1..9 THEN 1 ELSE IF i \in 10..18 THEN 2 ELSE 0]

(* usb_bulk_ep_reset has the shape of a call.                              *)
LEMMA BulkShape ==
  ASSUME NEW n \in Sizes, NEW c, c.f = "bulk_ep_reset", c.x = NoTarget,
         c.prog = usb_bulk_ep_reset(BULK_FIFOSIZE, n) \o USBC_SelectActiveEp(0)
  PROVE  /\ c.prog \in Seq(Accesses) /\ Len(c.prog) = 19 /\ Follows("dev", c, BulkSel)
         /\ \A y \in BulkTargets : Effects("dev", c, BulkSel, y)
<1> DEFINE p == c.prog
           tx == Allowed("dev", "TX", "bulk_ep_reset", BULK_FIFOSIZE)
           rx == Allowed("dev", "RX", "bulk_ep_reset", BULK_FIFOSIZE)
<1>0. IsBulkReset(p)
  <2>1. p = usb_bulk_ep_reset(BULK_FIFOSIZE, n) \o USBC_SelectActiveEp(0) OBVIOUS
  <2> HIDE DEF p
  <2> QED BY <2>1, BulkAccesses
<1> HIDE DEF p
<1>1. /\ p \in Seq(Accesses) /\ Len(p) = 19
      /\ p[1] = Update("EPIND", All, Bits(1))
      /\ p[2] = TxWhole /\ p[3] = TxWhole
      /\ p[4] = Update("TXMAXP", 0..12, Bits(512)) /\ p[5] = Update("TXCSR", {14}, {})
      /\ p[6] = Update("TXFIFOAD", All, Bits(140)) /\ p[7] = Update("TXFIFOSZ", All, Bits(6))
      /\ p[8] = Update("TXFIFOSZ", {}, {4}) /\ p[9] = Update("INTTxE", {}, {1})
      /\ p[10] = Update("EPIND", All, Bits(2))
      /\ p[11] = RxWhole /\ p[12] = RxWhole
      /\ p[13] = Update("RXMAXP", 0..12, Bits(512)) /\ p[14] = Update("RXCSR", {14}, {})
      /\ p[15] = Update("RXFIFOAD", All, Bits(12)) /\ p[16] = Update("RXFIFOSZ", All, Bits(6))
      /\ p[17] = Update("RXFIFOSZ", {}, {4}) /\ p[18] = Update("INTRxE", {}, {2})
      /\ p[19] = Update("EPIND", All, Bits(0))
  BY <1>0 DEF IsBulkReset
<1>2. /\ All \in SUBSET All /\ {} \in SUBSET All /\ {13, 6, 3} \in SUBSET All /\ {7, 4} \in SUBSET All
      /\ {14} \in SUBSET All /\ {4} \in SUBSET All /\ {1} \in SUBSET All /\ {2} \in SUBSET All /\ 0..12 \in SUBSET All
      /\ \A m : Bits(m) \in SUBSET All
  BY BitsType DEF All
<1>3. /\ CommandBit("dev", "TX") = 4 /\ CommandBit("dev", "RX") = 5 /\ NoBit = -1
      /\ CsrName("TX") = "TXCSR" /\ CsrName("RX") = "RXCSR" /\ MaxpName("TX") = "TXMAXP" /\ MaxpName("RX") = "RXMAXP"
  BY DEF CommandBit, NoBit, CsrName, MaxpName
<1>4. "bulk_ep_reset" \in Stoppers /\ "bulk_ep_reset" \notin Starters /\ "bulk_ep_reset" \in Configurers
  BY DEF Stoppers, Starters, Configurers
<1>5. /\ \A clr, set : 4 \notin set => Fits("dev", "TX", "bulk_ep_reset", BULK_FIFOSIZE, "TXCSR", clr, set)
      /\ \A clr, set : 5 \notin set => Fits("dev", "RX", "bulk_ep_reset", BULK_FIFOSIZE, "RXCSR", clr, set)
  BY <1>3, <1>4 DEF Fits
<1>6. /\ Fits("dev", "TX", "bulk_ep_reset", BULK_FIFOSIZE, "TXMAXP", 0..12, Bits(512))
      /\ Fits("dev", "RX", "bulk_ep_reset", BULK_FIFOSIZE, "RXMAXP", 0..12, Bits(512))
  BY <1>3, <1>4, FifoNumbers DEF Fits
<1>7. /\ \A reg \in {"TXFIFOAD", "TXFIFOSZ", "INTTxE"} : \A clr, set : Fits("dev", "TX", "bulk_ep_reset", BULK_FIFOSIZE, reg, clr, set)
      /\ \A reg \in {"RXFIFOAD", "RXFIFOSZ", "INTRxE"} : \A clr, set : Fits("dev", "RX", "bulk_ep_reset", BULK_FIFOSIZE, reg, clr, set)
  BY DEF Fits, FifoRegs
<1>27. \A reg \in Layout : \A clr, set \in SUBSET All :
        /\ Fits("dev", "TX", "bulk_ep_reset", BULK_FIFOSIZE, reg, clr, set) => Update(reg, clr, set) \in tx
        /\ Fits("dev", "RX", "bulk_ep_reset", BULK_FIFOSIZE, reg, clr, set) => Update(reg, clr, set) \in rx
  BY AllowedFacts
<1> HIDE DEF tx, rx
<1>8. TxWhole \in tx /\ Update("TXCSR", {14}, {}) \in tx
  <2>1. 4 \notin {13, 6, 3} /\ 4 \notin {} OBVIOUS
  <2> QED BY <1>2, <1>5, <1>27, <2>1, RegNames DEF TxWhole
<1>9. Update("TXMAXP", 0..12, Bits(512)) \in tx BY <1>2, <1>6, <1>27, RegNames
<1>10. /\ Update("TXFIFOAD", All, Bits(140)) \in tx /\ Update("TXFIFOSZ", All, Bits(6)) \in tx
       /\ Update("TXFIFOSZ", {}, {4}) \in tx /\ Update("INTTxE", {}, {1}) \in tx
  BY <1>2, <1>7, <1>27, RegNames
<1>11. RxWhole \in rx /\ Update("RXCSR", {14}, {}) \in rx
  <2>1. 5 \notin {7, 4} /\ 5 \notin {} OBVIOUS
  <2> QED BY <1>2, <1>5, <1>27, <2>1, RegNames DEF RxWhole
<1>12. Update("RXMAXP", 0..12, Bits(512)) \in rx BY <1>2, <1>6, <1>27, RegNames
<1>13. /\ Update("RXFIFOAD", All, Bits(12)) \in rx /\ Update("RXFIFOSZ", All, Bits(6)) \in rx
       /\ Update("RXFIFOSZ", {}, {4}) \in rx /\ Update("INTRxE", {}, {2}) \in rx
  BY <1>2, <1>7, <1>27, RegNames
<1>14. \A i \in 2..9 : p[i] \in tx
  <2>1. \A i \in 2..9 : i \in {2, 3, 4, 5, 6, 7, 8, 9} OBVIOUS
  <2> QED BY <1>1, <1>8, <1>9, <1>10, <2>1
<1>15. \A i \in 11..18 : p[i] \in rx
  <2>1. \A i \in 11..18 : i \in {11, 12, 13, 14, 15, 16, 17, 18} OBVIOUS
  <2> QED BY <1>1, <1>11, <1>12, <1>13, <2>1
<1> DEFINE sel == BulkSel
<1>16. /\ sel[0] = 0 /\ sel[19] = 0 /\ (\A i \in 1..9 : sel[i] = 1) /\ (\A i \in 10..18 : sel[i] = 2)
       /\ \A i \in 0..19 : sel[i] \in {0, 1, 2}
  BY DEF BulkSel
<1> HIDE DEF sel
<1>17. Acts(c) = BulkTargets /\ Packet(c) = BULK_FIFOSIZE BY DEF Acts, Packet
<1> DEFINE u == <<"TX", 1>>
           v == <<"RX", 2>>
<1>18. u \in BulkTargets /\ u[1] = "TX" /\ u[2] = 1 /\ v \in BulkTargets /\ v[1] = "RX" /\ v[2] = 2
       /\ \A y \in BulkTargets : y = u \/ y = v
  BY DEF BulkTargets
<1> HIDE DEF u, v
<1>19. ASSUME NEW i \in 1..19
       PROVE  \/ p[i] = Update("EPIND", All, Bits(sel[i]))
              \/ /\ sel[i] = sel[i - 1]
                 /\ \E w \in Acts(c) : w[2] = sel[i] /\ p[i] \in Allowed("dev", w[1], c.f, Packet(c))
  <2>1. i = 1 \/ i = 10 \/ i = 19 \/ i \in 2..9 \/ i \in 11..18 OBVIOUS
  <2>2. CASE i = 1 \/ i = 10 \/ i = 19
    <3>1. sel[1] = 1 /\ sel[10] = 2 BY <1>16
    <3> QED BY <1>1, <1>16, <2>2, <3>1
  <2>3. CASE i \in 2..9
    <3>1. i \in 1..9 /\ i - 1 \in 1..9 BY <2>3
    <3>2. sel[i] = 1 /\ sel[i - 1] = 1 BY <1>16, <3>1
    <3>3. p[i] \in Allowed("dev", u[1], c.f, Packet(c)) BY <1>14, <1>17, <1>18, <2>3 DEF tx
    <3> QED BY <1>17, <1>18, <3>2, <3>3
  <2>4. CASE i \in 11..18
    <3>1. i \in 10..18 /\ i - 1 \in 10..18 BY <2>4
    <3>2. sel[i] = 2 /\ sel[i - 1] = 2 BY <1>16, <3>1
    <3>3. p[i] \in Allowed("dev", v[1], c.f, Packet(c)) BY <1>15, <1>17, <1>18, <2>4 DEF rx
    <3> QED BY <1>17, <1>18, <3>2, <3>3
  <2> QED BY <2>1, <2>2, <2>3, <2>4
<1>20. {0, 1, 2} \subseteq Eps BY TargetFacts
<1>21. \A i \in 0..19 : sel[i] \in Eps BY <1>16, <1>20
<1>22. Follows("dev", c, sel) BY <1>1, <1>16, <1>19, <1>21 DEF Follows, p
<1>23. /\ 2 \in Brings(c, sel, u, "TXCSR") /\ 4 \in c.prog[2].clr \ c.prog[2].set
       /\ 4 \in Brings(c, sel, u, "TXMAXP")
  <2>1. sel[2] = 1 /\ sel[4] = 1 /\ 2 \in 1..19 /\ 4 \in 1..19 BY <1>16
  <2>2. p[2].reg = "TXCSR" /\ p[4].reg = "TXMAXP" /\ p[2].clr = All /\ p[2].set = {13, 6, 3}
    <3>1. TxWhole.reg = "TXCSR" /\ TxWhole.clr = All /\ TxWhole.set = {13, 6, 3}
      BY AccessForms DEF TxWhole
    <3> QED BY <1>1, <3>1, AccessForms
  <2>3. 4 \in All /\ 4 \notin {13, 6, 3} BY DEF All
  <2>4. \A y, reg : \A k \in 1..19 : sel[k] = y[2] /\ p[k].reg = reg => k \in Brings(c, sel, y, reg)
    BY <1>1 DEF Brings, p
  <2> QED BY <1>18, <2>1, <2>2, <2>3, <2>4 DEF p
<1>24. /\ 11 \in Brings(c, sel, v, "RXCSR") /\ 5 \in c.prog[11].clr \ c.prog[11].set
       /\ 13 \in Brings(c, sel, v, "RXMAXP")
  <2>1. sel[11] = 2 /\ sel[13] = 2 /\ 11 \in 1..19 /\ 13 \in 1..19 BY <1>16
  <2>2. p[11].reg = "RXCSR" /\ p[13].reg = "RXMAXP" /\ p[11].clr = All /\ p[11].set = {7, 4}
    <3>1. RxWhole.reg = "RXCSR" /\ RxWhole.clr = All /\ RxWhole.set = {7, 4}
      BY AccessForms DEF RxWhole
    <3> QED BY <1>1, <3>1, AccessForms
  <2>3. 5 \in All /\ 5 \notin {7, 4} BY DEF All
  <2>4. \A y, reg : \A k \in 1..19 : sel[k] = y[2] /\ p[k].reg = reg => k \in Brings(c, sel, y, reg)
    BY <1>1 DEF Brings, p
  <2> QED BY <1>18, <2>1, <2>2, <2>3, <2>4 DEF p
<1>25. Effects("dev", c, sel, u)
  BY <1>3, <1>4, <1>18, <1>23 DEF Effects
<1>26. Effects("dev", c, sel, v)
  BY <1>3, <1>4, <1>18, <1>24 DEF Effects
<1> QED BY <1>1, <1>18, <1>22, <1>25, <1>26 DEF p, sel

(* The names of the calls about a target, and their maximal packets.       *)
Sized(c) == c.f # "bulk_ep_reset" /\ (c.f = "ConfigEp" => c.a \in Sizes)

(* A function with another name than these two gives no maximal packet.    *)
LEMMA SizedForms ==
  ASSUME NEW c,
         \/ \E n \in Sizes : \E prog : c = CallOf("ConfigEp", n, prog)
         \/ \E f : \E prog : f \notin {"ConfigEp", "bulk_ep_reset"} /\ c = CallOf(f, 0, prog)
  PROVE  Sized(c)
BY DEF Sized, CallOf

(* The maximal packets given on the device side.                           *)
LEMMA DevSized ==
  ASSUME NEW t, NEW c \in DevCalls(t)
  PROVE  Sized(c)
<1> DEFINE configs == {CallOf("ConfigEp", n, USBC_Dev_ConfigEp(ty, t, d, n)) :
                        ty \in {"ISO", "INT", "BULK"}, d \in BOOLEAN, n \in Sizes}
           plain == {CallOf("ConfigEp_Default", 0, USBC_Dev_ConfigEp_Default(t)),
                     CallOf("FlushFifo", 0, USBC_Dev_FlushFifo(t)),
                     CallOf("ConfigEpDma", 0, USBC_Dev_ConfigEpDma(t)),
                     CallOf("ClearEpDma", 0, USBC_Dev_ClearEpDma(t)),
                     CallOf("EpSendStall", 0, USBC_Dev_EpSendStall(t)),
                     CallOf("EpClearStall", 0, USBC_Dev_EpClearStall(t))}
           writes == {CallOf("WriteDataStatus", 0, USBC_Dev_WriteDataStatus(t, d)) : d \in BOOLEAN}
           reads == {CallOf("ReadDataStatus", 0, USBC_Dev_ReadDataStatus(t, d)) : d \in BOOLEAN}
           other == \E f : \E prog : f \notin {"ConfigEp", "bulk_ep_reset"} /\ c = CallOf(f, 0, prog)
<1>1. c \in configs \cup plain \cup writes \cup reads
  <2>1. DevCalls(t) = configs \cup plain \cup writes \cup reads BY SMT DEF DevCalls
  <2> QED BY <2>1
<1>2. c \in configs => \E n \in Sizes : \E prog : c = CallOf("ConfigEp", n, prog) BY SMT
<1>3. c \in plain => other
  <2>1. \A f \in {"ConfigEp_Default", "FlushFifo", "ConfigEpDma", "ClearEpDma", "EpSendStall", "EpClearStall"} :
          f \notin {"ConfigEp", "bulk_ep_reset"}
    OBVIOUS
  <2>2. c \in plain => \E f \in {"ConfigEp_Default", "FlushFifo", "ConfigEpDma", "ClearEpDma", "EpSendStall", "EpClearStall"} : \E prog :
           c = CallOf(f, 0, prog)
    BY Zenon
  <2> QED BY <2>1, <2>2
<1>4. c \in writes \cup reads => other
  <2>1. \A f \in {"WriteDataStatus", "ReadDataStatus"} : f \notin {"ConfigEp", "bulk_ep_reset"} OBVIOUS
  <2>2. c \in writes \cup reads => \E f \in {"WriteDataStatus", "ReadDataStatus"} : \E prog : c = CallOf(f, 0, prog) BY Zenon
  <2> QED BY <2>1, <2>2
<1> HIDE DEF configs, plain, writes, reads
<1> QED BY <1>1, <1>2, <1>3, <1>4, SizedForms

(* The maximal packets given on the host side.                             *)
LEMMA HostSized ==
  ASSUME NEW t, NEW ep, NEW c \in HostCalls(t, ep)
  PROVE  Sized(c)
<1> DEFINE configs == {CallOf("ConfigEp", n, USBC_Host_ConfigEp(t, ep, m, ty, DoubleFifo, n, 8)) :
                        m \in {"HS", "LS"}, ty \in {"BULK", "INT"}, n \in Sizes}
           writes == {CallOf("WriteDataStatus", 0, USBC_Host_WriteDataStatus(t, d)) : d \in BOOLEAN}
           reads == {CallOf("ReadDataStatus", 0, USBC_Host_ReadDataStatus(t, d)) : d \in BOOLEAN}
           plain ==
             {CallOf("ConfigEp_Default", 0, USBC_Host_ConfigEp_Default(t)),
              CallOf("FlushFifo", 0, USBC_Host_FlushFifo(t)),
              CallOf("ConfigEpDma", 0, USBC_Host_ConfigEpDma(t)),
              CallOf("ClearEpDma", 0, USBC_Host_ClearEpDma(t)),
              CallOf("ClearEpNakTimeOut", 0, USBC_Host_ClearEpNakTimeOut(t)),
              CallOf("ClearEpError", 0, USBC_Host_ClearEpError(t)),
              CallOf("ClearEpStall", 0, USBC_Host_ClearEpStall(t)),
              CallOf("ClearEpCSR", 0, USBC_Host_ClearEpCSR(t)),
              CallOf("StartInToken", 0, USBC_Host_StartInToken(t)),
              CallOf("StopInToken", 0, USBC_Host_StopInToken(t)),
              CallOf("Address", 0, USBC_Host_SetFunctionAddress(t, ep, 3, ManyTT, 1, 2)),
              CallOf("Address", 0, USBC_Host_SetFunctionAddress_Deafult(t, ep)),
              CallOf("Address", 0, USBC_Host_SetHubAddress(t, ep, OneTT, 1)
                                   \o USBC_Host_SetHPortAddress(t, ep, 2)),
              CallOf("Address", 0, USBC_Host_SetHubAddress_Deafult(t, ep)
                                   \o USBC_Host_SetHPortAddress_Deafult(t, ep)),
              CallOf("RqPktCount", 0, USBC_Host_ConfigRqPktCount(ep, 1)),
              CallOf("RqPktCount", 0, USBC_Host_ClearRqPktCount(ep))}
           names == {"ConfigEp_Default", "FlushFifo", "ConfigEpDma", "ClearEpDma", "ClearEpNakTimeOut",
                     "ClearEpError", "ClearEpStall", "ClearEpCSR", "StartInToken", "StopInToken",
                     "Address", "RqPktCount", "WriteDataStatus", "ReadDataStatus"}
           other == \E f : \E prog : f \notin {"ConfigEp", "bulk_ep_reset"} /\ c = CallOf(f, 0, prog)
<1>1. c \in configs \cup plain \cup writes \cup reads
  <2>1. HostCalls(t, ep) = configs \cup plain \cup writes \cup reads BY SMT DEF HostCalls
  <2> QED BY <2>1
<1>2. c \in configs => \E n \in Sizes : \E prog : c = CallOf("ConfigEp", n, prog) BY SMT
<1>3. c \in plain \cup writes \cup reads => other
  <2>1. \A f \in names : f \notin {"ConfigEp", "bulk_ep_reset"} OBVIOUS
  <2>2. c \in plain => \E f \in names : \E prog : c = CallOf(f, 0, prog) BY Zenon
  <2>3. c \in writes \cup reads => \E f \in names : \E prog : c = CallOf(f, 0, prog) BY Zenon
  <2> QED BY <2>1, <2>2, <2>3
<1> HIDE DEF configs, plain, writes, reads
<1> QED BY <1>1, <1>2, <1>3, SizedForms

(* What is known of a call of the device or the host side.                 *)
Touchers == Droppers \cup Starters \cup Stoppers \cup Configurers \cup {"ConfigEpDma", "ClearEpDma"}
(* What every call of the two sides is like.                               *)
Shape(g, c) ==
  /\ c.prog \in Seq(Accesses)
  /\ Acts(c) \subseteq Targets
  /\ c.f \in Touchers => Acts(c) = Own(c)
  /\ c.f = "ConfigEp" => c.a \in Sizes
  /\ c.f = "bulk_ep_reset" => g = "dev" /\ IsBulkReset(c.prog) /\ Follows(g, c, BulkSel)
  /\ \E sel : /\ Follows(g, c, sel)
              /\ \A y \in Own(c) \cap Targets : Effects(g, c, sel, y)

(* Every call of their menus has that shape.                               *)
LEMMA Shapes ==
  ASSUME NEW g \in Groups \cap {"dev", "host"}, NEW c \in Menu[g]
  PROVE  Shape(g, c)
<1>1. PICK x \in Targets \cup {NoTarget} : \E d \in CallsFor(g, x) :
        c = [x |-> x, f |-> d.f, a |-> d.a, prog |-> Bracket(x, d.prog)]
  BY DEF Menu
<1>2. PICK d \in CallsFor(g, x) : c = [x |-> x, f |-> d.f, a |-> d.a, prog |-> Bracket(x, d.prog)]
  BY <1>1
<1>3. c.x = x /\ c.f = d.f /\ c.a = d.a /\ c.prog = Bracket(x, d.prog) BY <1>2
<1>4. NoTarget \notin Targets BY TargetFacts DEF NoTarget
<1>5. <<"EP0", 0>> \in Targets BY TargetFacts
<1>6. CASE x # NoTarget
  <2>1. x \in Targets BY <1>6
  <2>2. Good(g, x[1], c.f, c.a, d.prog) /\ Sized(c)
    <3>1. x[1] \in {"EP0", "TX", "RX"} /\ x[2] \in Eps /\ (x[2] = 0 <=> x[1] = "EP0") BY <2>1, TargetFacts
    <3>2. CASE g = "dev"
      <4>1. d \in DevCalls(x[1]) BY <1>6, <3>2 DEF CallsFor
      <4>2. Good("dev", x[1], d.f, d.a, d.prog)
        <5>1. CASE x[1] = "EP0" BY <4>1, <5>1, DevEp0Calls
        <5>2. CASE x[1] = "TX" BY <4>1, <5>2, DevTxCalls
        <5>3. CASE x[1] = "RX" BY <4>1, <5>3, DevRxCalls
        <5> QED BY <3>1, <5>1, <5>2, <5>3
      <4>3. Sized(d) BY <4>1, DevSized
      <4> QED BY <1>3, <3>2, <4>2, <4>3 DEF Sized
    <3>3. CASE g = "host" /\ d \in HostCalls(x[1], x[2])
      <4>2. Good("host", x[1], d.f, d.a, d.prog)
        <5>1. CASE x[1] = "EP0" BY <3>1, <3>3, <5>1, HostEp0Calls
        <5>2. CASE x[1] = "TX" BY <3>1, <3>3, <5>2, HostTxCalls
        <5>3. CASE x[1] = "RX" BY <3>1, <3>3, <5>3, HostRxCalls
        <5> QED BY <3>1, <5>1, <5>2, <5>3
      <4>3. Sized(d) BY <3>3, HostSized
      <4> QED BY <1>3, <3>3, <4>2, <4>3 DEF Sized
    <3>4. CASE g = "host" /\ d \in HostControl /\ x[2] = 0
      <4>1. d.a = 0 /\ Good("host", "EP0", d.f, 0, d.prog) BY <3>4, HostControlCalls
      <4>2. \E f : \E prog : f \notin {"ConfigEp", "bulk_ep_reset"} /\ d = CallOf(f, 0, prog)
        <5>1. \A f \in {"Ping", "NoPing", "SendSetupPkt", "StatusAfterIn", "StartInToken"} :
                f \notin {"ConfigEp", "bulk_ep_reset"}
          OBVIOUS
        <5>2. \E f \in {"Ping", "NoPing", "SendSetupPkt", "StatusAfterIn", "StartInToken"} : \E prog : d = CallOf(f, 0, prog)
          BY <3>4, Zenon DEF HostControl
        <5> QED BY <5>1, <5>2
      <4>3. Sized(d) BY <4>2, SizedForms
      <4> QED BY <1>3, <3>1, <3>4, <4>1, <4>3 DEF Sized
    <3>5. g = "host" => d \in HostCalls(x[1], x[2]) \/ (d \in HostControl /\ x[2] = 0)
      BY <1>6 DEF CallsFor
    <3> QED BY <3>2, <3>3, <3>4, <3>5
  <2>3. c.prog = USBC_SelectActiveEp(x[2]) \o d.prog \o USBC_SelectActiveEp(0) BY <1>3, <1>6 DEF Bracket
  <2>4. c.f # "bulk_ep_reset" /\ (c.f = "ConfigEp" => c.a \in Sizes) BY <2>2 DEF Sized
  <2> DEFINE inner == d.prog
  <2>5. Good(g, x[1], c.f, c.a, inner) /\ c.prog = USBC_SelectActiveEp(x[2]) \o inner \o USBC_SelectActiveEp(0)
    BY <2>2, <2>3
  <2> HIDE DEF inner
  <2>6. c.prog \in Seq(Accesses) /\ \E sel : Follows(g, c, sel) /\ Effects(g, c, sel, x)
    BY <1>3, <2>1, <2>4, <2>5, Bracketed
  <2>7. Acts(c) = {x} /\ Own(c) = {x} BY <1>3, <1>6, <2>4 DEF Acts, Own
  <2> QED BY <2>1, <2>4, <2>6, <2>7 DEF Shape
<1>7. CASE x = NoTarget /\ d.f # "bulk_ep_reset"
  <2>1. d.f \in Plain /\ d.a = 0 /\ Good(g, "EP0", d.f, 0, d.prog)
    <3>1. CASE g = "dev"
      <4>1. d \in DevGeneral BY <1>7, <3>1 DEF CallsFor
      <4> QED BY <1>7, <3>1, <4>1, DevGeneralCalls
    <3>2. CASE g = "host"
      <4>1. d \in HostGeneral BY <1>7, <3>2 DEF CallsFor
      <4> QED BY <3>2, <4>1, HostGeneralCalls
    <3> QED BY <3>1, <3>2
  <2>2. c.f \notin Touchers BY <1>3, <2>1, PlainFacts DEF Touchers
  <2>3. c.f # "ConfigEp" /\ c.f # "bulk_ep_reset" BY <2>2 DEF Touchers, Configurers
  <2> DEFINE inner == d.prog
  <2>4. Good(g, "EP0", c.f, c.a, inner) /\ c.prog = inner \o USBC_SelectActiveEp(0)
    BY <1>3, <1>7, <2>1 DEF Bracket
  <2> HIDE DEF inner
  <2>5. c.prog \in Seq(Accesses) /\ \E sel : Follows(g, c, sel) BY <1>3, <1>7, <2>3, <2>4, Unbracketed
  <2>6. Acts(c) = {<<"EP0", 0>>} /\ Own(c) = {NoTarget} BY <1>3, <1>7, <2>3 DEF Acts, Own
  <2>7. Own(c) \cap Targets = {} BY <1>4, <2>6
  <2> QED BY <1>5, <2>2, <2>3, <2>5, <2>6, <2>7 DEF Shape
<1>8. CASE x = NoTarget /\ d.f = "bulk_ep_reset"
  <2>1. g = "dev"
    <3>1. g = "host" => d \in HostGeneral BY <1>8 DEF CallsFor
    <3>2. "bulk_ep_reset" \notin Plain BY DEF Plain
    <3> QED BY <1>8, <3>1, <3>2, HostGeneralCalls
  <2>2. \E n \in Sizes : d = CallOf("bulk_ep_reset", n, usb_bulk_ep_reset(BULK_FIFOSIZE, n))
    <3> DEFINE modes == {CallOf("TransferMode", 0, USBC_Dev_ConfigTransferMode(ty, s)) :
                           ty \in {"CTRL", "ISO", "INT", "BULK"}, s \in {"HS", "FS", "LS"}}
               switches == {CallOf("ConectSwitch", 0, USBC_Dev_ConectSwitch(on)) : on \in BOOLEAN}
               resets == {CallOf("bulk_ep_reset", n, usb_bulk_ep_reset(BULK_FIFOSIZE, n)) : n \in Sizes}
               rest == {CallOf("SetAddress", 0, USBC_Dev_SetAddress(5)),
                        CallOf("SetAddress", 0, USBC_Dev_SetAddress_default),
                        CallOf("IsoUpdateEnable", 0, USBC_Dev_IsoUpdateEnable),
                        CallOf("ClearSetupEnd", 0, USBC_Dev_Ctrl_ClearSetupEnd)}
               names == {"TransferMode", "ConectSwitch", "SetAddress", "IsoUpdateEnable", "ClearSetupEnd"}
    <3>1. d \in modes \cup switches \cup resets \cup rest
      <4>1. d \in DevGeneral BY <1>8, <2>1 DEF CallsFor
      <4>2. DevGeneral = modes \cup switches \cup resets \cup rest BY SMT DEF DevGeneral
      <4> QED BY <4>1, <4>2
    <3>2. d \in modes => \E f \in names : \E prog : d = CallOf(f, 0, prog) BY SMT
    <3>3. d \in switches \cup rest => \E f \in names : \E prog : d = CallOf(f, 0, prog) BY Zenon
    <3>4. d \in resets => \E n \in Sizes : d = CallOf("bulk_ep_reset", n, usb_bulk_ep_reset(BULK_FIFOSIZE, n))
      OBVIOUS
    <3> HIDE DEF modes, switches, resets, rest
    <3>5. ~ \E f \in names : \E prog : d = CallOf(f, 0, prog) BY <1>8 DEF CallOf
    <3> QED BY <3>1, <3>2, <3>3, <3>4, <3>5
  <2>3. PICK n \in Sizes : d = CallOf("bulk_ep_reset", n, usb_bulk_ep_reset(BULK_FIFOSIZE, n)) BY <2>2
  <2> DEFINE p == c.prog
  <2>4. p = usb_bulk_ep_reset(BULK_FIFOSIZE, n) \o USBC_SelectActiveEp(0)
    BY <1>3, <1>8, <2>3 DEF Bracket, CallOf
  <2>5. /\ c.prog \in Seq(Accesses) /\ Follows("dev", c, BulkSel)
        /\ \A y \in BulkTargets : Effects("dev", c, BulkSel, y)
    BY <1>3, <1>8, <2>4, BulkShape
  <2> HIDE DEF p
  <2>6. IsBulkReset(p) BY <2>4, BulkAccesses
  <2>7. Acts(c) = BulkTargets /\ Own(c) = BulkTargets BY <1>3, <1>8 DEF Acts, Own
  <2>8. BulkTargets \subseteq Targets BY TargetFacts DEF BulkTargets
  <2>9. c.f = "bulk_ep_reset" BY <1>3, <1>8
  <2> QED BY <2>1, <2>5, <2>6, <2>7, <2>8, <2>9 DEF Shape, p
<1> QED BY <1>6, <1>7, <1>8

-----------------------------------------------------------------------------
(* What one access, raced or not, does to the registers.                   *)

(* The registers of endpoint x.                                            *)
CsrAt(R, x) == R.e[CsrOf(x)][x[2]]
MaxpAt(R, x) == R.e[MaxpName(x[1])][x[2]]
EndTargets == Targets \ {<<"EP0", 0>>}

(* Access o of call c, which event e disturbs: endpoint p is selected      *)
(* before it and s after it.                                               *)
Turn(c, R, o, e, p, s) ==
  /\ R \in Registers /\ o \in Accesses /\ e \in AnyEvent
  /\ p \in Eps /\ s \in Eps /\ R.c["EPIND"] = Bits(p)
  /\ \/ o = Update("EPIND", All, Bits(s))
     \/ s = p /\ \E y \in Acts(c) : y[2] = s /\ o \in Allowed(group, y[1], c.f, Packet(c))

(* The group is the one of a side.                                         *)
Sided == group \in {"dev", "host"}

(* Such an access is for the endpoint that is selected, and for one that   *)
(* the call is about.                                                      *)
Turned(c, R, o, e, s, U, M) ==
  /\ U \in Registers /\ U.c["EPIND"] = Bits(s)
  /\ U.c["VEND0"] = IF o.reg = "VEND0" THEN (R.c["VEND0"] \ o.clr) \cup o.set ELSE R.c["VEND0"]
  /\ \A r \in Banked : \A y \in Eps :
       U.e[r][y] = IF o.reg = r /\ s = y
                   THEN Land(Host, r, y, M.e[r][y], (R.e[r][y] \ o.clr) \cup o.set)
                   ELSE M.e[r][y]
  /\ o.reg \in Banked \cup {"VEND0"} =>
       \E y \in Acts(c) : y[2] = s /\ Fits(group, y[1], c.f, Packet(c), o.reg, o.clr, o.set)

(* What one access of a call makes of the registers.                       *)
LEMMA TurnFacts ==
  ASSUME Sided, NEW c, NEW R, NEW o, NEW e, NEW p, NEW s, Turn(c, R, o, e, p, s)
  PROVE  Turned(c, R, o, e, s, Under(R, o, e), Raise(R, e))
<1> DEFINE U == Under(R, o, e)
           M == Raise(R, e)
           ep == Selected(R, o)
<1>1. /\ R \in Registers /\ o \in Accesses /\ e \in AnyEvent /\ p \in Eps /\ s \in Eps /\ R.c["EPIND"] = Bits(p)
      /\ \/ o = Update("EPIND", All, Bits(s))
         \/ s = p /\ \E y \in Acts(c) : y[2] = s /\ o \in Allowed(group, y[1], c.f, Packet(c))
  BY DEF Turn
<1>2. /\ U \in Registers
      /\ \A r \in Common :
           U.c[r] = IF o.reg = r THEN Land(Host, r, ep, M.c[r], (R.c[r] \ o.clr) \cup o.set) ELSE M.c[r]
      /\ \A r \in Banked \cup Addressed : \A y \in Eps :
           U.e[r][y] = IF o.reg = r /\ ep = y
                       THEN Land(Host, r, y, M.e[r][y], (R.e[r][y] \ o.clr) \cup o.set) ELSE M.e[r][y]
  BY <1>1, UnderFacts
<1>3. \A r \in Common : M.c[r] = R.c[r]
  <2>1. e.kind \notin {"change", "pending"} BY <1>1, EventFacts DEF Sided
  <2>2. \A r \in Common : M.c[r] = IF e.kind \in {"change", "pending"} /\ e.x[1] = r
                                    THEN R.c[r] \cup {e.x[2]} ELSE R.c[r]
    BY <1>1, RaiseFacts
  <2> HIDE DEF M
  <2> QED BY <2>1, <2>2
<1>4. "EPIND" \in Common /\ "VEND0" \in Common /\ "EPIND" \notin Banked \cup Addressed /\ "VEND0" \notin Banked \cup Addressed
      /\ Banked \cap Addressed = {}
  BY DEF Common, Banked, Addressed
<1>5. CASE o = Update("EPIND", All, Bits(s))
  <2>1. o.reg = "EPIND" /\ o.clr = All /\ o.set = Bits(s) BY <1>5, AccessForms
  <2>2. R.c["EPIND"] \subseteq All BY <1>1, <1>4 DEF Registers
  <2>3. U.c["EPIND"] = Land(Host, "EPIND", ep, M.c["EPIND"], (R.c["EPIND"] \ o.clr) \cup o.set) BY <1>2, <1>4, <2>1
  <2>4. \A host, z, old, v : Land(host, "EPIND", z, old, v) = v BY DEF Land, Cleared1
  <2>5. U.c["EPIND"] = Bits(s)
    <3>1. (R.c["EPIND"] \ o.clr) \cup o.set = Bits(s) BY <2>1, <2>2
    <3> QED BY <2>3, <2>4, <3>1
  <2>6. U.c["VEND0"] = R.c["VEND0"] BY <1>2, <1>3, <1>4, <2>1
  <2>7. \A r \in Banked : o.reg # r BY <1>4, <2>1
  <2> HIDE DEF U, M, ep
  <2>8. o.reg \notin Banked \cup {"VEND0"} BY <1>4, <2>1
  <2>9. Turned(c, R, o, e, s, U, M)
    <3>1. \A r \in Banked : \A y \in Eps : U.e[r][y] = M.e[r][y] BY <1>2, <2>7
    <3> QED BY <1>2, <2>5, <2>6, <2>7, <2>8, <3>1 DEF Turned
  <2> QED BY <2>9 DEF U, M
<1>6. CASE s = p /\ \E y \in Acts(c) : y[2] = s /\ o \in Allowed(group, y[1], c.f, Packet(c))
  <2>1. PICK y \in Acts(c) : y[2] = s /\ o \in Allowed(group, y[1], c.f, Packet(c)) BY <1>6
  <2>2. o.reg \in Addressed \/ (o.ep = Here /\ Fits(group, y[1], c.f, Packet(c), o.reg, o.clr, o.set))
    BY <2>1 DEF Allowed
  <2>3. o.reg # "EPIND"
    <3>1. \A g, t, f, a, clr, set : ~Fits(g, t, f, a, "EPIND", clr, set)
      BY DEF Fits, CsrName, MaxpName, Others, FifoRegs
    <3> QED BY <1>4, <2>2, <3>1
  <2>4. U.c["EPIND"] = Bits(s) BY <1>1, <1>2, <1>3, <1>4, <1>6, <2>3
  <2>5. o.reg \notin Addressed => ep = s
    <3>1. s \in 0..15 BY <1>1, TargetFacts
    <3>2. Value(Bits(s)) = s BY <3>1, BitsValue
    <3> QED BY <1>1, <1>6, <2>2, <3>2 DEF Selected
  <2>6. U.c["VEND0"] = IF o.reg = "VEND0" THEN (R.c["VEND0"] \ o.clr) \cup o.set ELSE R.c["VEND0"]
    <3>1. \A host, z, old, v : Land(host, "VEND0", z, old, v) = v BY DEF Land, Cleared1
    <3> HIDE DEF ep, M, U
    <3> QED BY <1>2, <1>3, <1>4, <3>1
  <2>7. \A r \in Banked : \A z \in Eps :
          U.e[r][z] = IF o.reg = r /\ s = z
                      THEN Land(Host, r, z, M.e[r][z], (R.e[r][z] \ o.clr) \cup o.set) ELSE M.e[r][z]
    <3> TAKE r \in Banked
    <3> TAKE z \in Eps
    <3>1. o.reg = r => ep = s BY <1>4, <2>5
    <3> HIDE DEF ep, M, U
    <3> QED BY <1>2, <3>1
  <2>8. o.reg \in Banked \cup {"VEND0"} => o.reg \notin Addressed BY <1>4
  <2> HIDE DEF ep, M, U
  <2>9. Turned(c, R, o, e, s, U, M) BY <1>2, <2>1, <2>2, <2>4, <2>6, <2>7, <2>8 DEF Turned
  <2> QED BY <2>9 DEF U, M
<1> QED BY <1>1, <1>5, <1>6

(* Two targets with the same number and the same register are one.         *)
LEMMA Apart ==
  ASSUME NEW x \in Targets, NEW y \in Targets, x[2] = y[2]
  PROVE  /\ CsrOf(x) = CsrName(y[1]) => x = y
         /\ x # <<"EP0", 0>> /\ MaxpName(x[1]) = MaxpName(y[1]) => x = y
<1>1. /\ x = <<x[1], x[2]>> /\ x[1] \in {"EP0", "TX", "RX"} /\ (x[1] = "EP0" <=> x[2] = 0)
      /\ y = <<y[1], y[2]>> /\ y[1] \in {"EP0", "TX", "RX"} /\ (y[1] = "EP0" <=> y[2] = 0)
  BY TargetFacts
<1>2. CsrOf(x) = CsrName(y[1]) => (x[1] = "RX" <=> y[1] = "RX") BY DEF CsrOf, CsrName
<1>3. MaxpName(x[1]) = MaxpName(y[1]) => (x[1] = "RX" <=> y[1] = "RX") BY DEF MaxpName
<1>4. (x[1] = "RX" <=> y[1] = "RX") => x[1] = y[1] BY <1>1
<1> HIDE DEF CsrOf
<1>5. x[1] = y[1] => x = y BY <1>1
<1> QED BY <1>2, <1>3, <1>4, <1>5

(* A CSR after an access: only one of the call's own changes it.           *)
Written(x, o, s) == o.reg = CsrOf(x) /\ s = x[2]

(* What one access makes of a CSR.                                         *)
LEMMA CsrTurn ==
  ASSUME Sided, NEW c, Acts(c) \subseteq Targets, NEW R, NEW o, NEW e, NEW p, NEW s,
         Turn(c, R, o, e, p, s), NEW x \in Targets
  PROVE  LET U == Under(R, o, e)
             M == Raise(R, e)
         IN  /\ ~Written(x, o, s) => CsrAt(U, x) = CsrAt(M, x)
             /\ Written(x, o, s) =>
                  /\ x \in Acts(c)
                  /\ CsrAt(U, x) = LandCsr(Csr(Host)[x[1]], CsrAt(M, x), (CsrAt(R, x) \ o.clr) \cup o.set)
                  /\ c.f \notin Droppers \cup {"bulk_ep_reset"} => LeavesReady(group, x[1], o.clr, o.set)
                  /\ c.f \notin Starters => CommandBit(group, x[1]) \notin o.set
                  /\ c.f \notin Stoppers => CommandBit(group, x[1]) \notin o.clr \ o.set
<1> DEFINE U == Under(R, o, e)
           M == Raise(R, e)
           q == CsrOf(x)
<1>1. q \in Banked /\ q \in {"TXCSR", "RXCSR"} BY CsrFacts DEF Banked
<1>2. x[2] \in Eps BY TargetFacts
<1>3. /\ \A r \in Banked : \A y \in Eps :
           U.e[r][y] = IF o.reg = r /\ s = y
                       THEN Land(Host, r, y, M.e[r][y], (R.e[r][y] \ o.clr) \cup o.set) ELSE M.e[r][y]
      /\ o.reg \in Banked =>
           \E y \in Acts(c) : y[2] = s /\ Fits(group, y[1], c.f, Packet(c), o.reg, o.clr, o.set)
  <2>1. Turned(c, R, o, e, s, Under(R, o, e), Raise(R, e)) BY TurnFacts
  <2> QED BY <2>1 DEF Turned
<1> HIDE DEF q, U, M
<1>4. CsrAt(U, x) = IF Written(x, o, s) THEN Land(Host, q, x[2], CsrAt(M, x), (CsrAt(R, x) \ o.clr) \cup o.set)
                    ELSE CsrAt(M, x)
  BY <1>1, <1>2, <1>3 DEF CsrAt, Written, q
<1>5. ASSUME NEW old, NEW v PROVE Land(Host, q, x[2], old, v) = LandCsr(Csr(Host)[x[1]], old, v)
  <2>1. CsrKind(q, x[2]) = x[1] BY CsrFacts, TargetFacts DEF CsrKind, q
  <2>2. q \notin Cleared1 /\ q # "ISCR" BY <1>1 DEF Cleared1
  <2> QED BY <1>1, <2>1, <2>2 DEF Land
<1>6. ASSUME Written(x, o, s)
      PROVE  /\ x \in Acts(c)
             /\ c.f \notin Droppers \cup {"bulk_ep_reset"} => LeavesReady(group, x[1], o.clr, o.set)
             /\ c.f \notin Starters => CommandBit(group, x[1]) \notin o.set
             /\ c.f \notin Stoppers => CommandBit(group, x[1]) \notin o.clr \ o.set
  <2>1. PICK y \in Acts(c) : y[2] = s /\ Fits(group, y[1], c.f, Packet(c), o.reg, o.clr, o.set)
    BY <1>1, <1>3, <1>6 DEF Written, q
  <2>2. o.reg = q /\ o.reg \in {"TXCSR", "RXCSR"} /\ s = x[2] BY <1>1, <1>6 DEF Written, q
  <2>3. /\ o.reg = CsrName(y[1])
        /\ c.f \notin Droppers \cup {"bulk_ep_reset"} => LeavesReady(group, y[1], o.clr, o.set)
        /\ c.f \notin Starters => CommandBit(group, y[1]) \notin o.set
        /\ c.f \notin Stoppers => CommandBit(group, y[1]) \notin o.clr \ o.set
    <3>1. o.reg # MaxpName(y[1]) /\ o.reg # "VEND0" /\ o.reg \notin Others(group, y[1]) /\ o.reg \notin FifoRegs(y[1])
      BY <2>2 DEF MaxpName, Others, FifoRegs
    <3> QED BY <2>1, <3>1 DEF Fits
  <2>4. x = y BY <2>1, <2>2, <2>3, Apart DEF q
  <2> QED BY <2>1, <2>3, <2>4
<1> QED BY <1>4, <1>5, <1>6 DEF U, M

(* The same of a MAXP register, which the controller leaves alone.         *)
LEMMA MaxpTurn ==
  ASSUME Sided, NEW c, Acts(c) \subseteq Targets, NEW R, NEW o, NEW e, NEW p, NEW s,
         Turn(c, R, o, e, p, s), NEW x \in EndTargets
  PROVE  LET U == Under(R, o, e)
             w == o.reg = MaxpName(x[1]) /\ s = x[2]
         IN  /\ ~w => MaxpAt(U, x) = MaxpAt(R, x)
             /\ w => /\ x \in Acts(c)
                     /\ MaxpAt(U, x) = (MaxpAt(R, x) \ o.clr) \cup o.set
                     /\ \/ /\ c.f \in Configurers /\ o.set = Bits(Packet(c) % 2^11)
                           /\ o.clr = IF group = "dev" THEN 0..12 ELSE {}
                        \/ c.f = "ConfigEp_Default" /\ o.set = {} /\ o.clr = All
<1> DEFINE U == Under(R, o, e)
           M == Raise(R, e)
           q == MaxpName(x[1])
           w == o.reg = q /\ s = x[2]
<1>1. q \in Banked /\ q \in {"TXMAXP", "RXMAXP"} BY DEF MaxpName, Banked
<1>2. x[2] \in Eps /\ x \in Targets /\ x # <<"EP0", 0>> BY TargetFacts DEF EndTargets
<1>3. /\ \A r \in Banked : \A y \in Eps :
           U.e[r][y] = IF o.reg = r /\ s = y
                       THEN Land(Host, r, y, M.e[r][y], (R.e[r][y] \ o.clr) \cup o.set) ELSE M.e[r][y]
      /\ o.reg \in Banked =>
           \E y \in Acts(c) : y[2] = s /\ Fits(group, y[1], c.f, Packet(c), o.reg, o.clr, o.set)
  <2>1. Turned(c, R, o, e, s, Under(R, o, e), Raise(R, e)) BY TurnFacts
  <2> QED BY <2>1 DEF Turned
<1>4. M.e[q][x[2]] = R.e[q][x[2]]
  <2>1. R \in Registers /\ e \in AnyEvent BY DEF Turn
  <2>2. CsrOf(e.x) # q BY <1>1, CsrFacts
  <2> QED BY <1>1, <1>2, <2>1, <2>2, RaiseFacts
<1>5. \A ep, old, v : Land(Host, q, ep, old, v) = v BY <1>1 DEF Land, Cleared1
<1> HIDE DEF q, U, M
<1>6. MaxpAt(U, x) = IF w THEN (MaxpAt(R, x) \ o.clr) \cup o.set ELSE MaxpAt(R, x)
  BY <1>1, <1>2, <1>3, <1>4, <1>5 DEF MaxpAt, q
<1>7. ASSUME w
      PROVE  /\ x \in Acts(c)
             /\ \/ /\ c.f \in Configurers /\ o.set = Bits(Packet(c) % 2^11)
                   /\ o.clr = IF group = "dev" THEN 0..12 ELSE {}
                \/ c.f = "ConfigEp_Default" /\ o.set = {} /\ o.clr = All
  <2>1. PICK y \in Acts(c) : y[2] = s /\ Fits(group, y[1], c.f, Packet(c), o.reg, o.clr, o.set)
    BY <1>1, <1>3, <1>7
  <2>2. o.reg \in {"TXMAXP", "RXMAXP"} /\ s = x[2] BY <1>1, <1>7
  <2>3. /\ o.reg = MaxpName(y[1])
        /\ \/ /\ c.f \in Configurers /\ o.set = Bits(Packet(c) % 2^11)
              /\ o.clr = IF group = "dev" THEN 0..12 ELSE {}
           \/ c.f = "ConfigEp_Default" /\ o.set = {} /\ o.clr = All
    <3>1. o.reg # CsrName(y[1]) /\ o.reg # "VEND0" /\ o.reg \notin Others(group, y[1]) /\ o.reg \notin FifoRegs(y[1])
      BY <2>2 DEF CsrName, Others, FifoRegs
    <3> QED BY <2>1, <3>1 DEF Fits
  <2>4. x = y BY <1>2, <1>7, <2>1, <2>2, <2>3, Apart DEF q
  <2> QED BY <2>1, <2>3, <2>4
<1> QED BY <1>6, <1>7 DEF U, q

(* Only the DMA functions of the device side select the bus.               *)
LEMMA BusTurn ==
  ASSUME Sided, NEW c, Acts(c) \subseteq Targets, NEW R, NEW o, NEW e, NEW p, NEW s, Turn(c, R, o, e, p, s)
  PROVE  LET U == Under(R, o, e)
         IN  /\ o.reg # "VEND0" => U.c["VEND0"] = R.c["VEND0"]
             /\ o.reg = "VEND0" =>
                  /\ Acts(c) \ {<<"EP0", 0>>} # {}
                  /\ \/ c.f = "ConfigEpDma" /\ 0 \in U.c["VEND0"]
                     \/ c.f = "ClearEpDma" /\ 0 \notin U.c["VEND0"]
<1> DEFINE U == Under(R, o, e)
<1>1. /\ U.c["VEND0"] = IF o.reg = "VEND0" THEN (R.c["VEND0"] \ o.clr) \cup o.set ELSE R.c["VEND0"]
      /\ o.reg = "VEND0" =>
           \E y \in Acts(c) : y[2] = s /\ Fits(group, y[1], c.f, Packet(c), o.reg, o.clr, o.set)
  <2>1. Turned(c, R, o, e, s, Under(R, o, e), Raise(R, e)) BY TurnFacts
  <2> QED BY <2>1 DEF Turned
<1> HIDE DEF U
<1>2. ASSUME o.reg = "VEND0"
      PROVE  /\ Acts(c) \ {<<"EP0", 0>>} # {}
             /\ \/ c.f = "ConfigEpDma" /\ 0 \in o.set
                \/ c.f = "ClearEpDma" /\ 0 \in o.clr \ o.set
  <2>1. PICK y \in Acts(c) : y[2] = s /\ Fits(group, y[1], c.f, Packet(c), "VEND0", o.clr, o.set) BY <1>1, <1>2
  <2>2. /\ y[1] # "EP0"
        /\ \/ c.f = "ConfigEpDma" /\ 0 \in o.set
           \/ c.f = "ClearEpDma" /\ 0 \in o.clr \ o.set
    <3>1. "VEND0" # CsrName(y[1]) /\ "VEND0" # MaxpName(y[1]) /\ "VEND0" \notin Others(group, y[1])
          /\ "VEND0" \notin FifoRegs(y[1])
      BY DEF CsrName, MaxpName, Others, FifoRegs
    <3> QED BY <2>1, <3>1 DEF Fits
  <2>3. y # <<"EP0", 0>> BY <2>2
  <2> QED BY <2>1, <2>2, <2>3
<1> QED BY <1>1, <1>2 DEF U

(* The bits of the CSRs, in figures.                                       *)
LEMMA DevCsrs ==
  LET k(t) == DeviceCsr[t]
  IN  /\ /\ k("EP0").ready = {1} /\ k("EP0").status = {2} /\ k("EP0").fixed = {0, 4}
         /\ k("EP0").command = {8, 7, 3, 6} /\ k("EP0").flush = 8
      /\ /\ k("TX").ready = {0} /\ k("TX").status = {5, 2} /\ k("TX").fixed = {}
         /\ k("TX").command = {3, 6} /\ k("TX").flush = 3
      /\ /\ k("RX").ready = {} /\ k("RX").status = {0, 6, 2} /\ k("RX").fixed = {}
         /\ k("RX").command = {4, 7} /\ k("RX").flush = 4
BY DEF DeviceCsr, CSR0_D, TXCSR_D, RXCSR_D

(* The same of the host side.                                              *)
LEMMA HostCsrs ==
  LET k(t) == HostCsr[t]
  IN  /\ /\ k("EP0").ready = {1} /\ k("EP0").status = {0, 2, 4, 7} /\ k("EP0").fixed = {}
         /\ k("EP0").command = {8} /\ k("EP0").flush = 8
      /\ /\ k("TX").ready = {0} /\ k("TX").status = {5, 2, 7} /\ k("TX").fixed = {}
         /\ k("TX").command = {3, 6} /\ k("TX").flush = 3
      /\ /\ k("RX").ready = {} /\ k("RX").status = {0, 6, 2, 3} /\ k("RX").fixed = {}
         /\ k("RX").command = {4, 7} /\ k("RX").flush = 4
BY DEF HostCsr, CSR0_H, TXCSR_H, RXCSR_H

(* The fields of the CSR of x, and the bit of a stall or a request.        *)
Fields(x) == Csr(Host)[x[1]]
Command(x) == CommandBit(group, x[1])

(* The fields of a CSR do not overlap where it matters.                    *)
LEMMA FieldFacts ==
  ASSUME Sided, NEW x \in Targets
  PROVE  LET k == Fields(x)
         IN  /\ k.command \cap (k.fixed \cup k.status \cup k.ready) = {}
             /\ ReadyBit \notin k.command
             /\ Command(x) # NoBit =>
                  Command(x) \notin k.fixed \cup k.status \cup k.ready \cup k.command \cup {ReadyBit, TXCSR_D.TX_READY}
<1>1. x[1] \in {"EP0", "TX", "RX"} BY TargetFacts
<1>2. ReadyBit = 0 /\ TXCSR_D.TX_READY = 0 BY DEF ReadyBit, TXCSR_D
<1>3. CASE group = "dev"
  <2>1. Csr(Host) = DeviceCsr BY <1>3 DEF Csr, Host
  <2>2. CASE x[1] = "EP0" BY <1>2, <1>3, <2>1, <2>2, DevCsrs DEF Fields, Command, CommandBit
  <2>3. CASE x[1] = "TX" BY <1>2, <1>3, <2>1, <2>3, DevCsrs DEF Fields, Command, CommandBit
  <2>4. CASE x[1] = "RX" BY <1>2, <1>3, <2>1, <2>4, DevCsrs DEF Fields, Command, CommandBit
  <2> QED BY <1>1, <2>2, <2>3, <2>4
<1>4. CASE group = "host"
  <2>1. Csr(Host) = HostCsr BY <1>4 DEF Csr, Host
  <2>2. CASE x[1] = "EP0" BY <1>2, <1>4, <2>1, <2>2, HostCsrs DEF Fields, Command, CommandBit
  <2>3. CASE x[1] = "TX" BY <1>2, <1>4, <2>1, <2>3, HostCsrs DEF Fields, Command, CommandBit
  <2>4. CASE x[1] = "RX" BY <1>2, <1>4, <2>1, <2>4, HostCsrs DEF Fields, Command, CommandBit
  <2> QED BY <1>1, <2>2, <2>3, <2>4
<1> QED BY <1>3, <1>4 DEF Sided

(* Commands act and read as 0; a stall and a request stand as written.     *)
LEMMA LandBits ==
  ASSUME Sided, NEW x \in Targets, NEW old, NEW v
  PROVE  /\ LandCsr(Fields(x), old, v) \cap Fields(x).command = {}
         /\ Command(x) # NoBit => (Command(x) \in LandCsr(Fields(x), old, v) <=> Command(x) \in v)
<1> DEFINE k == Fields(x)
<1>1. /\ k.command \cap (k.fixed \cup k.status \cup k.ready) = {}
      /\ Command(x) # NoBit => Command(x) \notin k.fixed \cup k.status \cup k.ready \cup k.command
  BY FieldFacts
<1> HIDE DEF k
<1>2. LandCsr(k, old, v) \cap k.command = {} BY <1>1 DEF LandCsr
<1>3. Command(x) # NoBit => (Command(x) \in LandCsr(k, old, v) <=> Command(x) \in v) BY <1>1 DEF LandCsr
<1> QED BY <1>2, <1>3 DEF k

(* A write that is not meant to drop a packet leaves it announced.         *)
LEMMA LandReady ==
  ASSUME Sided, NEW x \in Readers, NEW was, NEW old, ReadyBit \in was, ReadyBit \in old,
         was \cap Fields(x).command = {}, NEW clr, NEW set, LeavesReady(group, x[1], clr, set)
  PROVE  ReadyBit \in LandCsr(Fields(x), old, (was \ clr) \cup set)
<1> DEFINE v == (was \ clr) \cup set
<1>1. x[1] \in {"EP0", "RX"} BY TargetFacts DEF Readers
<1>2. ReadyBit = 0 BY DEF ReadyBit
<1>3. CASE group = "dev"
  <2>1. Fields(x) = DeviceCsr[x[1]] BY <1>3 DEF Csr, Host, Fields
  <2>2. CASE x[1] = "EP0"
    <3> DEFINE k == DeviceCsr["EP0"]
    <3>1. k.ready = {1} /\ k.status = {2} /\ k.fixed = {0, 4} /\ k.command = {8, 7, 3, 6} /\ k.flush = 8
      BY DevCsrs
    <3>2. 6 \notin v /\ 8 \notin v BY <1>3, <2>1, <2>2, <3>1 DEF LeavesReady
    <3> HIDE DEF k, v
    <3>3. Serviced(v) \subseteq {4} BY <3>2 DEF Serviced, CSR0_D
    <3>4. 0 \in LandCsr(k, old, v) BY <1>2, <3>1, <3>2, <3>3 DEF LandCsr
    <3> QED BY <1>2, <2>1, <2>2, <3>4 DEF k, v
  <2>3. CASE x[1] = "RX"
    <3> DEFINE k == DeviceCsr["RX"]
    <3>1. k.ready = {} /\ k.status = {0, 6, 2} /\ k.fixed = {} /\ k.command = {4, 7} /\ k.flush = 4
      BY DevCsrs
    <3>2. 4 \notin v /\ 0 \in v BY <1>2, <1>3, <2>1, <2>3, <3>1 DEF LeavesReady
    <3> HIDE DEF k, v
    <3>4. 0 \in LandCsr(k, old, v) BY <1>2, <3>1, <3>2 DEF LandCsr
    <3> QED BY <1>2, <2>1, <2>3, <3>4 DEF k, v
  <2> QED BY <1>1, <2>2, <2>3
<1>4. CASE group = "host"
  <2>1. Fields(x) = HostCsr[x[1]] BY <1>4 DEF Csr, Host, Fields
  <2>2. CASE x[1] = "EP0"
    <3> DEFINE k == HostCsr["EP0"]
    <3>1. k.ready = {1} /\ k.status = {0, 2, 4, 7} /\ k.fixed = {} /\ k.command = {8} /\ k.flush = 8
      BY HostCsrs
    <3>2. 8 \notin v /\ 0 \in v BY <1>2, <1>4, <2>1, <2>2, <3>1 DEF LeavesReady
    <3> HIDE DEF k, v
    <3>4. 0 \in LandCsr(k, old, v) BY <1>2, <3>1, <3>2 DEF LandCsr
    <3> QED BY <1>2, <2>1, <2>2, <3>4 DEF k, v
  <2>3. CASE x[1] = "RX"
    <3> DEFINE k == HostCsr["RX"]
    <3>1. k.ready = {} /\ k.status = {0, 6, 2, 3} /\ k.fixed = {} /\ k.command = {4, 7} /\ k.flush = 4
      BY HostCsrs
    <3>2. 4 \notin v /\ 0 \in v BY <1>2, <1>4, <2>1, <2>3, <3>1 DEF LeavesReady
    <3> HIDE DEF k, v
    <3>4. 0 \in LandCsr(k, old, v) BY <1>2, <3>1, <3>2 DEF LandCsr
    <3> QED BY <1>2, <2>1, <2>3, <3>4 DEF k, v
  <2> QED BY <1>1, <2>2, <2>3
<1> QED BY <1>3, <1>4 DEF Sided

(* What an event does to a CSR.                                            *)
LEMMA RaiseCsr ==
  ASSUME Sided, NEW R \in Registers, NEW e \in AnyEvent, NEW x \in Targets
  PROVE  /\ CsrAt(R, x) \cap Fields(x).command = {} => CsrAt(Raise(R, e), x) \cap Fields(x).command = {}
         /\ Command(x) # NoBit /\ (Host => e = NoEvent) =>
              (Command(x) \in CsrAt(Raise(R, e), x) <=> Command(x) \in CsrAt(R, x))
         /\ x \in Readers /\ ReadyBit \in CsrAt(R, x) => ReadyBit \in CsrAt(Raise(R, e), x)
         /\ e.kind = "packet" /\ e.x = x => ReadyBit \in CsrAt(Raise(R, e), x)
<1> DEFINE M == Raise(R, e)
           hit == e.kind \in {"packet", "sent"} /\ CsrOf(e.x) = CsrOf(x) /\ e.x[2] = x[2]
<1>1. CsrAt(M, x) = IF hit THEN Shaken(CsrAt(R, x), e) ELSE CsrAt(R, x)
  <2>1. CsrOf(x) \in Banked \cup Addressed BY CsrFacts DEF Banked
  <2>2. x[2] \in Eps BY TargetFacts
  <2> QED BY <2>1, <2>2, RaiseFacts DEF CsrAt
<1>2. hit => e.x = x
  <2>1. hit => e.x \in Targets BY EventFacts
  <2>2. \A y : CsrOf(y) = CsrName(y[1]) BY DEF CsrOf, CsrName
  <2> QED BY <2>1, <2>2, Apart
<1>3. /\ ReadyBit \notin Fields(x).command
      /\ Command(x) # NoBit => Command(x) # ReadyBit /\ Command(x) # TXCSR_D.TX_READY
  BY FieldFacts
<1>4. e = NoEvent => ~hit BY DEF NoEvent
<1>5. x \in Readers /\ hit => e.kind = "packet"
  <2>1. e.kind = "sent" => e.x[1] = "TX" BY EventFacts
  <2> QED BY <1>2, <2>1 DEF Readers
<1>6. e.kind = "packet" /\ e.x = x => hit OBVIOUS
<1>7. RequestBit # ReadyBit BY DEF RequestBit, ReadyBit
<1> HIDE DEF M, hit
<1>8. CsrAt(R, x) \cap Fields(x).command = {} => CsrAt(M, x) \cap Fields(x).command = {}
  BY <1>1, <1>3 DEF Shaken
<1>9. ASSUME Command(x) # NoBit, Host => e = NoEvent
      PROVE  Command(x) \in CsrAt(M, x) <=> Command(x) \in CsrAt(R, x)
  BY <1>1, <1>3, <1>4, <1>9 DEF Shaken, Host
<1>10. x \in Readers /\ ReadyBit \in CsrAt(R, x) => ReadyBit \in CsrAt(M, x) BY <1>1, <1>5 DEF Shaken
<1>11. e.kind = "packet" /\ e.x = x => ReadyBit \in CsrAt(M, x) BY <1>1, <1>6 DEF Shaken
<1> QED BY <1>8, <1>9, <1>10, <1>11 DEF M

(* The three together: what one access keeps of a CSR.                     *)
LEMMA CsrKept ==
  ASSUME Sided, NEW c, Acts(c) \subseteq Targets, NEW R, NEW o, NEW e, NEW p, NEW s,
         Turn(c, R, o, e, p, s), NEW x \in Targets, NEW U, U = Under(R, o, e),
         CsrAt(R, x) \cap Fields(x).command = {}
  PROVE  /\ CsrAt(U, x) \cap Fields(x).command = {}
         /\ x \in Readers /\ (x \notin Acts(c) \/ c.f \notin Droppers \cup {"bulk_ep_reset"}) =>
              (ReadyBit \in CsrAt(R, x) \/ (e.kind = "packet" /\ e.x = x /\ ~Written(x, o, s))
                 => ReadyBit \in CsrAt(U, x))
         /\ Command(x) # NoBit /\ (Host => e = NoEvent) =>
              /\ (x \notin Acts(c) \/ c.f \notin Stoppers) /\ Command(x) \in CsrAt(R, x) => Command(x) \in CsrAt(U, x)
              /\ (x \notin Acts(c) \/ c.f \notin Starters) /\ Command(x) \notin CsrAt(R, x) => Command(x) \notin CsrAt(U, x)
              /\ Written(x, o, s) /\ Command(x) \in o.set => Command(x) \in CsrAt(U, x)
              /\ Written(x, o, s) /\ Command(x) \in o.clr \ o.set => Command(x) \notin CsrAt(U, x)
<1> DEFINE M == Raise(R, e)
           w == Written(x, o, s)
           v == (CsrAt(R, x) \ o.clr) \cup o.set
<1>1. /\ ~w => CsrAt(U, x) = CsrAt(M, x)
      /\ w => /\ x \in Acts(c)
              /\ CsrAt(U, x) = LandCsr(Csr(Host)[x[1]], CsrAt(M, x), v)
              /\ c.f \notin Droppers \cup {"bulk_ep_reset"} => LeavesReady(group, x[1], o.clr, o.set)
              /\ c.f \notin Starters => CommandBit(group, x[1]) \notin o.set
              /\ c.f \notin Stoppers => CommandBit(group, x[1]) \notin o.clr \ o.set
  BY CsrTurn
<1>2. R \in Registers /\ e \in AnyEvent BY DEF Turn
<1>3. /\ CsrAt(M, x) \cap Fields(x).command = {}
      /\ Command(x) # NoBit /\ (Host => e = NoEvent) =>
           (Command(x) \in CsrAt(M, x) <=> Command(x) \in CsrAt(R, x))
      /\ x \in Readers /\ ReadyBit \in CsrAt(R, x) => ReadyBit \in CsrAt(M, x)
      /\ e.kind = "packet" /\ e.x = x => ReadyBit \in CsrAt(M, x)
  BY <1>2, RaiseCsr
<1> HIDE DEF M, w
<1>4. w => CsrAt(U, x) = LandCsr(Fields(x), CsrAt(M, x), v) BY <1>1 DEF Fields
<1>5. CsrAt(U, x) \cap Fields(x).command = {} BY <1>1, <1>3, <1>4, LandBits
<1>6. ASSUME x \in Readers, x \notin Acts(c) \/ c.f \notin Droppers \cup {"bulk_ep_reset"},
             \/ ReadyBit \in CsrAt(R, x)
             \/ e.kind = "packet" /\ e.x = x /\ ~w
      PROVE  ReadyBit \in CsrAt(U, x)
  <2>1. CASE ~w BY <1>1, <1>3, <1>6, <2>1
  <2>2. CASE w
    <3>1. ReadyBit \in CsrAt(R, x) /\ ReadyBit \in CsrAt(M, x) BY <1>3, <1>6, <2>2
    <3>2. LeavesReady(group, x[1], o.clr, o.set) BY <1>1, <1>6, <2>2
    <3>3. ReadyBit \in LandCsr(Fields(x), CsrAt(M, x), (CsrAt(R, x) \ o.clr) \cup o.set)
      BY <1>6, <3>1, <3>2, LandReady
    <3> QED BY <1>4, <2>2, <3>3
  <2> QED BY <2>1, <2>2
<1>7. ASSUME Command(x) # NoBit, Host => e = NoEvent
      PROVE  /\ (x \notin Acts(c) \/ c.f \notin Stoppers) /\ Command(x) \in CsrAt(R, x) => Command(x) \in CsrAt(U, x)
             /\ (x \notin Acts(c) \/ c.f \notin Starters) /\ Command(x) \notin CsrAt(R, x) => Command(x) \notin CsrAt(U, x)
             /\ w /\ Command(x) \in o.set => Command(x) \in CsrAt(U, x)
             /\ w /\ Command(x) \in o.clr \ o.set => Command(x) \notin CsrAt(U, x)
  <2>1. w => (Command(x) \in CsrAt(U, x) <=> Command(x) \in v) BY <1>4, <1>7, LandBits
  <2>2. ~w => (Command(x) \in CsrAt(U, x) <=> Command(x) \in CsrAt(R, x)) BY <1>1, <1>3, <1>7
  <2>3. w => /\ x \in Acts(c)
             /\ c.f \notin Starters => Command(x) \notin o.set
             /\ c.f \notin Stoppers => Command(x) \notin o.clr \ o.set
    BY <1>1 DEF Command
  <2> HIDE DEF Command
  <2> QED BY <2>1, <2>2, <2>3
<1> QED BY <1>5, <1>6, <1>7 DEF w

-----------------------------------------------------------------------------
(* What a whole call does to them.                                         *)

(* PathKeeps for what is said of the number of an access.                  *)
LEMMA Steps ==
  ASSUME NEW N \in Nat, NEW m \in 0..N, NEW T, m \in T,
         \A i \in (m + 1)..N : i - 1 \in T => i \in T
  PROVE  \A i \in m..N : i \in T
<1> DEFINE path == [i \in 0..N |-> i]
<1>1. \A i \in 0..N : path[i] = i OBVIOUS
<1>2. \A i \in (m + 1)..N : i \in 0..N /\ i - 1 \in 0..N OBVIOUS
<1>3. \A i \in m..N : i \in 0..N OBVIOUS
<1> HIDE DEF path
<1>4. path[m] \in T BY <1>1
<1>5. \A i \in (m + 1)..N : path[i - 1] \in T => path[i] \in T BY <1>1, <1>2
<1>6. \A i \in m..N : path[i] \in T BY <1>4, <1>5, PathKeeps
<1> QED BY <1>1, <1>3, <1>6

(* The registers on the path of a call, e coming in its k-th access, and   *)
(* the endpoints that are selected.                                        *)
At(i, k, e) == IF i = k THEN e ELSE NoEvent
(* The path follows the call access by access.                             *)
Run(c, path, k, e, sel) ==
  \A i \in 1..Len(c.prog) :
    /\ Turn(c, path[i - 1], c.prog[i], At(i, k, e), sel[i - 1], sel[i])
    /\ path[i] = Under(path[i - 1], c.prog[i], At(i, k, e))

(* Every path of a call does, and ends with endpoint 0 selected.           *)
LEMMA Runs ==
  ASSUME Sided, NEW c, c.prog \in Seq(Accesses), NEW sel, Follows(group, c, sel),
         NEW e \in AnyEvent, NEW k, NEW path, Passes(path, c.prog, k, e),
         path[0] \in Registers, path[0].c["EPIND"] = Bits(0)
  PROVE  /\ Run(c, path, k, e, sel)
         /\ path[Len(c.prog)] \in Registers /\ path[Len(c.prog)].c["EPIND"] = Bits(0)
<1> DEFINE N == Len(c.prog)
           T == {i \in 0..N : path[i] \in Registers /\ path[i].c["EPIND"] = Bits(sel[i])}
<1>1. N \in Nat /\ \A i \in 1..N : c.prog[i] \in Accesses OBVIOUS
<1>2. /\ sel[0] = 0 /\ sel[N] = 0 /\ (\A i \in 0..N : sel[i] \in Eps)
      /\ \A i \in 1..N :
           \/ c.prog[i] = Update("EPIND", All, Bits(sel[i]))
           \/ /\ sel[i] = sel[i - 1]
              /\ \E y \in Acts(c) : y[2] = sel[i] /\ c.prog[i] \in Allowed(group, y[1], c.f, Packet(c))
  BY DEF Follows
<1>3. \A i \in 1..N : path[i] = Under(path[i - 1], c.prog[i], At(i, k, e)) BY DEF Passes, At
<1>4. \A i : At(i, k, e) \in AnyEvent BY DEF At, AnyEvent
<1> HIDE DEF N
<1>5. ASSUME NEW i \in 1..N, i - 1 \in T
      PROVE  Turn(c, path[i - 1], c.prog[i], At(i, k, e), sel[i - 1], sel[i])
  <2>1. i \in 0..N /\ i - 1 \in 0..N BY <1>1
  <2>2. path[i - 1] \in Registers /\ path[i - 1].c["EPIND"] = Bits(sel[i - 1]) BY <1>5
  <2>3. c.prog[i] \in Accesses /\ At(i, k, e) \in AnyEvent /\ sel[i - 1] \in Eps /\ sel[i] \in Eps
    BY <1>1, <1>2, <1>4, <2>1
  <2>4. \/ c.prog[i] = Update("EPIND", All, Bits(sel[i]))
        \/ /\ sel[i] = sel[i - 1]
           /\ \E y \in Acts(c) : y[2] = sel[i] /\ c.prog[i] \in Allowed(group, y[1], c.f, Packet(c))
    BY <1>2
  <2> QED BY <2>2, <2>3, <2>4 DEF Turn
<1>6. ASSUME NEW i \in 1..N, i - 1 \in T PROVE i \in T
  <2>1. Turn(c, path[i - 1], c.prog[i], At(i, k, e), sel[i - 1], sel[i]) BY <1>5, <1>6
  <2> DEFINE U == Under(path[i - 1], c.prog[i], At(i, k, e))
             M == Raise(path[i - 1], At(i, k, e))
  <2>2. Turned(c, path[i - 1], c.prog[i], At(i, k, e), sel[i], U, M) BY <2>1, TurnFacts
  <2> HIDE DEF U, M
  <2>3. U \in Registers /\ U.c["EPIND"] = Bits(sel[i]) BY <2>2 DEF Turned
  <2>4. path[i] = U BY <1>3 DEF U
  <2>5. i \in 0..N BY <1>1
  <2> QED BY <2>3, <2>4, <2>5
<1>7. 0 \in T /\ 0 \in 0..N /\ N \in 0..N BY <1>1, <1>2
<1>8. \A i \in 0..N : i \in T
  <2>1. \A i \in (0 + 1)..N : i - 1 \in T => i \in T BY <1>6
  <2> HIDE DEF T
  <2> QED BY <1>1, <1>7, <2>1, Steps
<1>9. \A i \in 1..N : i - 1 \in T
  <2>1. \A i \in 1..N : i - 1 \in 0..N BY <1>1
  <2> HIDE DEF T
  <2> QED BY <1>8, <2>1
<1>10. Run(c, path, k, e, sel) BY <1>3, <1>5, <1>9 DEF Run, N
<1>11. N \in T BY <1>7, <1>8
<1> QED BY <1>2, <1>10, <1>11 DEF N

(* What the call keeps of a CSR: the bits of commands are clear after      *)
(* each access.                                                            *)
LEMMA RunClean ==
  ASSUME Sided, NEW c, Len(c.prog) \in Nat, Acts(c) \subseteq Targets, NEW path, NEW k, NEW e, NEW sel,
         Run(c, path, k, e, sel), NEW x \in Targets, CsrAt(path[0], x) \cap Fields(x).command = {}
  PROVE  \A i \in 0..Len(c.prog) : CsrAt(path[i], x) \cap Fields(x).command = {}
<1> DEFINE N == Len(c.prog)
           T == {i \in 0..N : CsrAt(path[i], x) \cap Fields(x).command = {}}
<1>1. ASSUME NEW i \in 1..N, i - 1 \in T PROVE i \in T
  <2>1. Turn(c, path[i - 1], c.prog[i], At(i, k, e), sel[i - 1], sel[i]) BY DEF Run
  <2>2. path[i] = Under(path[i - 1], c.prog[i], At(i, k, e)) BY DEF Run
  <2>3. CsrAt(path[i - 1], x) \cap Fields(x).command = {} BY <1>1
  <2>4. CsrAt(path[i], x) \cap Fields(x).command = {} BY <2>1, <2>2, <2>3, CsrKept
  <2> QED BY <2>4
<1>2. 0 \in T /\ 0 \in 0..N /\ N \in Nat OBVIOUS
<1>3. \A i \in 0..N : i \in T
  <2>1. \A i \in (0 + 1)..N : i - 1 \in T => i \in T BY <1>1
  <2> HIDE DEF T, N
  <2> QED BY <1>2, <2>1, Steps
<1> QED BY <1>3

(* The packet of an endpoint stays announced, and so does one that arrives *)
(* during the call, unless the access it meets writes this very CSR.       *)
LEMMA RunReady ==
  ASSUME Sided, NEW c, Len(c.prog) \in Nat, Acts(c) \subseteq Targets, NEW path, NEW k, NEW e, NEW sel,
         Run(c, path, k, e, sel), NEW x \in Readers, CsrAt(path[0], x) \cap Fields(x).command = {},
         x \notin Acts(c) \/ c.f \notin Droppers \cup {"bulk_ep_reset"},
         \/ ReadyBit \in CsrAt(path[0], x)
         \/ k \in 1..Len(c.prog) /\ e.kind = "packet" /\ e.x = x /\ ~Written(x, c.prog[k], sel[k])
  PROVE  ReadyBit \in CsrAt(path[Len(c.prog)], x)
<1> DEFINE N == Len(c.prog)
           T == {i \in 0..N : ReadyBit \in CsrAt(path[i], x)}
<1>0. x \in Targets BY DEF Readers
<1>1. \A i \in 0..N : CsrAt(path[i], x) \cap Fields(x).command = {} BY <1>0, RunClean
<1>2. ASSUME NEW i \in 1..N,
             i - 1 \in T \/ (At(i, k, e).kind = "packet" /\ At(i, k, e).x = x /\ ~Written(x, c.prog[i], sel[i]))
      PROVE  i \in T
  <2>1. Turn(c, path[i - 1], c.prog[i], At(i, k, e), sel[i - 1], sel[i]) BY DEF Run
  <2>2. path[i] = Under(path[i - 1], c.prog[i], At(i, k, e)) BY DEF Run
  <2>3. CsrAt(path[i - 1], x) \cap Fields(x).command = {}
    <3>1. i - 1 \in 0..N OBVIOUS
    <3> QED BY <1>1, <3>1
  <2>4. \/ ReadyBit \in CsrAt(path[i - 1], x)
        \/ At(i, k, e).kind = "packet" /\ At(i, k, e).x = x /\ ~Written(x, c.prog[i], sel[i])
    BY <1>2
  <2>5. ReadyBit \in CsrAt(path[i], x) BY <1>0, <2>1, <2>2, <2>3, <2>4, CsrKept
  <2> QED BY <2>5
<1>3. N \in Nat /\ N \in 0..N OBVIOUS
<1>4. PICK m \in 0..N : m \in T
  <2>1. CASE ReadyBit \in CsrAt(path[0], x) BY <1>3, <2>1
  <2>2. CASE k \in 1..N /\ e.kind = "packet" /\ e.x = x /\ ~Written(x, c.prog[k], sel[k])
    <3>1. At(k, k, e) = e BY DEF At
    <3>2. k \in T BY <1>2, <2>2, <3>1
    <3> QED BY <3>2
  <2> QED BY <2>1, <2>2
<1>5. \A i \in m..N : i \in T
  <2>1. \A i \in (m + 1)..N : i \in 1..N BY <1>3
  <2>2. \A i \in (m + 1)..N : i - 1 \in T => i \in T BY <1>2, <2>1
  <2> HIDE DEF T, N
  <2> QED BY <1>3, <1>4, <2>2, Steps
<1>6. N \in m..N BY <1>3
<1>7. N \in T BY <1>5, <1>6
<1> QED BY <1>7

(* A stall or a request stands until a call that is meant to end it, and   *)
(* begins with one that is meant to begin it.                              *)
LEMMA RunCommand ==
  ASSUME Sided, NEW c, Len(c.prog) \in Nat, Acts(c) \subseteq Targets, NEW path, NEW k, NEW e, NEW sel,
         Run(c, path, k, e, sel), NEW x \in Targets, CsrAt(path[0], x) \cap Fields(x).command = {},
         Command(x) # NoBit, Host => e = NoEvent
  PROVE  LET old == CsrAt(path[0], x)
             new == CsrAt(path[Len(c.prog)], x)
             own == Brings(c, sel, x, CsrName(x[1]))
         IN  /\ x \notin Acts(c) \/ c.f \notin Stoppers =>
                  (Command(x) \in old \/ (\E j \in own : Command(x) \in c.prog[j].set) => Command(x) \in new)
             /\ x \notin Acts(c) \/ c.f \notin Starters =>
                  (Command(x) \notin old \/ (\E j \in own : Command(x) \in c.prog[j].clr \ c.prog[j].set)
                     => Command(x) \notin new)
<1> DEFINE N == Len(c.prog)
           own == Brings(c, sel, x, CsrName(x[1]))
           On == {i \in 0..N : Command(x) \in CsrAt(path[i], x)}
           Off == {i \in 0..N : Command(x) \notin CsrAt(path[i], x)}
<1>1. \A i \in 0..N : CsrAt(path[i], x) \cap Fields(x).command = {} BY RunClean
<1>2. N \in Nat /\ N \in 0..N /\ 0 \in 0..N OBVIOUS
<1>3. ASSUME NEW i \in 1..N
      PROVE  /\ (x \notin Acts(c) \/ c.f \notin Stoppers) /\ i - 1 \in On => i \in On
             /\ (x \notin Acts(c) \/ c.f \notin Starters) /\ i - 1 \in Off => i \in Off
             /\ i \in own /\ Command(x) \in c.prog[i].set => i \in On
             /\ i \in own /\ Command(x) \in c.prog[i].clr \ c.prog[i].set => i \in Off
  <2>1. Turn(c, path[i - 1], c.prog[i], At(i, k, e), sel[i - 1], sel[i]) BY DEF Run
  <2>2. path[i] = Under(path[i - 1], c.prog[i], At(i, k, e)) BY DEF Run
  <2>3. CsrAt(path[i - 1], x) \cap Fields(x).command = {}
    <3>1. i - 1 \in 0..N OBVIOUS
    <3> QED BY <1>1, <3>1
  <2>4. Host => At(i, k, e) = NoEvent BY DEF At
  <2>5. /\ (x \notin Acts(c) \/ c.f \notin Stoppers) /\ Command(x) \in CsrAt(path[i - 1], x) => Command(x) \in CsrAt(path[i], x)
        /\ (x \notin Acts(c) \/ c.f \notin Starters) /\ Command(x) \notin CsrAt(path[i - 1], x) => Command(x) \notin CsrAt(path[i], x)
        /\ Written(x, c.prog[i], sel[i]) /\ Command(x) \in c.prog[i].set => Command(x) \in CsrAt(path[i], x)
        /\ Written(x, c.prog[i], sel[i]) /\ Command(x) \in c.prog[i].clr \ c.prog[i].set => Command(x) \notin CsrAt(path[i], x)
    BY <2>1, <2>2, <2>3, <2>4, CsrKept
  <2>6. i \in own => Written(x, c.prog[i], sel[i]) BY DEF Brings, Written, CsrOf, CsrName
  <2>7. i \in 0..N OBVIOUS
  <2> HIDE DEF own, N
  <2> QED BY <2>5, <2>6, <2>7
<1>4. own \subseteq 1..N BY DEF Brings
<1>5. ASSUME x \notin Acts(c) \/ c.f \notin Stoppers,
             Command(x) \in CsrAt(path[0], x) \/ \E j \in own : Command(x) \in c.prog[j].set
      PROVE  Command(x) \in CsrAt(path[N], x)
  <2>1. PICK m \in 0..N : m \in On
    <3>1. CASE Command(x) \in CsrAt(path[0], x) BY <1>2, <3>1
    <3>2. CASE \E j \in own : Command(x) \in c.prog[j].set
      <4>1. PICK j \in own : Command(x) \in c.prog[j].set BY <3>2
      <4>2. j \in On BY <1>3, <1>4, <4>1
      <4> QED BY <4>2
    <3> QED BY <1>5, <3>1, <3>2
  <2>2. \A i \in m..N : i \in On
    <3>1. \A i \in (m + 1)..N : i \in 1..N BY <1>2
    <3>2. \A i \in (m + 1)..N : i - 1 \in On => i \in On BY <1>3, <1>5, <3>1
    <3> HIDE DEF On, N
    <3> QED BY <1>2, <2>1, <3>2, Steps
  <2>3. N \in On
    <3>1. N \in m..N BY <1>2
    <3> QED BY <2>2, <3>1
  <2> QED BY <2>3
<1>6. ASSUME x \notin Acts(c) \/ c.f \notin Starters,
             Command(x) \notin CsrAt(path[0], x) \/ \E j \in own : Command(x) \in c.prog[j].clr \ c.prog[j].set
      PROVE  Command(x) \notin CsrAt(path[N], x)
  <2>1. PICK m \in 0..N : m \in Off
    <3>1. CASE Command(x) \notin CsrAt(path[0], x) BY <1>2, <3>1
    <3>2. CASE \E j \in own : Command(x) \in c.prog[j].clr \ c.prog[j].set
      <4>1. PICK j \in own : Command(x) \in c.prog[j].clr \ c.prog[j].set BY <3>2
      <4>2. j \in Off BY <1>3, <1>4, <4>1
      <4> QED BY <4>2
    <3> QED BY <1>6, <3>1, <3>2
  <2>2. \A i \in m..N : i \in Off
    <3>1. \A i \in (m + 1)..N : i \in 1..N BY <1>2
    <3>2. \A i \in (m + 1)..N : i - 1 \in Off => i \in Off BY <1>3, <1>6, <3>1
    <3> HIDE DEF Off, N
    <3> QED BY <1>2, <2>1, <3>2, Steps
  <2>3. N \in Off
    <3>1. N \in m..N BY <1>2
    <3> QED BY <2>2, <3>1
  <2> QED BY <2>3
<1> QED BY <1>5, <1>6

(* The maximal packet after a call: exactly the one it was given.          *)
LEMMA RunMaxp ==
  ASSUME Sided, NEW c, Len(c.prog) \in Nat, Acts(c) \subseteq Targets, NEW path, NEW k, NEW e, NEW sel,
         Run(c, path, k, e, sel), NEW x \in EndTargets
  PROVE  LET old == MaxpAt(path[0], x)
             new == MaxpAt(path[Len(c.prog)], x)
             size == Bits(Packet(c) % 2^11)
             own == Brings(c, sel, x, MaxpName(x[1]))
         IN  /\ x \notin Acts(c) \/ c.f \notin Configurers \cup {"ConfigEp_Default"} => new = old
             /\ c.f \in Configurers /\ own # {} /\ (group = "dev" \/ old \cap 0..10 \subseteq size) =>
                  new \cap 0..10 = size \cap 0..10
             /\ c.f = "ConfigEp_Default" /\ own # {} => new = {}
<1> DEFINE N == Len(c.prog)
           size == Bits(Packet(c) % 2^11)
           own == Brings(c, sel, x, MaxpName(x[1]))
           max(i) == MaxpAt(path[i], x)
           op(i) == c.prog[i]
<1>1. ASSUME NEW i \in 1..N
      PROVE  /\ i \notin own => max(i) = max(i - 1)
             /\ i \in own => /\ x \in Acts(c)
                             /\ max(i) = (max(i - 1) \ op(i).clr) \cup op(i).set
                             /\ \/ /\ c.f \in Configurers /\ op(i).set = size
                                   /\ op(i).clr = IF group = "dev" THEN 0..12 ELSE {}
                                \/ c.f = "ConfigEp_Default" /\ op(i).set = {} /\ op(i).clr = All
  <2>1. Turn(c, path[i - 1], c.prog[i], At(i, k, e), sel[i - 1], sel[i]) BY DEF Run
  <2>2. path[i] = Under(path[i - 1], c.prog[i], At(i, k, e)) BY DEF Run
  <2>3. i \in own <=> (op(i).reg = MaxpName(x[1]) /\ sel[i] = x[2]) BY DEF Brings
  <2> HIDE DEF own, N
  <2> QED BY <2>1, <2>2, <2>3, MaxpTurn
<1>2. N \in Nat /\ N \in 0..N /\ 0 \in 0..N OBVIOUS
<1>3. own \subseteq 1..N BY DEF Brings
<1>4. "ConfigEp_Default" \notin Configurers BY DEF Configurers
<1>5. ASSUME x \notin Acts(c) \/ c.f \notin Configurers \cup {"ConfigEp_Default"} PROVE max(N) = max(0)
  <2> DEFINE T == {i \in 0..N : max(i) = max(0)}
  <2>1. 0 \in T OBVIOUS
  <2>2. ASSUME NEW i \in 1..N, i - 1 \in T PROVE i \in T
    <3>1. i \notin own BY <1>1, <1>5
    <3> QED BY <1>1, <2>2, <3>1
  <2>3. \A i \in 0..N : i \in T
    <3>1. \A i \in (0 + 1)..N : i - 1 \in T => i \in T BY <2>2
    <3> HIDE DEF T, N
    <3> QED BY <1>2, <2>1, <3>1, Steps
  <2> HIDE DEF N
  <2> QED BY <1>2, <2>3
<1>6. ASSUME c.f \in Configurers, own # {}, group = "dev" \/ max(0) \cap 0..10 \subseteq size
      PROVE  max(N) \cap 0..10 = size \cap 0..10
  <2> DEFINE T == {i \in 0..N : max(i) \cap 0..10 = size \cap 0..10}
             B == {i \in 0..N : max(i) \cap 0..10 \subseteq size}
  <2>1. \A i \in 1..N : i \in own => /\ max(i) = (max(i - 1) \ op(i).clr) \cup size
                                     /\ op(i).clr = IF group = "dev" THEN 0..12 ELSE {}
    BY <1>1, <1>4, <1>6
  <2>2. ASSUME NEW i \in 1..N
        PROVE  /\ i - 1 \in B => i \in B
               /\ i \in own /\ (group = "dev" \/ i - 1 \in B) => i \in T
               /\ i - 1 \in T => i \in T
    <3>1. i \in 0..N /\ i - 1 \in 0..N OBVIOUS
    <3>2. 0..10 \subseteq 0..12 OBVIOUS
    <3> HIDE DEF N, max, own, size
    <3>3. CASE i \notin own
      <4>1. max(i) = max(i - 1) BY <1>1, <3>3
      <4> QED BY <3>1, <3>3, <4>1
    <3>4. CASE i \in own
      <4>1. max(i) = (max(i - 1) \ op(i).clr) \cup size BY <2>1, <3>4
      <4>2. CASE group = "dev"
        <5>1. op(i).clr = 0..12 BY <2>1, <3>4, <4>2
        <5>2. max(i) \cap 0..10 = size \cap 0..10 BY <3>2, <4>1, <5>1
        <5> QED BY <3>1, <5>2
      <4>3. CASE group # "dev"
        <5>1. op(i).clr = {} BY <2>1, <3>4, <4>3
        <5>2. max(i) = max(i - 1) \cup size BY <4>1, <5>1
        <5> HIDE DEF op
        <5>3. i - 1 \in B => max(i) \cap 0..10 = size \cap 0..10 BY <5>2
        <5>4. i - 1 \in B => i \in B BY <3>1, <5>3
        <5>5. i - 1 \in T => i - 1 \in B OBVIOUS
        <5> QED BY <3>1, <4>3, <5>3, <5>4, <5>5
      <4> QED BY <4>2, <4>3
    <3> QED BY <3>3, <3>4
  <2>3. PICK j \in own : TRUE BY <1>6
  <2>4. j \in 1..N /\ j \in 0..N /\ j - 1 \in 0..N BY <1>3
  <2>5. j \in T
    <3>1. CASE group = "dev" BY <2>2, <2>3, <2>4, <3>1
    <3>2. CASE group # "dev"
      <4>1. 0 \in B BY <1>2, <1>6, <3>2
      <4>2. \A i \in 0..N : i \in B
        <5>1. \A i \in (0 + 1)..N : i - 1 \in B => i \in B BY <2>2
        <5> HIDE DEF B, N
        <5> QED BY <1>2, <4>1, <5>1, Steps
      <4>3. j - 1 \in B BY <2>4, <4>2
      <4> QED BY <2>2, <2>3, <2>4, <4>3
    <3> QED BY <3>1, <3>2
  <2>6. \A i \in j..N : i \in T
    <3>1. \A i \in (j + 1)..N : i \in 1..N BY <2>4
    <3>2. \A i \in (j + 1)..N : i - 1 \in T => i \in T BY <2>2, <3>1
    <3> HIDE DEF T, N
    <3> QED BY <1>2, <2>4, <2>5, <3>2, Steps
  <2>7. N \in j..N BY <1>2, <2>4
  <2>8. N \in T BY <2>6, <2>7
  <2> QED BY <2>8
<1>7. ASSUME c.f = "ConfigEp_Default", own # {} PROVE max(N) = {}
  <2> DEFINE T == {i \in 0..N : max(i) = {}}
  <2>1. ASSUME NEW i \in 1..N PROVE (i \in own \/ i - 1 \in T) => i \in T
    <3>1. CASE i \notin own BY <1>1, <3>1
    <3>2. CASE i \in own
      <4>1. op(i).set = {} /\ op(i).clr = All /\ max(i) = (max(i - 1) \ op(i).clr) \cup op(i).set
        BY <1>1, <1>4, <1>7, <3>2
      <4>2. max(i - 1) \subseteq All
        <5>1. path[i - 1] \in Registers BY DEF Run, Turn
        <5>2. MaxpName(x[1]) \in Banked /\ x[2] \in Eps BY TargetFacts DEF MaxpName, Banked, EndTargets
        <5> QED BY <5>1, <5>2 DEF Registers, MaxpAt
      <4> HIDE DEF max, op
      <4>3. max(i) = {} BY <4>1, <4>2
      <4> QED BY <4>3
    <3> QED BY <3>1, <3>2
  <2>2. PICK j \in own : TRUE BY <1>7
  <2>3. j \in 1..N /\ j \in 0..N BY <1>3
  <2>4. j \in T BY <2>1, <2>2, <2>3
  <2>5. \A i \in j..N : i \in T
    <3>1. \A i \in (j + 1)..N : i \in 1..N BY <2>3
    <3>2. \A i \in (j + 1)..N : i - 1 \in T => i \in T BY <2>1, <3>1
    <3> HIDE DEF T, N
    <3> QED BY <1>2, <2>3, <2>4, <3>2, Steps
  <2>6. N \in j..N BY <1>2, <2>3
  <2>7. N \in T BY <2>5, <2>6
  <2> QED BY <2>7
<1> QED BY <1>5, <1>6, <1>7

(* The bus after a call.                                                   *)
LEMMA RunBus ==
  ASSUME Sided, NEW c, Len(c.prog) \in Nat, Acts(c) \subseteq Targets, NEW path, NEW k, NEW e, NEW sel,
         Run(c, path, k, e, sel)
  PROVE  LET old == path[0].c["VEND0"]
             new == path[Len(c.prog)].c["VEND0"]
             done == \E j \in 1..Len(c.prog) : c.prog[j].reg = "VEND0"
         IN  /\ c.f \notin {"ConfigEpDma", "ClearEpDma"} \/ Acts(c) \subseteq {<<"EP0", 0>>} => new = old
             /\ c.f = "ConfigEpDma" /\ done => 0 \in new
             /\ c.f = "ClearEpDma" /\ done => 0 \notin new
<1> DEFINE N == Len(c.prog)
           bus(i) == path[i].c["VEND0"]
<1>1. ASSUME NEW i \in 1..N
      PROVE  /\ c.prog[i].reg # "VEND0" => bus(i) = bus(i - 1)
             /\ c.prog[i].reg = "VEND0" =>
                  /\ Acts(c) \ {<<"EP0", 0>>} # {}
                  /\ \/ c.f = "ConfigEpDma" /\ 0 \in bus(i)
                     \/ c.f = "ClearEpDma" /\ 0 \notin bus(i)
  <2>1. Turn(c, path[i - 1], c.prog[i], At(i, k, e), sel[i - 1], sel[i]) BY DEF Run
  <2>2. path[i] = Under(path[i - 1], c.prog[i], At(i, k, e)) BY DEF Run
  <2> HIDE DEF N
  <2> QED BY <2>1, <2>2, BusTurn
<1>2. N \in Nat /\ N \in 0..N /\ 0 \in 0..N OBVIOUS
<1>3. ASSUME c.f \notin {"ConfigEpDma", "ClearEpDma"} \/ Acts(c) \subseteq {<<"EP0", 0>>} PROVE bus(N) = bus(0)
  <2> DEFINE T == {i \in 0..N : bus(i) = bus(0)}
  <2>1. \A i \in 1..N : bus(i) = bus(i - 1) BY <1>1, <1>3
  <2> HIDE DEF bus
  <2>2. 0 \in T /\ \A i \in (0 + 1)..N : i - 1 \in T => i \in T BY <1>2, <2>1
  <2>3. \A i \in 0..N : i \in T
    <3> HIDE DEF T, N
    <3> QED BY <1>2, <2>2, Steps
  <2>4. N \in T BY <1>2, <2>3
  <2> QED BY <2>4
<1>4. ASSUME NEW S, \A i \in 1..N : c.prog[i].reg = "VEND0" => bus(i) \in S,
             NEW j \in 1..N, c.prog[j].reg = "VEND0"
      PROVE  bus(N) \in S
  <2> DEFINE T == {i \in 0..N : bus(i) \in S}
  <2>1. \A i \in 1..N : i - 1 \in T => i \in T BY <1>1, <1>4
  <2>2. j \in T /\ j \in 0..N BY <1>4
  <2>3. \A i \in j..N : i \in T
    <3>1. \A i \in (j + 1)..N : i \in 1..N BY <1>2
    <3>2. \A i \in (j + 1)..N : i - 1 \in T => i \in T BY <2>1, <3>1
    <3> HIDE DEF T, N
    <3> QED BY <1>2, <2>2, <3>2, Steps
  <2>4. N \in j..N BY <1>2, <2>2
  <2>5. N \in T BY <2>3, <2>4
  <2> QED BY <2>5
<1>5. \A i \in 1..N : bus(i) \in SUBSET All
  <2> TAKE i \in 1..N
  <2>1. Turn(c, path[i - 1], c.prog[i], At(i, k, e), sel[i - 1], sel[i]) BY DEF Run
  <2>2. path[i] = Under(path[i - 1], c.prog[i], At(i, k, e)) BY DEF Run
  <2>3. Turned(c, path[i - 1], c.prog[i], At(i, k, e), sel[i], path[i], Raise(path[i - 1], At(i, k, e)))
    BY <2>1, <2>2, TurnFacts
  <2>4. path[i] \in Registers BY <2>3 DEF Turned
  <2>5. "VEND0" \in Common BY DEF Common
  <2> QED BY <2>4, <2>5 DEF Registers
<1>6. ASSUME c.f = "ConfigEpDma", NEW j \in 1..N, c.prog[j].reg = "VEND0" PROVE 0 \in bus(N)
  <2> DEFINE S == {b \in SUBSET All : 0 \in b}
  <2>1. \A i \in 1..N : c.prog[i].reg = "VEND0" => bus(i) \in S BY <1>1, <1>5, <1>6
  <2> HIDE DEF S, bus, N
  <2>2. bus(N) \in S BY <1>4, <1>6, <2>1
  <2> QED BY <2>2 DEF S
<1>7. ASSUME c.f = "ClearEpDma", NEW j \in 1..N, c.prog[j].reg = "VEND0" PROVE 0 \notin bus(N)
  <2> DEFINE S == {b \in SUBSET All : 0 \notin b}
  <2>1. \A i \in 1..N : c.prog[i].reg = "VEND0" => bus(i) \in S BY <1>1, <1>5, <1>7
  <2> HIDE DEF S, bus, N
  <2>2. bus(N) \in S BY <1>4, <1>7, <2>1
  <2> QED BY <2>2 DEF S
<1> QED BY <1>3, <1>6, <1>7

(* The FIFO registers are plain, and usb_bulk_ep_reset alone writes them.  *)
FifoNames == {"TXFIFOAD", "TXFIFOSZ", "RXFIFOAD", "RXFIFOSZ"}

(* What one access makes of the FIFO register q of endpoint y.             *)
FifoTurned(c, R, U, o, s, q, y) ==
  /\ U.e[q][y] = IF o.reg = q /\ s = y THEN (R.e[q][y] \ o.clr) \cup o.set ELSE R.e[q][y]
  /\ o.reg = q => c.f = "bulk_ep_reset"

(* It is this.                                                             *)
LEMMA FifoTurn ==
  ASSUME Sided, NEW c, NEW R, NEW o, NEW e, NEW p, NEW s, Turn(c, R, o, e, p, s),
         NEW U, U = Under(R, o, e), NEW q \in FifoNames, NEW y \in Eps
  PROVE  FifoTurned(c, R, U, o, s, q, y)
<1> DEFINE M == Raise(R, e)
<1>1. q \in Banked /\ q \notin {"TXCSR", "RXCSR"} BY DEF FifoNames, Banked
<1>2. /\ \A r \in Banked : \A z \in Eps :
           U.e[r][z] = IF o.reg = r /\ s = z
                       THEN Land(Host, r, z, M.e[r][z], (R.e[r][z] \ o.clr) \cup o.set) ELSE M.e[r][z]
      /\ o.reg \in Banked =>
           \E z \in Acts(c) : z[2] = s /\ Fits(group, z[1], c.f, Packet(c), o.reg, o.clr, o.set)
  <2>1. Turned(c, R, o, e, s, Under(R, o, e), Raise(R, e)) BY TurnFacts
  <2> QED BY <2>1 DEF Turned
<1>3. M.e[q][y] = R.e[q][y]
  <2>1. R \in Registers /\ e \in AnyEvent BY DEF Turn
  <2>2. CsrOf(e.x) # q BY <1>1, CsrFacts
  <2> QED BY <1>1, <2>1, <2>2, RaiseFacts
<1>4. \A z, old, v : Land(Host, q, z, old, v) = v BY <1>1 DEF Land, Cleared1, FifoNames
<1>5. o.reg = q => c.f = "bulk_ep_reset"
  <2> HAVE o.reg = q
  <2>1. PICK z \in Acts(c) : Fits(group, z[1], c.f, Packet(c), q, o.clr, o.set) BY <1>1, <1>2
  <2>2. q # CsrName(z[1]) /\ q # MaxpName(z[1]) /\ q # "VEND0" /\ q \notin Others(group, z[1])
    BY DEF FifoNames, CsrName, MaxpName, Others
  <2> QED BY <2>1, <2>2 DEF Fits
<1> HIDE DEF M
<1>6. U.e[q][y] = IF o.reg = q /\ s = y THEN (R.e[q][y] \ o.clr) \cup o.set ELSE R.e[q][y]
  BY <1>1, <1>2, <1>3, <1>4
<1> QED BY <1>5, <1>6 DEF FifoTurned

(* What is written to one stays there until it is written again.           *)
LEMMA FifoStands ==
  ASSUME Sided, NEW c, Len(c.prog) \in Nat, NEW path, NEW k, NEW e, NEW sel, Run(c, path, k, e, sel),
         NEW q \in FifoNames, NEW y \in Eps, NEW j \in 0..Len(c.prog),
         \A i \in (j + 1)..Len(c.prog) : ~(c.prog[i].reg = q /\ sel[i] = y)
  PROVE  path[Len(c.prog)].e[q][y] = path[j].e[q][y]
<1> DEFINE N == Len(c.prog)
           T == {i \in 0..N : path[i].e[q][y] = path[j].e[q][y]}
<1>1. N \in Nat /\ N \in 0..N /\ j \in 0..N /\ N \in j..N OBVIOUS
<1>2. j \in T OBVIOUS
<1>3. ASSUME NEW i \in (j + 1)..N, i - 1 \in T PROVE i \in T
  <2>1. i \in 1..N /\ i \in 0..N BY <1>1
  <2>2. Turn(c, path[i - 1], c.prog[i], At(i, k, e), sel[i - 1], sel[i]) BY <2>1 DEF Run
  <2>3. path[i] = Under(path[i - 1], c.prog[i], At(i, k, e)) BY <2>1 DEF Run
  <2>4. FifoTurned(c, path[i - 1], path[i], c.prog[i], sel[i], q, y) BY <2>2, <2>3, FifoTurn
  <2>5. path[i].e[q][y] = path[i - 1].e[q][y] BY <1>1, <2>4 DEF FifoTurned
  <2> QED BY <1>3, <2>1, <2>5
<1>4. \A i \in j..N : i \in T
  <2> HIDE DEF T, N
  <2> QED BY <1>1, <1>2, <1>3, Steps
<1>5. N \in T BY <1>1, <1>4
<1> QED BY <1>5

(* The FIFOs as usb_bulk_ep_reset places them.                             *)
FifoSet(R) ==
  /\ R.e["TXFIFOAD"][1] = Bits(140) /\ R.e["TXFIFOSZ"][1] = Bits(6) \cup {4}
  /\ R.e["RXFIFOAD"][2] = Bits(12) /\ R.e["RXFIFOSZ"][2] = Bits(6) \cup {4}

(* What a call makes of the FIFOs.                                         *)
LEMMA RunFifo ==
  ASSUME Sided, NEW c, Len(c.prog) \in Nat, NEW path, NEW k, NEW e, NEW sel, Run(c, path, k, e, sel)
  PROVE  LET end == path[Len(c.prog)]
         IN  /\ c.f # "bulk_ep_reset" => \A q \in FifoNames : \A y \in Eps : end.e[q][y] = path[0].e[q][y]
             /\ IsBulkReset(c.prog) /\ sel = BulkSel => FifoSet(end)
<1> DEFINE N == Len(c.prog)
           p == c.prog
<1>1. ASSUME c.f # "bulk_ep_reset", NEW q \in FifoNames, NEW y \in Eps
      PROVE  path[N].e[q][y] = path[0].e[q][y]
  <2>1. \A i \in (0 + 1)..N : ~(c.prog[i].reg = q /\ sel[i] = y)
    <3> TAKE i \in (0 + 1)..N
    <3>1. i \in 1..N OBVIOUS
    <3>2. Turn(c, path[i - 1], c.prog[i], At(i, k, e), sel[i - 1], sel[i]) BY <3>1 DEF Run
    <3>3. path[i] = Under(path[i - 1], c.prog[i], At(i, k, e)) BY <3>1 DEF Run
    <3>4. FifoTurned(c, path[i - 1], path[i], c.prog[i], sel[i], q, y) BY <3>2, <3>3, FifoTurn
    <3> QED BY <1>1, <3>4 DEF FifoTurned
  <2>2. 0 \in 0..N OBVIOUS
  <2> QED BY <2>1, <2>2, FifoStands
<1>2. ASSUME IsBulkReset(p), sel = BulkSel PROVE FifoSet(path[N])
  <2> HIDE DEF p, N
  <2>0. N = 19 /\ p \in Seq(Accesses) BY <1>2 DEF IsBulkReset, N, p
  <2>1. /\ p[1] = Update("EPIND", All, Bits(1)) /\ p[2] = TxWhole /\ p[3] = TxWhole
        /\ p[4] = Update("TXMAXP", 0..12, Bits(512)) /\ p[5] = Update("TXCSR", {14}, {})
        /\ p[6] = Update("TXFIFOAD", All, Bits(140)) /\ p[7] = Update("TXFIFOSZ", All, Bits(6))
        /\ p[8] = Update("TXFIFOSZ", {}, {4}) /\ p[9] = Update("INTTxE", {}, {1})
        /\ p[10] = Update("EPIND", All, Bits(2)) /\ p[11] = RxWhole /\ p[12] = RxWhole
        /\ p[13] = Update("RXMAXP", 0..12, Bits(512)) /\ p[14] = Update("RXCSR", {14}, {})
        /\ p[15] = Update("RXFIFOAD", All, Bits(12)) /\ p[16] = Update("RXFIFOSZ", All, Bits(6))
        /\ p[17] = Update("RXFIFOSZ", {}, {4}) /\ p[18] = Update("INTRxE", {}, {2})
        /\ p[19] = Update("EPIND", All, Bits(0))
    BY <1>2 DEF IsBulkReset
  <2>2. /\ \A i \in 7..19 : p[i].reg # "TXFIFOAD"
        /\ \A i \in 9..19 : p[i].reg # "TXFIFOSZ"
        /\ \A i \in 16..19 : p[i].reg # "RXFIFOAD"
        /\ \A i \in 18..19 : p[i].reg # "RXFIFOSZ"
    <3>1. TxWhole.reg = "TXCSR" /\ RxWhole.reg = "RXCSR" BY AccessForms DEF TxWhole, RxWhole
    <3>2. /\ p[7].reg = "TXFIFOSZ" /\ p[8].reg = "TXFIFOSZ" /\ p[9].reg = "INTTxE" /\ p[10].reg = "EPIND"
          /\ p[11].reg = "RXCSR" /\ p[12].reg = "RXCSR" /\ p[13].reg = "RXMAXP" /\ p[14].reg = "RXCSR"
          /\ p[15].reg = "RXFIFOAD" /\ p[16].reg = "RXFIFOSZ" /\ p[17].reg = "RXFIFOSZ"
          /\ p[18].reg = "INTRxE" /\ p[19].reg = "EPIND"
      BY <2>1, <3>1, AccessForms
    <3>3. /\ \A i \in 7..19 : i \in {7, 8, 9, 10, 11, 12, 13, 14, 15, 16, 17, 18, 19}
          /\ \A i \in 9..19 : i \in {9, 10, 11, 12, 13, 14, 15, 16, 17, 18, 19}
          /\ \A i \in 16..19 : i \in {16, 17, 18, 19}
          /\ \A i \in 18..19 : i \in {18, 19}
      OBVIOUS
    <3> QED BY <3>2, <3>3
  <2>3. sel[6] = 1 /\ sel[7] = 1 /\ sel[8] = 1 /\ sel[15] = 2 /\ sel[16] = 2 /\ sel[17] = 2
    BY <1>2 DEF BulkSel
  <2>4. 1 \in Eps /\ 2 \in Eps BY TargetFacts
  <2> DEFINE at(i, q, y) == path[i].e[q][y]
  <2>5. ASSUME NEW i \in 1..19, NEW q \in FifoNames, NEW y \in Eps, p[i].reg = q, sel[i] = y
        PROVE  at(i, q, y) = (at(i - 1, q, y) \ p[i].clr) \cup p[i].set /\ at(i - 1, q, y) \subseteq All
    <3>1. i \in 1..Len(c.prog) BY <2>0 DEF N
    <3>2. Turn(c, path[i - 1], c.prog[i], At(i, k, e), sel[i - 1], sel[i]) BY <3>1 DEF Run
    <3>3. path[i] = Under(path[i - 1], c.prog[i], At(i, k, e)) BY <3>1 DEF Run
    <3>4. FifoTurned(c, path[i - 1], path[i], c.prog[i], sel[i], q, y) BY <3>2, <3>3, FifoTurn
    <3>5. path[i - 1] \in Registers BY <3>2 DEF Turn
    <3>6. q \in Banked BY DEF FifoNames, Banked
    <3> QED BY <2>5, <3>4, <3>5, <3>6 DEF FifoTurned, Registers, p
  <2>7. "TXFIFOAD" \in FifoNames /\ "TXFIFOSZ" \in FifoNames /\ "RXFIFOAD" \in FifoNames /\ "RXFIFOSZ" \in FifoNames
    BY DEF FifoNames
  <2> HIDE DEF at
  <2>8. ASSUME NEW i \in 1..19, NEW q \in FifoNames, NEW y \in Eps, NEW set, p[i] = Update(q, All, set), sel[i] = y
        PROVE  at(i, q, y) = set
    <3>1. p[i].reg = q /\ p[i].clr = All /\ p[i].set = set BY <2>8, AccessForms
    <3>2. at(i, q, y) = (at(i - 1, q, y) \ p[i].clr) \cup p[i].set /\ at(i - 1, q, y) \subseteq All
      BY <2>5, <2>8, <3>1
    <3> QED BY <3>1, <3>2
  <2>9. ASSUME NEW i \in 1..19, NEW q \in FifoNames, NEW y \in Eps, NEW j, j = i - 1,
             p[i] = Update(q, {}, {4}), sel[i] = y
        PROVE  at(i, q, y) = at(j, q, y) \cup {4}
    <3>1. p[i].reg = q /\ p[i].clr = {} /\ p[i].set = {4} BY <2>9, AccessForms
    <3>2. at(i, q, y) = (at(i - 1, q, y) \ p[i].clr) \cup p[i].set BY <2>5, <2>9, <3>1
    <3> QED BY <2>9, <3>1, <3>2
  <2>10. at(6, "TXFIFOAD", 1) = Bits(140) BY <2>1, <2>3, <2>4, <2>7, <2>8
  <2>11. at(8, "TXFIFOSZ", 1) = Bits(6) \cup {4}
    <3>1. at(7, "TXFIFOSZ", 1) = Bits(6) BY <2>1, <2>3, <2>4, <2>7, <2>8
    <3>2. 8 \in 1..19 /\ 7 = 8 - 1 /\ p[8] = Update("TXFIFOSZ", {}, {4}) /\ sel[8] = 1 BY <2>1, <2>3
    <3>3. at(8, "TXFIFOSZ", 1) = at(7, "TXFIFOSZ", 1) \cup {4} BY <2>4, <2>7, <2>9, <3>2
    <3> QED BY <3>1, <3>2, <3>3
  <2>12. at(15, "RXFIFOAD", 2) = Bits(12) BY <2>1, <2>3, <2>4, <2>7, <2>8
  <2>13. at(17, "RXFIFOSZ", 2) = Bits(6) \cup {4}
    <3>1. at(16, "RXFIFOSZ", 2) = Bits(6) BY <2>1, <2>3, <2>4, <2>7, <2>8
    <3>2. 17 \in 1..19 /\ 16 = 17 - 1 /\ p[17] = Update("RXFIFOSZ", {}, {4}) /\ sel[17] = 2 BY <2>1, <2>3
    <3>3. at(17, "RXFIFOSZ", 2) = at(16, "RXFIFOSZ", 2) \cup {4}
      <4>1. \A q \in FifoNames : \A y \in Eps : p[17] = Update(q, {}, {4}) /\ sel[17] = y => at(17, q, y) = at(16, q, y) \cup {4}
        BY <2>9, <3>2
      <4> QED BY <2>4, <2>7, <3>2, <4>1
    <3> QED BY <3>1, <3>2, <3>3
  <2>14. ASSUME NEW q \in FifoNames, NEW y \in Eps, NEW j \in 0..19, \A i \in (j + 1)..19 : p[i].reg # q
         PROVE  at(19, q, y) = at(j, q, y)
    <3>1. Len(c.prog) = 19 BY <2>0 DEF N
    <3>2. j \in 0..Len(c.prog) /\ \A i \in (j + 1)..Len(c.prog) : ~(c.prog[i].reg = q /\ sel[i] = y)
      BY <2>14, <3>1 DEF p
    <3>3. path[Len(c.prog)].e[q][y] = path[j].e[q][y] BY <3>2, FifoStands
    <3> QED BY <3>1, <3>3 DEF at
  <2>15. /\ 6 \in 0..19 /\ 8 \in 0..19 /\ 15 \in 0..19 /\ 17 \in 0..19
         /\ 6 + 1 = 7 /\ 8 + 1 = 9 /\ 15 + 1 = 16 /\ 17 + 1 = 18
    OBVIOUS
  <2>16. at(19, "TXFIFOAD", 1) = Bits(140) BY <2>2, <2>4, <2>7, <2>10, <2>14, <2>15
  <2>17. at(19, "TXFIFOSZ", 1) = Bits(6) \cup {4} BY <2>2, <2>4, <2>7, <2>11, <2>14, <2>15
  <2>18. at(19, "RXFIFOAD", 2) = Bits(12) BY <2>2, <2>4, <2>7, <2>12, <2>14, <2>15
  <2>19. at(19, "RXFIFOSZ", 2) = Bits(6) \cup {4} BY <2>2, <2>4, <2>7, <2>13, <2>14, <2>15
  <2> QED BY <2>0, <2>16, <2>17, <2>18, <2>19 DEF FifoSet, at
<1> QED BY <1>1, <1>2

-----------------------------------------------------------------------------
(* The invariant of EndpointKept, call by call.                            *)

(* The inductive invariant of EndpointKept.  Between two calls endpoint 0  *)
(* is selected and no command bit of a CSR is set; the history and the     *)
(* registers agree endpoint by endpoint.                                   *)
EndpointsTyped ==
  /\ group \in Groups /\ usb \in Registers /\ raised \in Nat
  /\ told \in [Targets -> {-1, 0} \cup Sizes]
  /\ received \subseteq Readers /\ users \subseteq EndTargets

(* The maximal packets are the ones given last.                            *)
SizesKept == \A x \in EndTargets : told[x] # -1 => MaxpAt(usb, x) \cap 0..10 = Bits(told[x])

(* No command is left, and what was received or asked for stands.          *)
CsrsKept ==
  Sided =>
    /\ usb.c["EPIND"] = Bits(0)
    /\ \A x \in Targets : CsrAt(usb, x) \cap Fields(x).command = {}
    /\ \A x \in received : ReadyBit \in CsrAt(usb, x)
    /\ \A x \in Targets : Command(x) # NoBit /\ (Host => raised = 0) =>
         (Command(x) \in CsrAt(usb, x) <=> x \in asked)

(* The bus is selected while an endpoint uses DMA.                         *)
BusKept == group = "dev" /\ ~shared => (0 \in usb.c["VEND0"] <=> users # {})

(* The FIFOs are unset or as usb_bulk_ep_reset places them.                *)
FifosKept == group = "dev" => usb.e["RXFIFOAD"][2] = {} \/ FifoSet(usb)

(* The group of the shared functions configures and receives nothing.      *)
SharedQuiet == ~Sided => received = {} /\ \A x \in Targets : told[x] = 0

(* All of it.                                                              *)
EndpointInv == EndpointsTyped /\ SizesKept /\ CsrsKept /\ BusKept /\ FifosKept /\ SharedQuiet

(* Call c of the device or the host side, e coming in its k-th access:     *)
(* path is the registers between its accesses, sel the endpoints selected. *)
Called(c, k, e, path, sel) ==
  /\ Sided /\ Shape(group, c) /\ (\A y \in Own(c) \cap Targets : Effects(group, c, sel, y))
  /\ Run(c, path, k, e, sel) /\ e \in AnyEvent /\ path[0] = usb
  /\ k \in 0..Len(c.prog) /\ (k = 0 => e = NoEvent) /\ (k # 0 => path[k - 1] = Before(c.prog, k))
  /\ Noted(c, k, e)

(* The endpoints of such a call.                                           *)
LEMMA CalledFacts ==
  ASSUME NEW c, NEW k, NEW e, NEW path, NEW sel, Called(c, k, e, path, sel)
  PROVE  /\ Len(c.prog) \in Nat /\ Acts(c) \subseteq Targets
         /\ c.f \in Touchers => Acts(c) = Own(c) /\ Own(c) \subseteq Targets
<1>1. Shape(group, c) BY DEF Called
<1> QED BY <1>1 DEF Shape

(* What the history says of it.                                            *)
LEMMA NotedFacts ==
  ASSUME NEW c, NEW k, NEW e, Noted(c, k, e)
  PROVE  LET own == Own(c)
             come == IF e.kind = "packet" /\ (k = 0 \/ ~Collides(c.prog, k, e)) THEN {e.x} ELSE {}
         IN  /\ told' = [x \in Targets |->
                           IF x \notin own \/ x[2] = 0 THEN told[x]
                           ELSE IF c.f = "bulk_ep_reset" THEN BULK_FIFOSIZE
                           ELSE IF c.f = "ConfigEp_Default" THEN 0
                           ELSE IF c.f # "ConfigEp" THEN told[x]
                           ELSE IF group = "host" /\ told[x] # 0 THEN -1 ELSE c.a]
             /\ received' = (received \cup come) \ (IF c.f \in Droppers \cup {"bulk_ep_reset"} THEN own ELSE {})
             /\ asked' = (CASE c.f \in Starters -> asked \cup own
                            [] c.f \in Stoppers -> asked \ own
                            [] OTHER -> asked)
                         \ (IF group = "host" THEN come ELSE {})
             /\ users' = CASE c.f = "ConfigEpDma" -> users \cup (own \ {<<"EP0", 0>>})
                           [] c.f = "ClearEpDma" -> users \ own
                           [] OTHER -> users
             /\ shared' = (\/ shared \/ Cardinality(users') > 1
                           \/ c.f = "ClearEpDma" /\ users \ own # {})
<1> DEFINE own == Own(c)
           come == IF e.kind = "packet" /\ (k = 0 \/ ~Collides(c.prog, k, e)) THEN {e.x} ELSE {}
<1>1. own = IF c.f = "bulk_ep_reset" THEN {<<"TX", 1>>, <<"RX", 2>>} ELSE {c.x} BY DEF Own, BulkTargets
<1> HIDE DEF own
<1>2. told' = [x \in Targets |->
                           IF x \notin own \/ x[2] = 0 THEN told[x]
                           ELSE IF c.f = "bulk_ep_reset" THEN BULK_FIFOSIZE
                           ELSE IF c.f = "ConfigEp_Default" THEN 0
                           ELSE IF c.f # "ConfigEp" THEN told[x]
                           ELSE IF group = "host" /\ told[x] # 0 THEN -1 ELSE c.a]
  BY <1>1 DEF Noted
<1>3. received' = (received \cup come) \ (IF c.f \in Droppers \cup {"bulk_ep_reset"} THEN own ELSE {})
  BY <1>1 DEF Noted
<1>4. asked' = (CASE c.f \in Starters -> asked \cup own
                  [] c.f \in Stoppers -> asked \ own
                  [] OTHER -> asked)
               \ (IF group = "host" THEN come ELSE {})
  <2>1. asked' = (CASE c.f \in {"EpSendStall", "StartInToken"} -> asked \cup own
                    [] c.f \in Enders \cup {"EpClearStall", "StopInToken", "bulk_ep_reset"} -> asked \ own
                    [] OTHER -> asked)
                 \ (IF group = "host" /\ e.kind = "packet" /\ (k = 0 \/ ~Collides(c.prog, k, e)) THEN {e.x} ELSE {})
    BY <1>1 DEF Noted
  <2> QED BY <2>1 DEF Starters, Stoppers
<1>5. users' = CASE c.f = "ConfigEpDma" -> users \cup (own \ {<<"EP0", 0>>})
                 [] c.f = "ClearEpDma" -> users \ own
                 [] OTHER -> users
  BY <1>1 DEF Noted
<1>6. shared' = (\/ shared \/ Cardinality(users') > 1
                 \/ c.f = "ClearEpDma" /\ users \ own # {})
  BY <1>1 DEF Noted
<1> QED BY <1>2, <1>3, <1>4, <1>5, <1>6 DEF own

(* The names of the calls, once and for all.                               *)
LEMMA Names ==
  /\ "ConfigEp" \in Configurers /\ "bulk_ep_reset" \in Configurers
  /\ \A f \in Configurers : f \in {"ConfigEp", "bulk_ep_reset"}
  /\ Droppers \cup {"bulk_ep_reset"} \subseteq Touchers /\ Starters \subseteq Touchers /\ Stoppers \subseteq Touchers
  /\ Configurers \cup {"ConfigEp_Default"} \subseteq Touchers /\ {"ConfigEpDma", "ClearEpDma"} \subseteq Touchers
  /\ Starters \cap Stoppers = {}
BY DEF Touchers, Droppers, Starters, Stoppers, Enders, Configurers

(* Every endpoint has the maximal packet it was given last.                *)
LEMMA CalledSizes ==
  ASSUME EndpointInv, NEW c, NEW k, NEW e, NEW path, NEW sel, Called(c, k, e, path, sel)
  PROVE  /\ told' \in [Targets -> {-1, 0} \cup Sizes]
         /\ \A x \in EndTargets : told'[x] # -1 => MaxpAt(path[Len(c.prog)], x) \cap 0..10 = Bits(told'[x])
<1> DEFINE own == Own(c)
           new(x) == MaxpAt(path[Len(c.prog)], x)
           size == Bits(Packet(c) % 2^11)
<1>1. told' = [x \in Targets |->
                           IF x \notin own \/ x[2] = 0 THEN told[x]
                           ELSE IF c.f = "bulk_ep_reset" THEN BULK_FIFOSIZE
                           ELSE IF c.f = "ConfigEp_Default" THEN 0
                           ELSE IF c.f # "ConfigEp" THEN told[x]
                           ELSE IF group = "host" /\ told[x] # 0 THEN -1 ELSE c.a]
  BY NotedFacts DEF Called
<1>2. /\ Shape(group, c) /\ Sided /\ \A y \in own \cap Targets : Effects(group, c, sel, y) BY DEF Called
<1>3. /\ c.f = "ConfigEp" => c.a \in Sizes
      /\ c.f \in Touchers => Acts(c) = own
      /\ c.f = "bulk_ep_reset" => group = "dev"
  BY <1>2 DEF Shape
<1>4. told \in [Targets -> {-1, 0} \cup Sizes] BY DEF EndpointInv, EndpointsTyped
<1>5. BULK_FIFOSIZE = 512 /\ Sizes = {64, 512} /\ 512 % 2^11 = 512 /\ 64 % 2^11 = 64
  BY FifoNumbers DEF BULK_FIFOSIZE, Sizes
<1> HIDE DEF own, new, size
<1>6. told' \in [Targets -> {-1, 0} \cup Sizes]
  <2>1. \A x \in Targets : told'[x] \in {-1, 0} \cup Sizes BY <1>1, <1>3, <1>4, <1>5
  <2> QED BY <1>1, <2>1
<1>7. ASSUME NEW x \in EndTargets, told'[x] # -1 PROVE new(x) \cap 0..10 = Bits(told'[x])
  <2>1. x \in Targets /\ x[2] # 0 /\ x[1] # "EP0"
    <3>1. x = <<x[1], x[2]>> /\ (x[1] = "EP0" <=> x[2] = 0) BY TargetFacts DEF EndTargets
    <3> QED BY <3>1 DEF EndTargets
  <2>2. told'[x] = IF x \notin own THEN told[x]
                   ELSE IF c.f = "bulk_ep_reset" THEN BULK_FIFOSIZE
                   ELSE IF c.f = "ConfigEp_Default" THEN 0
                   ELSE IF c.f # "ConfigEp" THEN told[x]
                   ELSE IF group = "host" /\ told[x] # 0 THEN -1 ELSE c.a
    BY <1>1, <2>1
  <2> DEFINE old == MaxpAt(usb, x)
             mine == Brings(c, sel, x, MaxpName(x[1]))
  <2>3. /\ x \notin Acts(c) \/ c.f \notin Configurers \cup {"ConfigEp_Default"} => new(x) = old
        /\ c.f \in Configurers /\ mine # {} /\ (group = "dev" \/ old \cap 0..10 \subseteq size) =>
             new(x) \cap 0..10 = size \cap 0..10
        /\ c.f = "ConfigEp_Default" /\ mine # {} => new(x) = {}
    <3>1. path[0] = usb /\ Run(c, path, k, e, sel) BY DEF Called
    <3>2. Len(c.prog) \in Nat /\ Acts(c) \subseteq Targets BY CalledFacts
    <3> QED BY <1>2, <3>1, <3>2, RunMaxp DEF new, size
  <2>4. told[x] # -1 => old \cap 0..10 = Bits(told[x]) BY DEF EndpointInv, SizesKept
  <2>5. x \in own /\ c.f \in Configurers \cup {"ConfigEp_Default"} => mine # {}
    <3>1. x \in own => Effects(group, c, sel, x) BY <1>2, <2>1
    <3> QED BY <2>1, <3>1 DEF Effects
  <2> HIDE DEF old, mine
  <2>6. CASE x \notin own
    <3>1. c.f \in Configurers \cup {"ConfigEp_Default"} => x \notin Acts(c) BY <1>3, <2>6, Names
    <3> QED BY <1>7, <2>2, <2>3, <2>4, <2>6, <3>1
  <2>7. CASE x \in own /\ c.f \notin Configurers \cup {"ConfigEp_Default"}
    <3>1. c.f # "bulk_ep_reset" /\ c.f # "ConfigEp_Default" /\ c.f # "ConfigEp" BY <2>7, Names
    <3> QED BY <1>7, <2>2, <2>3, <2>4, <2>7, <3>1
  <2>8. CASE x \in own /\ c.f = "ConfigEp_Default"
    <3>1. told'[x] = 0
      <4>1. c.f # "bulk_ep_reset" BY <2>8
      <4> QED BY <2>2, <2>8, <4>1
    <3>2. new(x) = {} BY <2>3, <2>5, <2>8
    <3> QED BY <3>1, <3>2, NumberBits
  <2>9. Bits(64) \cap 0..10 = Bits(64) /\ Bits(512) \cap 0..10 = Bits(512) BY NumberBits
  <2>10. CASE x \in own /\ c.f = "bulk_ep_reset"
    <3>1. told'[x] = 512 /\ group = "dev" BY <1>3, <1>5, <2>2, <2>10
    <3>2. Packet(c) = 512 BY <1>5, <2>10 DEF Packet
    <3>3. size = Bits(512) BY <1>5, <3>2 DEF size
    <3>4. new(x) \cap 0..10 = size \cap 0..10 BY <2>3, <2>5, <2>10, <3>1, Names
    <3> QED BY <2>9, <3>1, <3>3, <3>4
  <2>11. CASE x \in own /\ c.f = "ConfigEp"
    <3>0. c.f # "bulk_ep_reset" /\ c.f # "ConfigEp_Default" BY <2>11
    <3>1. told'[x] = c.a /\ (group = "host" => told[x] = 0) BY <1>7, <2>2, <2>11, <3>0
    <3>2. c.a = 64 \/ c.a = 512 BY <1>3, <1>5, <2>11
    <3>3. size = Bits(c.a) BY <1>5, <3>0, <3>2 DEF size, Packet
    <3>4. group = "dev" \/ old \cap 0..10 \subseteq size
      <4>1. group = "dev" \/ group = "host" BY <1>2 DEF Sided
      <4> QED BY <2>4, <3>1, <4>1, NumberBits
    <3>5. new(x) \cap 0..10 = size \cap 0..10 BY <2>3, <2>5, <2>11, <3>4, Names
    <3> QED BY <2>9, <3>1, <3>2, <3>3, <3>5
  <2> QED BY <2>6, <2>7, <2>8, <2>10, <2>11, Names
<1> QED BY <1>6, <1>7 DEF new

(* An access that writes the CSR of an endpoint has it selected.           *)
LEMMA Strikes ==
  ASSUME Sided, NEW c, NEW k \in 1..Len(c.prog), NEW e, NEW path, NEW sel, Run(c, path, k, e, sel),
         path[k - 1] = Before(c.prog, k), e.kind = "packet", Written(e.x, c.prog[k], sel[k])
  PROVE  Collides(c.prog, k, e)
<1> DEFINE o == c.prog[k]
           R == path[k - 1]
<1>1. Turn(c, R, o, At(k, k, e), sel[k - 1], sel[k]) BY DEF Run
<1> HIDE DEF o, R
<1>2. /\ sel[k - 1] \in Eps /\ R.c["EPIND"] = Bits(sel[k - 1])
      /\ \/ o = Update("EPIND", All, Bits(sel[k]))
         \/ sel[k] = sel[k - 1] /\ \E y \in Acts(c) : o \in Allowed(group, y[1], c.f, Packet(c))
  BY <1>1 DEF Turn
<1>3. o.reg = CsrOf(e.x) /\ sel[k] = e.x[2] /\ o.reg \in {"TXCSR", "RXCSR"} BY CsrFacts DEF Written, o
<1>4. o # Update("EPIND", All, Bits(sel[k])) BY <1>3, AccessForms
<1>5. sel[k] = sel[k - 1] /\ o.ep = Here
  <2>1. o.reg \notin Addressed BY <1>3 DEF Addressed
  <2> QED BY <1>2, <1>4, <2>1 DEF Allowed
<1>6. Selected(R, o) = e.x[2]
  <2>1. sel[k - 1] \in 0..15 BY <1>2, TargetFacts
  <2> QED BY <1>2, <1>3, <1>5, <2>1, BitsValue DEF Selected
<1> QED BY <1>3, <1>6 DEF Collides, o, R

(* Packets stay announced.                                                 *)
LEMMA CalledPackets ==
  ASSUME EndpointInv, NEW c, NEW k, NEW e, NEW path, NEW sel, Called(c, k, e, path, sel)
  PROVE  received' \subseteq Readers /\ \A x \in received' : ReadyBit \in CsrAt(path[Len(c.prog)], x)
<1> DEFINE own == Own(c)
           come == IF e.kind = "packet" /\ (k = 0 \/ ~Collides(c.prog, k, e)) THEN {e.x} ELSE {}
<1>1. received' = (received \cup come) \ (IF c.f \in Droppers \cup {"bulk_ep_reset"} THEN own ELSE {})
  BY NotedFacts DEF Called
<1>2. /\ Sided /\ Shape(group, c) /\ Run(c, path, k, e, sel) /\ e \in AnyEvent /\ path[0] = usb
      /\ k \in 0..Len(c.prog) /\ (k = 0 => e = NoEvent) /\ (k # 0 => path[k - 1] = Before(c.prog, k))
  BY DEF Called
<1>3. Len(c.prog) \in Nat /\ Acts(c) \subseteq Targets /\ (c.f \in Touchers => Acts(c) = own) BY CalledFacts
<1>4. ASSUME NEW x \in come
      PROVE  e.kind = "packet" /\ e.x = x /\ x \in Readers /\ k \in 1..Len(c.prog) /\ ~Written(x, c.prog[k], sel[k])
  <2>1. e.kind = "packet" /\ e.x = x /\ (k = 0 \/ ~Collides(c.prog, k, e)) BY <1>4
  <2>2. x \in Readers BY <1>2, <2>1, EventFacts DEF Readers
  <2>3. k # 0
    <3>1. NoEvent.kind # "packet" BY DEF NoEvent
    <3> QED BY <1>2, <2>1, <3>1
  <2>4. k \in 1..Len(c.prog) BY <1>2, <1>3, <2>3
  <2>5. ~Written(x, c.prog[k], sel[k]) BY <1>2, <2>1, <2>3, <2>4, Strikes
  <2> QED BY <2>1, <2>2, <2>4, <2>5
<1>5. received \subseteq Readers BY DEF EndpointInv, EndpointsTyped
<1> HIDE DEF own, come
<1>6. received' \subseteq Readers BY <1>1, <1>4, <1>5
<1>7. ASSUME NEW x \in received' PROVE ReadyBit \in CsrAt(path[Len(c.prog)], x)
  <2>1. x \in Readers /\ x \in Targets BY <1>6 DEF Readers
  <2>2. x \notin Acts(c) \/ c.f \notin Droppers \cup {"bulk_ep_reset"} BY <1>1, <1>3, <1>7, Names
  <2>3. \/ ReadyBit \in CsrAt(path[0], x)
        \/ k \in 1..Len(c.prog) /\ e.kind = "packet" /\ e.x = x /\ ~Written(x, c.prog[k], sel[k])
    <3>1. CASE x \in received
      <4>1. ReadyBit \in CsrAt(usb, x) BY <1>2, <3>1 DEF EndpointInv, CsrsKept
      <4> QED BY <1>2, <4>1
    <3>2. CASE x \in come BY <1>4, <3>2
    <3> QED BY <1>1, <3>1, <3>2
  <2>4. CsrAt(path[0], x) \cap Fields(x).command = {} BY <1>2, <2>1 DEF EndpointInv, CsrsKept
  <2> QED BY <1>2, <1>3, <2>1, <2>2, <2>3, <2>4, RunReady
<1> QED BY <1>6, <1>7

(* A stall or a request is in force exactly where it was asked for.        *)
LEMMA CalledCommands ==
  ASSUME EndpointInv, NEW c, NEW k, NEW e, NEW path, NEW sel, Called(c, k, e, path, sel),
         NEW x \in Targets, Command(x) # NoBit, Host => raised = 0 /\ e = NoEvent
  PROVE  Command(x) \in CsrAt(path[Len(c.prog)], x) <=> x \in asked'
<1> DEFINE own == Own(c)
           come == IF e.kind = "packet" /\ (k = 0 \/ ~Collides(c.prog, k, e)) THEN {e.x} ELSE {}
           new == CsrAt(path[Len(c.prog)], x)
           mine == Brings(c, sel, x, CsrName(x[1]))
<1>1. /\ Sided /\ Run(c, path, k, e, sel) /\ path[0] = usb
      /\ \A y \in own \cap Targets : Effects(group, c, sel, y)
  BY DEF Called
<1>2. Len(c.prog) \in Nat /\ Acts(c) \subseteq Targets /\ (c.f \in Touchers => Acts(c) = own) BY CalledFacts
<1>7. c.f \in Starters => c.f \notin Stoppers BY Names
<1>3. /\ c.f \in Starters => asked' = asked \cup own
      /\ c.f \in Stoppers => asked' = asked \ own
      /\ c.f \notin Starters \cup Stoppers => asked' = asked
  <2>1. asked' = (CASE c.f \in Starters -> asked \cup own
                    [] c.f \in Stoppers -> asked \ own
                    [] OTHER -> asked)
                 \ (IF group = "host" THEN come ELSE {})
    BY NotedFacts DEF Called
  <2>2. (IF group = "host" THEN come ELSE {}) = {}
    <3>1. NoEvent.kind # "packet" BY DEF NoEvent
    <3> QED BY <3>1 DEF Host
  <2> HIDE DEF come, own
  <2>3. asked' = CASE c.f \in Starters -> asked \cup own
                   [] c.f \in Stoppers -> asked \ own
                   [] OTHER -> asked
    BY <2>1, <2>2
  <2> QED BY <1>7, <2>3, Zenon
<1>4. Command(x) \in CsrAt(usb, x) <=> x \in asked BY <1>1 DEF EndpointInv, CsrsKept
<1>5. /\ x \notin Acts(c) \/ c.f \notin Stoppers =>
           (Command(x) \in CsrAt(usb, x) \/ (\E j \in mine : Command(x) \in c.prog[j].set) => Command(x) \in new)
      /\ x \notin Acts(c) \/ c.f \notin Starters =>
           (Command(x) \notin CsrAt(usb, x) \/ (\E j \in mine : Command(x) \in c.prog[j].clr \ c.prog[j].set)
              => Command(x) \notin new)
  <2>1. CsrAt(path[0], x) \cap Fields(x).command = {} BY <1>1 DEF EndpointInv, CsrsKept
  <2> QED BY <1>1, <1>2, <2>1, RunCommand
<1>6. ASSUME x \in own
      PROVE  /\ c.f \in Starters => \E j \in mine : Command(x) \in c.prog[j].set
             /\ c.f \in Stoppers => \E j \in mine : Command(x) \in c.prog[j].clr \ c.prog[j].set
  <2>1. Effects(group, c, sel, x) BY <1>1, <1>6
  <2> QED BY <2>1 DEF Effects, Command
<1> HIDE DEF own, new, mine
<1>8. c.f \in Starters \cup Stoppers => Acts(c) = own BY <1>2, Names
<1>9. ASSUME c.f \in Starters PROVE Command(x) \in new <=> x \in asked'
  <2>1. asked' = asked \cup own BY <1>3, <1>9
  <2>2. x \in own => Command(x) \in new
    <3> HAVE x \in own
    <3>1. \E j \in mine : Command(x) \in c.prog[j].set BY <1>6, <1>9
    <3>2. c.f \notin Stoppers BY <1>7, <1>9
    <3> QED BY <1>5, <3>1, <3>2
  <2>3. x \notin own => (Command(x) \in new <=> x \in asked)
    <3> HAVE x \notin own
    <3>1. x \notin Acts(c) BY <1>8, <1>9
    <3> QED BY <1>4, <1>5, <3>1
  <2> QED BY <2>1, <2>2, <2>3
<1>10. ASSUME c.f \in Stoppers PROVE Command(x) \in new <=> x \in asked'
  <2>1. asked' = asked \ own /\ c.f \notin Starters BY <1>3, <1>7, <1>10
  <2>2. x \in own => Command(x) \notin new
    <3> HAVE x \in own
    <3>1. \E j \in mine : Command(x) \in c.prog[j].clr \ c.prog[j].set BY <1>6, <1>10
    <3> QED BY <1>5, <2>1, <3>1
  <2>3. x \notin own => (Command(x) \in new <=> x \in asked)
    <3> HAVE x \notin own
    <3>1. x \notin Acts(c) BY <1>8, <1>10
    <3> QED BY <1>4, <1>5, <3>1
  <2> QED BY <2>1, <2>2, <2>3
<1>11. ASSUME c.f \notin Starters \cup Stoppers PROVE Command(x) \in new <=> x \in asked'
  <2>1. asked' = asked BY <1>3, <1>11
  <2> QED BY <1>4, <1>5, <1>11, <2>1
<1> QED BY <1>9, <1>10, <1>11 DEF new

(* The bus is selected exactly while an endpoint uses it.                  *)
LEMMA CalledBus ==
  ASSUME EndpointInv, group = "dev", NEW c, NEW k, NEW e, NEW path, NEW sel, Called(c, k, e, path, sel)
  PROVE  ~shared' => (0 \in path[Len(c.prog)].c["VEND0"] <=> users' # {})
<1> DEFINE own == Own(c)
           old == usb.c["VEND0"]
           new == path[Len(c.prog)].c["VEND0"]
           done == \E j \in 1..Len(c.prog) : c.prog[j].reg = "VEND0"
<1>0. SUFFICES ASSUME ~shared' PROVE 0 \in new <=> users' # {} OBVIOUS
<1>1. /\ users' = CASE c.f = "ConfigEpDma" -> users \cup (own \ {<<"EP0", 0>>})
                    [] c.f = "ClearEpDma" -> users \ own
                    [] OTHER -> users
      /\ shared' = (\/ shared \/ Cardinality(users') > 1
                    \/ c.f = "ClearEpDma" /\ users \ own # {})
  BY NotedFacts DEF Called
<1>2. ~shared /\ (c.f = "ClearEpDma" => users \ own = {}) BY <1>0, <1>1
<1>3. 0 \in old <=> users # {} BY <1>2 DEF EndpointInv, BusKept
<1>4. /\ Sided /\ Run(c, path, k, e, sel) /\ path[0] = usb
      /\ \A y \in own \cap Targets : Effects(group, c, sel, y)
  BY DEF Called
<1>5. /\ Len(c.prog) \in Nat /\ Acts(c) \subseteq Targets
      /\ c.f \in Touchers => Acts(c) = own /\ own \subseteq Targets
  BY CalledFacts
<1>6. /\ c.f \notin {"ConfigEpDma", "ClearEpDma"} \/ Acts(c) \subseteq {<<"EP0", 0>>} => new = old
      /\ c.f = "ConfigEpDma" /\ done => 0 \in new
      /\ c.f = "ClearEpDma" /\ done => 0 \notin new
  BY <1>4, <1>5, RunBus
<1>7. users \subseteq EndTargets BY DEF EndpointInv, EndpointsTyped
<1>8. CASE c.f \in {"ConfigEpDma", "ClearEpDma"}
  <2>1. c.f # "bulk_ep_reset" BY <1>8
  <2>2. own = {c.x} /\ Acts(c) = own /\ c.x \in Targets BY <1>5, <1>8, <2>1, Names DEF Own
  <2>3. c.x # <<"EP0", 0>> => done
    <3> HAVE c.x # <<"EP0", 0>>
    <3>1. c.x[1] # "EP0"
      <4>1. c.x = <<c.x[1], c.x[2]>> /\ (c.x[1] = "EP0" <=> c.x[2] = 0) BY <2>2, TargetFacts
      <4> QED BY <4>1
    <3>2. Effects(group, c, sel, c.x) BY <1>4, <2>2
    <3>3. Brings(c, sel, c.x, "VEND0") # {} BY <1>8, <3>1, <3>2 DEF Effects
    <3> QED BY <3>3 DEF Brings
  <2> HIDE DEF own, old, new, done
  <2>4. CASE c.f = "ConfigEpDma"
    <3>0. c.f # "ClearEpDma" BY <2>4
    <3>1. users' = users \cup (own \ {<<"EP0", 0>>}) BY <1>1, <2>4
    <3>2. CASE c.x = <<"EP0", 0>>
      <4>1. new = old BY <1>6, <2>2, <3>2
      <4>2. users' = users BY <2>2, <3>1, <3>2
      <4> QED BY <1>3, <4>1, <4>2
    <3>3. CASE c.x # <<"EP0", 0>>
      <4>1. 0 \in new BY <1>6, <2>3, <2>4, <3>3
      <4>2. c.x \in users' BY <2>2, <3>1, <3>3
      <4> QED BY <4>1, <4>2
    <3> QED BY <3>2, <3>3
  <2>5. CASE c.f = "ClearEpDma"
    <3>0. c.f # "ConfigEpDma" BY <2>5
    <3>1. users' = {} BY <1>1, <1>2, <2>5, <3>0
    <3>2. CASE c.x = <<"EP0", 0>>
      <4>1. new = old BY <1>6, <2>2, <3>2
      <4>2. users = {} BY <1>2, <1>7, <2>2, <2>5, <3>2 DEF EndTargets
      <4> QED BY <1>3, <3>1, <4>1, <4>2
    <3>3. CASE c.x # <<"EP0", 0>>
      <4>1. 0 \notin new BY <1>6, <2>3, <2>5, <3>3
      <4> QED BY <3>1, <4>1
    <3> QED BY <3>2, <3>3
  <2> QED BY <1>8, <2>4, <2>5
<1>9. CASE c.f \notin {"ConfigEpDma", "ClearEpDma"}
  <2>1. users' = users BY <1>1, <1>9
  <2>2. new = old BY <1>6, <1>9
  <2> QED BY <1>3, <2>1, <2>2
<1> QED BY <1>8, <1>9

(* Who uses DMA.                                                           *)
LEMMA CalledUsers ==
  ASSUME EndpointInv, NEW c, NEW k, NEW e, NEW path, NEW sel, Called(c, k, e, path, sel)
  PROVE  users' \subseteq EndTargets
<1>1. users' = CASE c.f = "ConfigEpDma" -> users \cup (Own(c) \ {<<"EP0", 0>>})
                 [] c.f = "ClearEpDma" -> users \ Own(c)
                 [] OTHER -> users
  BY NotedFacts DEF Called
<1>2. c.f = "ConfigEpDma" => Own(c) \subseteq Targets BY CalledFacts, Names
<1>3. users \subseteq EndTargets BY DEF EndpointInv, EndpointsTyped
<1> QED BY <1>1, <1>2, <1>3 DEF EndTargets

(* The FIFOs are untouched, or as usb_bulk_ep_reset places them.           *)
LEMMA CalledFifos ==
  ASSUME EndpointInv, group = "dev", NEW c, NEW k, NEW e, NEW path, NEW sel, Sided, Shape(group, c),
         Run(c, path, k, e, sel), path[0] = usb, c.f = "bulk_ep_reset" => sel = BulkSel
  PROVE  path[Len(c.prog)].e["RXFIFOAD"][2] = {} \/ FifoSet(path[Len(c.prog)])
<1> DEFINE end == path[Len(c.prog)]
<1>2. Len(c.prog) \in Nat BY DEF Shape
<1>3. /\ c.f # "bulk_ep_reset" => \A q \in FifoNames : \A y \in Eps : end.e[q][y] = usb.e[q][y]
      /\ IsBulkReset(c.prog) /\ sel = BulkSel => FifoSet(end)
  BY <1>2, RunFifo
<1>4. c.f = "bulk_ep_reset" => IsBulkReset(c.prog) BY DEF Shape
<1>5. usb.e["RXFIFOAD"][2] = {} \/ FifoSet(usb) BY DEF EndpointInv, FifosKept
<1>6. FifoNames = {"TXFIFOAD", "TXFIFOSZ", "RXFIFOAD", "RXFIFOSZ"} /\ 1 \in Eps /\ 2 \in Eps
  BY TargetFacts DEF FifoNames
<1> HIDE DEF end
<1>7. CASE c.f = "bulk_ep_reset" BY <1>3, <1>4, <1>7 DEF end
<1>8. CASE c.f # "bulk_ep_reset"
  <2>1. end.e["RXFIFOAD"][2] = usb.e["RXFIFOAD"][2] BY <1>3, <1>6, <1>8
  <2>2. FifoSet(usb) => FifoSet(end) BY <1>3, <1>6, <1>8 DEF FifoSet
  <2> QED BY <1>5, <2>1, <2>2 DEF end
<1> QED BY <1>7, <1>8

(* A call of the device or the host side, disturbed by e or not.           *)
LEMMA CallKeepsEndpoints ==
  ASSUME EndpointInv, Sided, NEW c \in Menu[group], NEW e \in AnyEvent, NEW path, NEW k \in 0..Len(c.prog),
         k = 0 => e = NoEvent, k # 0 => path[k - 1] = Before(c.prog, k), path[0] = usb,
         Passes(path, c.prog, k, e), usb' = path[Len(c.prog)], Noted(c, k, e), group' = group,
         raised' \in Nat, raised' = 0 => raised = 0 /\ e = NoEvent
  PROVE  EndpointInv'
<1>1. group \in Groups /\ usb \in Registers BY DEF EndpointInv, EndpointsTyped
<1>2. usb.c["EPIND"] = Bits(0) /\ \A x \in Targets : CsrAt(usb, x) \cap Fields(x).command = {}
  BY DEF EndpointInv, CsrsKept
<1>3. Shape(group, c)
  <2>1. group \in Groups \cap {"dev", "host"} BY <1>1 DEF Sided
  <2> QED BY <2>1, Shapes
<1>4. c.prog \in Seq(Accesses) /\ Len(c.prog) \in Nat /\ Acts(c) \subseteq Targets BY <1>3 DEF Shape
<1>5. PICK sel : Follows(group, c, sel) /\ \A y \in Own(c) \cap Targets : Effects(group, c, sel, y)
  BY <1>3 DEF Shape
<1>6. Run(c, path, k, e, sel) /\ path[Len(c.prog)] \in Registers /\ path[Len(c.prog)].c["EPIND"] = Bits(0)
  BY <1>1, <1>2, <1>4, <1>5, Runs
<1>7. Called(c, k, e, path, sel) BY <1>3, <1>5, <1>6 DEF Called
<1>8. Host' = Host /\ Sided' = Sided /\ \A x : Fields(x)' = Fields(x) /\ Command(x)' = Command(x)
  BY DEF Host, Sided, Fields, Command
<1>9. told' \in [Targets -> {-1, 0} \cup Sizes] /\ SizesKept'
  <2>1. /\ told' \in [Targets -> {-1, 0} \cup Sizes]
        /\ \A x \in EndTargets : told'[x] # -1 => MaxpAt(path[Len(c.prog)], x) \cap 0..10 = Bits(told'[x])
    BY <1>7, CalledSizes
  <2> QED BY <2>1 DEF SizesKept
<1>10. received' \subseteq Readers /\ \A x \in received' : ReadyBit \in CsrAt(path[Len(c.prog)], x)
  BY <1>7, CalledPackets
<1>11. users' \subseteq EndTargets BY <1>7, CalledUsers
<1>12. EndpointsTyped' BY <1>1, <1>6, <1>9, <1>10, <1>11 DEF EndpointsTyped
<1>13. CsrsKept'
  <2>1. ASSUME NEW x \in Targets PROVE CsrAt(usb', x) \cap Fields(x)'.command = {}
    <3>1. CsrAt(path[0], x) \cap Fields(x).command = {} BY <1>2
    <3>2. \A i \in 0..Len(c.prog) : CsrAt(path[i], x) \cap Fields(x).command = {}
      BY <1>4, <1>6, <3>1, RunClean
    <3>3. Len(c.prog) \in 0..Len(c.prog) BY <1>4
    <3>4. CsrAt(path[Len(c.prog)], x) \cap Fields(x).command = {} BY <3>2, <3>3
    <3> QED BY <1>8, <3>4
  <2>2. ASSUME NEW x \in Targets, Command(x)' # NoBit, Host' => raised' = 0
        PROVE  Command(x)' \in CsrAt(usb', x) <=> x \in asked'
    <3>1. Command(x) # NoBit /\ (Host => raised = 0 /\ e = NoEvent) BY <1>8, <2>2
    <3>2. Command(x) \in CsrAt(path[Len(c.prog)], x) <=> x \in asked' BY <1>7, <3>1, CalledCommands
    <3> QED BY <1>8, <3>2
  <2>3. usb'.c["EPIND"] = Bits(0) BY <1>6
  <2>4. \A x \in received' : ReadyBit \in CsrAt(usb', x) BY <1>10
  <2> QED BY <2>1, <2>2, <2>3, <2>4 DEF CsrsKept, CsrAt
<1>14. BusKept'
  <2>1. group = "dev" => (~shared' => (0 \in path[Len(c.prog)].c["VEND0"] <=> users' # {}))
    BY <1>7, CalledBus
  <2> QED BY <2>1 DEF BusKept
<1>15. FifosKept'
  <2>1. ASSUME group = "dev" PROVE path[Len(c.prog)].e["RXFIFOAD"][2] = {} \/ FifoSet(path[Len(c.prog)])
    <3>1. CASE c.f # "bulk_ep_reset" BY <1>3, <1>6, <2>1, <3>1, CalledFifos
    <3>2. CASE c.f = "bulk_ep_reset"
      <4>1. Follows(group, c, BulkSel) BY <1>3, <3>2 DEF Shape
      <4> DEFINE s == BulkSel
      <4>2. Run(c, path, k, e, s)
        <5>1. Follows(group, c, s) BY <4>1
        <5> HIDE DEF s
        <5> QED BY <1>1, <1>2, <1>4, <5>1, Runs
      <4> QED BY <1>3, <2>1, <4>2, CalledFifos
    <3> QED BY <3>1, <3>2
  <2>2. usb' = path[Len(c.prog)] /\ group' = group OBVIOUS
  <2> QED BY <2>1, <2>2 DEF FifosKept, FifoSet
<1>16. SharedQuiet' BY <1>8 DEF SharedQuiet
<1> QED BY <1>9, <1>12, <1>13, <1>14, <1>15, <1>16 DEF EndpointInv

(* An event between two calls of the device or the host side.              *)
LEMMA EventKeepsEndpoints ==
  ASSUME EndpointInv, Sided, NEW e \in Events(group), Event(e)
  PROVE  EndpointInv'
<1> DEFINE none == [f |-> "none", x |-> NoTarget, a |-> 0, prog |-> <<>>]
<1>1. Noted(none, 0, e) /\ group' = group /\ usb' = Raise(usb, e) /\ raised' = raised + 1 BY DEF Event
<1>2. none.f = "none" /\ Own(none) = {NoTarget} BY DEF Own
<1>3. NoTarget \notin Targets BY TargetFacts DEF NoTarget
<1>4. /\ "none" \notin Droppers \cup {"bulk_ep_reset"} /\ "none" \notin Starters \cup Stoppers
  BY DEF Droppers, Starters, Stoppers, Enders
<1> HIDE DEF none
<1>5. e \in AnyEvent BY DEF AnyEvent
<1>6. e.kind \in {"packet", "sent"} /\ (e.kind = "packet" => e.x \in Readers)
  BY DEF Events, Sided
<1>7. /\ group \in Groups /\ usb \in Registers /\ raised \in Nat /\ told \in [Targets -> {-1, 0} \cup Sizes]
      /\ received \subseteq Readers /\ users \subseteq EndTargets
  BY DEF EndpointInv, EndpointsTyped
<1>8. /\ told' = [x \in Targets |-> told[x]]
      /\ received' = received \cup (IF e.kind = "packet" THEN {e.x} ELSE {})
      /\ users' = users
      /\ shared' = (shared \/ Cardinality(users') > 1)
      /\ asked' = asked \ (IF group = "host" /\ e.kind = "packet" THEN {e.x} ELSE {})
  <2>1. /\ told' = [x \in Targets |->
                           IF x \notin {NoTarget} \/ x[2] = 0 THEN told[x]
                           ELSE IF none.f = "bulk_ep_reset" THEN BULK_FIFOSIZE
                           ELSE IF none.f = "ConfigEp_Default" THEN 0
                           ELSE IF none.f # "ConfigEp" THEN told[x]
                           ELSE IF group = "host" /\ told[x] # 0 THEN -1 ELSE none.a]
        /\ received' = (received \cup (IF e.kind = "packet" THEN {e.x} ELSE {}))
                       \ (IF none.f \in Droppers \cup {"bulk_ep_reset"} THEN {NoTarget} ELSE {})
        /\ asked' = (CASE none.f \in Starters -> asked \cup {NoTarget}
                       [] none.f \in Stoppers -> asked \ {NoTarget}
                       [] OTHER -> asked)
                    \ (IF group = "host" /\ e.kind = "packet" THEN {e.x} ELSE {})
        /\ users' = CASE none.f = "ConfigEpDma" -> users \cup ({NoTarget} \ {<<"EP0", 0>>})
                      [] none.f = "ClearEpDma" -> users \ {NoTarget}
                      [] OTHER -> users
        /\ shared' = (\/ shared \/ Cardinality(users') > 1
                      \/ none.f = "ClearEpDma" /\ users \ {NoTarget} # {})
    <3> DEFINE come == IF e.kind = "packet" /\ (0 = 0 \/ ~Collides(none.prog, 0, e)) THEN {e.x} ELSE {}
    <3>1. come = IF e.kind = "packet" THEN {e.x} ELSE {} OBVIOUS
    <3>2. /\ told' = [x \in Targets |->
                           IF x \notin {NoTarget} \/ x[2] = 0 THEN told[x]
                           ELSE IF none.f = "bulk_ep_reset" THEN BULK_FIFOSIZE
                           ELSE IF none.f = "ConfigEp_Default" THEN 0
                           ELSE IF none.f # "ConfigEp" THEN told[x]
                           ELSE IF group = "host" /\ told[x] # 0 THEN -1 ELSE none.a]
          /\ received' = (received \cup come) \ (IF none.f \in Droppers \cup {"bulk_ep_reset"} THEN {NoTarget} ELSE {})
          /\ asked' = (CASE none.f \in Starters -> asked \cup {NoTarget}
                         [] none.f \in Stoppers -> asked \ {NoTarget}
                         [] OTHER -> asked)
                      \ (IF group = "host" THEN come ELSE {})
          /\ users' = CASE none.f = "ConfigEpDma" -> users \cup ({NoTarget} \ {<<"EP0", 0>>})
                        [] none.f = "ClearEpDma" -> users \ {NoTarget}
                        [] OTHER -> users
          /\ shared' = (\/ shared \/ Cardinality(users') > 1
                        \/ none.f = "ClearEpDma" /\ users \ {NoTarget} # {})
      BY <1>1, <1>2, NotedFacts
    <3>3. (IF group = "host" THEN come ELSE {}) = IF group = "host" /\ e.kind = "packet" THEN {e.x} ELSE {}
      BY <3>1
    <3> HIDE DEF come
    <3> QED BY <3>1, <3>2, <3>3
  <2>2. /\ none.f # "bulk_ep_reset" /\ none.f # "ConfigEp_Default" /\ none.f # "ConfigEp"
        /\ none.f # "ConfigEpDma" /\ none.f # "ClearEpDma"
    BY <1>2
  <2>3. told' = [x \in Targets |-> told[x]] BY <2>1, <2>2
  <2>4. received' = received \cup (IF e.kind = "packet" THEN {e.x} ELSE {}) BY <1>2, <1>4, <2>1
  <2>5. users' = users BY <2>1, <2>2
  <2>6. shared' = (shared \/ Cardinality(users') > 1) BY <2>1, <2>2
  <2>7. asked' = asked \ (IF group = "host" /\ e.kind = "packet" THEN {e.x} ELSE {}) BY <1>2, <1>4, <2>1
  <2> QED BY <2>3, <2>4, <2>5, <2>6, <2>7
<1>9. told' = told BY <1>7, <1>8
<1>10. /\ Raise(usb, e) \in Registers
       /\ \A r \in Common : Raise(usb, e).c[r] = usb.c[r]
       /\ \A r \in Banked \ {"TXCSR", "RXCSR"} : \A y \in Eps : Raise(usb, e).e[r][y] = usb.e[r][y]
  <2> DEFINE M == Raise(usb, e)
  <2>1. /\ M \in Registers
        /\ \A r \in Common : M.c[r] = IF e.kind \in {"change", "pending"} /\ e.x[1] = r
                                      THEN usb.c[r] \cup {e.x[2]} ELSE usb.c[r]
        /\ \A r \in Banked \cup Addressed : \A y \in Eps :
              M.e[r][y] = IF e.kind \in {"packet", "sent"} /\ CsrOf(e.x) = r /\ e.x[2] = y
                          THEN Shaken(usb.e[r][y], e) ELSE usb.e[r][y]
    BY <1>5, <1>7, RaiseFacts
  <2> HIDE DEF M
  <2>2. \A r \in Common : M.c[r] = usb.c[r] BY <1>6, <2>1
  <2>3. \A r \in Banked \ {"TXCSR", "RXCSR"} : \A y \in Eps : M.e[r][y] = usb.e[r][y] BY <2>1, CsrFacts
  <2> QED BY <2>1, <2>2, <2>3 DEF M
<1>11. Host' = Host /\ Sided' = Sided /\ \A x : Fields(x)' = Fields(x) /\ Command(x)' = Command(x)
  BY <1>1 DEF Host, Sided, Fields, Command
<1>12. EndpointsTyped'
  <2>1. received' \subseteq Readers BY <1>6, <1>7, <1>8
  <2> QED BY <1>1, <1>7, <1>8, <1>9, <1>10, <2>1 DEF EndpointsTyped
<1>13. SizesKept'
  <2>1. ASSUME NEW x \in EndTargets PROVE MaxpAt(usb', x) = MaxpAt(usb, x)
    <3>1. x[2] \in Eps BY TargetFacts DEF EndTargets
    <3>2. MaxpName(x[1]) \in Banked \ {"TXCSR", "RXCSR"} BY DEF MaxpName, Banked
    <3> QED BY <1>1, <1>10, <3>1, <3>2 DEF MaxpAt
  <2> QED BY <1>9, <2>1 DEF EndpointInv, SizesKept
<1>14. CsrsKept'
  <2>1. ASSUME NEW x \in Targets
        PROVE  /\ CsrAt(usb', x) \cap Fields(x).command = {}
               /\ Command(x) # NoBit /\ ~Host => (Command(x) \in CsrAt(usb', x) <=> Command(x) \in CsrAt(usb, x))
               /\ x \in received' => ReadyBit \in CsrAt(usb', x)
    <3>1. CsrAt(usb, x) \cap Fields(x).command = {} /\ (x \in received => ReadyBit \in CsrAt(usb, x))
      BY DEF EndpointInv, CsrsKept
    <3>2. /\ CsrAt(usb, x) \cap Fields(x).command = {} => CsrAt(Raise(usb, e), x) \cap Fields(x).command = {}
          /\ Command(x) # NoBit /\ (Host => e = NoEvent) =>
              (Command(x) \in CsrAt(Raise(usb, e), x) <=> Command(x) \in CsrAt(usb, x))
          /\ x \in Readers /\ ReadyBit \in CsrAt(usb, x) => ReadyBit \in CsrAt(Raise(usb, e), x)
          /\ e.kind = "packet" /\ e.x = x => ReadyBit \in CsrAt(Raise(usb, e), x)
      BY <1>5, <1>7, RaiseCsr
    <3>3. x \in received' => (x \in received /\ x \in Readers) \/ (e.kind = "packet" /\ e.x = x) BY <1>7, <1>8
    <3> QED BY <1>1, <3>1, <3>2, <3>3
  <2>2. usb'.c["EPIND"] = Bits(0)
    <3>1. "EPIND" \in Common BY DEF Common
    <3>2. usb.c["EPIND"] = Bits(0) BY DEF EndpointInv, CsrsKept
    <3> QED BY <1>1, <1>10, <3>1, <3>2
  <2>3. ASSUME NEW x \in Targets, Command(x)' # NoBit, Host' => raised' = 0
        PROVE  Command(x)' \in CsrAt(usb', x) <=> x \in asked'
    <3>1. ~Host
      <4>1. raised' # 0 BY <1>1, <1>7
      <4> QED BY <1>11, <2>3, <4>1
    <3>2. asked' = asked BY <1>8, <3>1 DEF Host
    <3>3. Command(x) # NoBit BY <1>11, <2>3
    <3>4. Command(x) \in CsrAt(usb, x) <=> x \in asked BY <3>1, <3>3 DEF EndpointInv, CsrsKept
    <3> QED BY <1>11, <2>1, <3>1, <3>2, <3>3, <3>4
  <2>4. \A x \in received' : ReadyBit \in CsrAt(usb', x)
    <3>1. \A y \in received' : y \in Targets BY <1>12 DEF EndpointsTyped, Readers
    <3> QED BY <2>1, <3>1
  <2>5. \A x \in Targets : CsrAt(usb', x) \cap Fields(x)'.command = {} BY <1>11, <2>1
  <2> QED BY <2>2, <2>3, <2>4, <2>5 DEF CsrsKept, CsrAt
<1>15. BusKept'
  <2>1. "VEND0" \in Common BY DEF Common
  <2>2. usb'.c["VEND0"] = usb.c["VEND0"] BY <1>1, <1>10, <2>1
  <2>3. ~shared' => ~shared BY <1>8
  <2> QED BY <1>1, <1>8, <2>2, <2>3 DEF EndpointInv, BusKept
<1>16. FifosKept'
  <2>1. \A q \in FifoNames : \A y \in Eps : usb'.e[q][y] = usb.e[q][y]
    <3>1. FifoNames \subseteq Banked \ {"TXCSR", "RXCSR"} BY DEF FifoNames, Banked
    <3> QED BY <1>1, <1>10, <3>1
  <2>2. FifoNames = {"TXFIFOAD", "TXFIFOSZ", "RXFIFOAD", "RXFIFOSZ"} /\ 1 \in Eps /\ 2 \in Eps
    BY TargetFacts DEF FifoNames
  <2>3. group' = group BY <1>1
  <2> QED BY <2>1, <2>2, <2>3 DEF EndpointInv, FifosKept, FifoSet
<1>17. SharedQuiet' BY <1>11 DEF SharedQuiet
<1> QED BY <1>12, <1>13, <1>14, <1>15, <1>16, <1>17 DEF EndpointInv

-----------------------------------------------------------------------------
(* The bits that the controller sets to be seen: the changes and the       *)
(* pending interrupts; the ones that event e sets and call c may clear.    *)
Marks == ({"ISCR"} \X Changes) \cup ({"INTTx", "INTRx"} \X Eps)
Marked == ({"ISCR"} \X unseen) \cup pend
Sets(e) == IF e.kind \in {"change", "pending"} THEN {e.x} ELSE {}
Clears(x, f, a) ==
  CASE f = "IsChange" -> {<<"ISCR", a>>}
    [] f = "ClearEpPending" -> {<<PendReg(x[1]), x[2]>>}
    [] f = "ClearEpPendingAll" -> {PendReg(x[1])} \X Eps
    [] OTHER -> {}

(* The accesses of a call of the shared functions.                         *)
Shares(x, f, a) == {o \in Accesses : o.reg = "EPIND"} \cup OtgAllowed(x, f, a)

(* An access keeps a bit that its call is not meant to clear, even one that*)
(* the controller sets between its read and its write.                     *)
LEMMA MarkKept ==
  ASSUME NEW R \in Registers, NEW e \in AnyEvent, NEW x, NEW f, NEW a, NEW o \in Shares(x, f, a),
         NEW q \in Marks, q \notin Clears(x, f, a), q[2] \in R.c[q[1]] \/ q \in Sets(e)
  PROVE  Under(R, o, e) \in Registers /\ q[2] \in Under(R, o, e).c[q[1]]
<1> DEFINE r == q[1]
           b == q[2]
           M == Raise(R, e)
           v == (R.c[r] \ o.clr) \cup o.set
<1>1. o \in Accesses /\ (o.reg = "EPIND" \/ OtgFits(x, f, a, o.reg, o.clr, o.set)) BY DEF Shares, OtgAllowed
<1>2. r \in {"ISCR", "INTTx", "INTRx"} /\ q = <<r, b>> /\ (r = "ISCR" => b \in Changes) /\ (r # "ISCR" => b \in Eps)
  BY DEF Marks
<1>3. r \in Common BY <1>2 DEF Common
<1>4. b \in M.c[r]
  <2>1. M.c[r] = IF e.kind \in {"change", "pending"} /\ e.x[1] = r THEN R.c[r] \cup {e.x[2]} ELSE R.c[r]
    BY <1>3, RaiseFacts
  <2> QED BY <2>1 DEF Sets
<1>5. /\ Under(R, o, e) \in Registers
      /\ Under(R, o, e).c[r] = IF o.reg = r THEN Land(Host, r, Selected(R, o), M.c[r], v) ELSE M.c[r]
  BY <1>1, <1>3, UnderFacts
<1>6. ASSUME o.reg = r PROVE b \notin v
  <2>1. r \notin OtgOthers /\ r # "EPIND" BY <1>2 DEF OtgOthers
  <2>2. CASE r = "ISCR"
    <3>1. Changes \subseteq o.clr /\ o.set \cap Changes \subseteq IF f = "IsChange" THEN {a} ELSE {}
      BY <1>1, <1>6, <2>1, <2>2 DEF OtgFits, PendReg
    <3>2. b # a \/ f # "IsChange" BY <1>2, <2>2 DEF Clears
    <3> QED BY <1>2, <2>2, <3>1, <3>2
  <2>3. CASE r # "ISCR"
    <3>1. /\ r = PendReg(x[1]) /\ o.clr = All
          /\ \/ f = "ClearEpPending" /\ o.set = {x[2]}
             \/ f = "ClearEpPendingAll"
      BY <1>1, <1>6, <2>1, <2>3 DEF OtgFits
    <3>2. f = "ClearEpPending" /\ b # x[2]
      <4>1. f # "ClearEpPendingAll" BY <1>2, <2>3, <3>1 DEF Clears
      <4>2. f = "ClearEpPending" => b # x[2] BY <1>2, <3>1 DEF Clears
      <4> QED BY <3>1, <4>1, <4>2
    <3>3. R.c[r] \subseteq All BY <1>3 DEF Registers
    <3> QED BY <3>1, <3>2, <3>3
  <2> QED BY <2>2, <2>3
<1>7. CASE o.reg = r
  <2> HIDE DEF v, M
  <2>1. CASE r = "ISCR" BY <1>2, <1>4, <1>5, <1>6, <1>7, <2>1 DEF Land, Cleared1
  <2>2. CASE r # "ISCR" BY <1>2, <1>4, <1>5, <1>6, <1>7, <2>2 DEF Land, Cleared1
  <2> QED BY <2>1, <2>2
<1>8. CASE o.reg # r BY <1>4, <1>5, <1>8
<1> QED BY <1>7, <1>8

(* The accesses of the calls.                                              *)
LEMMA SharedCalls ==
  ASSUME group \in Groups, group \notin {"dev", "host"}, NEW c \in Menu[group]
  PROVE  c.prog \in Seq(Shares(c.x, c.f, c.a))
<1> DEFINE S == Shares(c.x, c.f, c.a)
<1>1. PICK x \in Targets \cup {NoTarget} : \E d \in CallsFor(group, x) :
        c = [x |-> x, f |-> d.f, a |-> d.a, prog |-> Bracket(x, d.prog)]
  BY DEF Menu
<1>2. PICK d \in CallsFor(group, x) : c = [x |-> x, f |-> d.f, a |-> d.a, prog |-> Bracket(x, d.prog)]
  BY <1>1
<1>3. c.x = x /\ c.f = d.f /\ c.a = d.a /\ c.prog = Bracket(x, d.prog) BY <1>2
<1>4. OtgAllowed(x, d.f, d.a) \subseteq S BY <1>3 DEF Shares
<1>5. d.prog \in Seq(S)
  <2>1. d.prog \in Seq(OtgAllowed(x, d.f, d.a))
    <3>1. CASE x = NoTarget
      <4>1. d \in OtgGeneral BY <3>1 DEF CallsFor
      <4> QED BY <3>1, <4>1, OtgGeneralPrograms
    <3>2. CASE x # NoTarget
      <4>1. x \in Targets /\ d \in OtgCalls(x[1], x[2]) BY <3>2 DEF CallsFor
      <4> QED BY <4>1, OtgTargetPrograms
    <3> QED BY <3>1, <3>2
  <2> HIDE DEF S
  <2> QED BY <1>4, <2>1
<1>6. \A n : USBC_SelectActiveEp(n) \in Seq(S)
  <2> TAKE n
  <2>1. "EPIND" \in Layout /\ All \in SUBSET All BY DEF Layout, Common
  <2>2. Write("EPIND", Bits(n)) \in S BY <2>1, BitsType DEF Shares, Accesses, Write, Update, Here
  <2> HIDE DEF S
  <2> QED BY <2>2, SeqFacts DEF USBC_SelectActiveEp
<1> HIDE DEF S
<1>7. Bracket(x, d.prog) \in Seq(S)
  <2>1. d.prog \o USBC_SelectActiveEp(0) \in Seq(S) BY <1>5, <1>6, SeqFacts
  <2>2. USBC_SelectActiveEp(x[2]) \o d.prog \o USBC_SelectActiveEp(0) \in Seq(S) BY <1>5, <1>6, SeqFacts
  <2> QED BY <2>1, <2>2 DEF Bracket
<1> QED BY <1>3, <1>7 DEF S

(* What the controller set and nobody cleared is in the registers.         *)
SharedInv ==
  /\ group \in Groups
  /\ group \in {"dev", "host"} => unseen = {} /\ pend = {}
  /\ group \notin {"dev", "host"} =>
       /\ usb \in Registers
       /\ unseen \subseteq Changes /\ pend \subseteq {"INTTx", "INTRx"} \X Eps
       /\ \A q \in Marked : q[2] \in usb.c[q[1]]

(* What the history says of those bits.                                    *)
LEMMA MarksNoted ==
  ASSUME NEW c, NEW k, NEW e \in AnyEvent, Noted(c, k, e),
         pend \subseteq {"INTTx", "INTRx"} \X Eps, unseen \subseteq Changes
  PROVE  /\ Marked' \subseteq (Marked \cup Sets(e)) \ Clears(c.x, c.f, c.a)
         /\ unseen' \subseteq Changes /\ pend' \subseteq {"INTTx", "INTRx"} \X Eps
<1>1. /\ unseen' = (unseen \cup (IF e.kind = "change" THEN {e.x[2]} ELSE {}))
                   \ (IF c.f = "IsChange" THEN {c.a} ELSE {})
      /\ pend' = (pend \cup (IF e.kind = "pending" THEN {e.x} ELSE {}))
                 \ (CASE c.f = "ClearEpPending" -> {<<PendReg(c.x[1]), c.x[2]>>}
                      [] c.f = "ClearEpPendingAll" -> {PendReg(c.x[1])} \X Eps
                      [] OTHER -> {})
  BY DEF Noted, PendReg
<1>2. /\ e.kind = "change" => e.x = <<"ISCR", e.x[2]>> /\ e.x[2] \in Changes
      /\ e.kind = "pending" => e.x \in {"INTTx", "INTRx"} \X Eps
  BY DEF AnyEvent, Events, NoEvent, Readers, DataEps
<1>3. \A t : PendReg(t) # "ISCR" BY DEF PendReg
<1>4. \A q \in {"ISCR"} \X unseen' : q \in (Marked \cup Sets(e)) \ Clears(c.x, c.f, c.a)
  <2> TAKE q \in {"ISCR"} \X unseen'
  <2>1. q = <<"ISCR", q[2]>> /\ q[2] \in unseen' OBVIOUS
  <2>2. q \in Marked \cup Sets(e) BY <1>1, <1>2, <2>1 DEF Marked, Sets
  <2>3. q \notin Clears(c.x, c.f, c.a) BY <1>1, <1>3, <2>1 DEF Clears
  <2> QED BY <2>2, <2>3
<1>5. \A q \in pend' : q \in (Marked \cup Sets(e)) \ Clears(c.x, c.f, c.a)
  <2> TAKE q \in pend'
  <2>1. q \in Marked \cup Sets(e) BY <1>1 DEF Marked, Sets
  <2>2. q[1] # "ISCR" /\ q = <<q[1], q[2]>> BY <1>1, <1>2
  <2>3. q \notin Clears(c.x, c.f, c.a) BY <1>1, <2>2 DEF Clears
  <2> QED BY <2>1, <2>3
<1>6. unseen' \subseteq Changes /\ pend' \subseteq {"INTTx", "INTRx"} \X Eps BY <1>1, <1>2
<1> QED BY <1>4, <1>5, <1>6 DEF Marked

(* Without an event of theirs, nothing is added.                           *)
LEMMA NothingNoted ==
  ASSUME NEW c, NEW k, NEW e, Noted(c, k, e), e.kind \notin {"change", "pending"}
  PROVE  unseen' \subseteq unseen /\ pend' \subseteq pend
BY DEF Noted

(* A call, disturbed by e or not: path is the registers between its        *)
(* accesses.                                                               *)
LEMMA CallKeepsMarks ==
  ASSUME SharedInv, group \notin {"dev", "host"}, NEW c \in Menu[group], NEW e \in AnyEvent,
         NEW path, NEW k \in 0..Len(c.prog), k = 0 => e = NoEvent, path[0] = usb,
         Passes(path, c.prog, k, e), usb' = path[Len(c.prog)], Noted(c, k, e), group' = group
  PROVE  SharedInv'
<1> DEFINE N == Len(c.prog)
           A == Shares(c.x, c.f, c.a)
           Keep(q) == {R \in Registers : q[2] \in R.c[q[1]]}
           ev(i) == IF i = k THEN e ELSE NoEvent
<1>1. c.prog \in Seq(A) /\ N \in Nat BY SharedCalls DEF SharedInv
<1>2. A \subseteq Accesses BY DEF Shares, OtgAllowed
<1>3. \A i \in 1..N : c.prog[i] \in A /\ ev(i) \in AnyEvent /\ path[i] = Under(path[i - 1], c.prog[i], ev(i))
  BY <1>1 DEF Passes, AnyEvent
<1> HIDE DEF A, N
<1>4. \A i \in 0..N : path[i] \in Registers
  <2>1. \A i \in 1..N : path[i - 1] \in Registers => path[i] \in Registers
    <3> TAKE i \in 1..N
    <3> HAVE path[i - 1] \in Registers
    <3>1. c.prog[i] \in Accesses /\ ev(i) \in AnyEvent BY <1>2, <1>3
    <3>2. Under(path[i - 1], c.prog[i], ev(i)) \in Registers BY <3>1, UnderFacts
    <3> QED BY <1>3, <3>2
  <2>2. 0 \in 0..N /\ path[0] \in Registers BY <1>1 DEF SharedInv, N
  <2>3. \A i \in (0 + 1)..N : path[i - 1] \in Registers => path[i] \in Registers BY <2>1
  <2> QED BY <1>1, <2>2, <2>3, PathKeeps DEF N
<1>5. \A q \in Marks : q \notin Clears(c.x, c.f, c.a) =>
        \A i \in 1..N : path[i - 1] \in Keep(q) \/ q \in Sets(ev(i)) => path[i] \in Keep(q)
  <2> TAKE q \in Marks
  <2> HAVE q \notin Clears(c.x, c.f, c.a)
  <2> TAKE i \in 1..N
  <2> HAVE path[i - 1] \in Keep(q) \/ q \in Sets(ev(i))
  <2>1. i - 1 \in 0..N BY <1>1 DEF N
  <2>2. path[i - 1] \in Registers BY <1>4, <2>1
  <2>3. c.prog[i] \in A /\ ev(i) \in AnyEvent /\ path[i] = Under(path[i - 1], c.prog[i], ev(i)) BY <1>3
  <2>4. q[2] \in path[i - 1].c[q[1]] \/ q \in Sets(ev(i)) OBVIOUS
  <2> HIDE DEF ev
  <2>5. Under(path[i - 1], c.prog[i], ev(i)) \in Registers /\ q[2] \in Under(path[i - 1], c.prog[i], ev(i)).c[q[1]]
    BY <2>2, <2>3, <2>4, MarkKept DEF A
  <2> QED BY <2>3, <2>5
<1>6. ASSUME NEW q \in (Marked \cup Sets(e)) \ Clears(c.x, c.f, c.a) PROVE q[2] \in path[N].c[q[1]]
  <2>0. q \in Marks
    <3>1. \A z \in Sets(e) : z \in Marks
      BY DEF Sets, Marks, AnyEvent, Events, NoEvent, Readers, DataEps
    <3>2. \A z \in Marked : z \in Marks BY DEF Marked, Marks, SharedInv
    <3> QED BY <3>1, <3>2
  <2>1. PICK m \in 0..N : path[m] \in Keep(q)
    <3>1. CASE q \in Marked
      <4>1. 0 \in 0..N /\ path[0] \in Keep(q) BY <1>1, <3>1 DEF N, SharedInv
      <4> QED BY <4>1
    <3>2. CASE q \in Sets(e)
      <4>1. k # 0 BY <3>2 DEF Sets, NoEvent
      <4>2. k \in 1..N /\ k \in 0..N /\ q \in Sets(ev(k)) BY <1>1, <3>2, <4>1 DEF N
      <4>3. path[k] \in Keep(q) BY <1>5, <2>0, <4>2
      <4> QED BY <4>2, <4>3
    <3> QED BY <3>1, <3>2
  <2>2. \A i \in (m + 1)..N : path[i - 1] \in Keep(q) => path[i] \in Keep(q)
    <3>1. \A i \in (m + 1)..N : i \in 1..N BY <1>1 DEF N
    <3> QED BY <1>5, <2>0, <3>1
  <2>3. N \in Nat /\ N \in m..N BY <1>1 DEF N
  <2> HIDE DEF Keep
  <2>4. path[N] \in Keep(q) BY <2>1, <2>2, <2>3, PathKeeps
  <2> QED BY <2>4 DEF Keep
<1>7. /\ Marked' \subseteq (Marked \cup Sets(e)) \ Clears(c.x, c.f, c.a)
      /\ unseen' \subseteq Changes /\ pend' \subseteq {"INTTx", "INTRx"} \X Eps
  BY MarksNoted DEF SharedInv
<1>8. usb' \in Registers /\ usb' = path[N]
  <2>1. N \in 0..N BY <1>1 DEF N
  <2> QED BY <1>4, <2>1 DEF N
<1>9. \A q \in Marked' : q[2] \in usb'.c[q[1]] BY <1>6, <1>7, <1>8
<1> QED BY <1>7, <1>8, <1>9 DEF SharedInv

(* The first state.                                                        *)
LEMMA SharedInit == UsbInit => SharedInv
<1> SUFFICES ASSUME UsbInit PROVE SharedInv OBVIOUS
<1>1. Blank \in Registers BY DEF Blank, Registers
<1>2. Marked = {} BY DEF UsbInit, Marked
<1> QED BY <1>1, <1>2 DEF UsbInit, SharedInv

(* Every step: calls, raced calls and events.                              *)
LEMMA SharedStep == SharedInv /\ [UsbNext]_usbVars => SharedInv'
<1> SUFFICES ASSUME SharedInv, [UsbNext]_usbVars PROVE SharedInv' OBVIOUS
<1> DEFINE Quiet == group \in {"dev", "host"}
<1>1. \A e \in Events(group) : e \in AnyEvent /\ (Quiet => e.kind \notin {"change", "pending"})
  BY DEF Events, AnyEvent
<1>2. NoEvent \in AnyEvent /\ NoEvent.kind \notin {"change", "pending"} BY DEF AnyEvent, NoEvent
<1>3. ASSUME NEW c, NEW k, NEW e, Noted(c, k, e), e.kind \notin {"change", "pending"}, group' = group, Quiet
      PROVE  SharedInv'
  <2>1. unseen' = {} /\ pend' = {} BY <1>3, NothingNoted DEF SharedInv
  <2> QED BY <1>3, <2>1 DEF SharedInv
<1>4. ASSUME NEW c \in Menu[group], Call(c) PROVE SharedInv'
  <2>1. Noted(c, 0, NoEvent) /\ group' = group /\ usb' = Perform(Host, usb, c.prog) BY <1>4 DEF Call, Host
  <2>2. CASE Quiet BY <1>2, <1>3, <2>1, <2>2
  <2>3. CASE ~Quiet
    <3>1. c.prog \in Seq(Shares(c.x, c.f, c.a)) BY <2>3, SharedCalls DEF SharedInv
    <3>2. c.prog \in Seq(Accesses) /\ Len(c.prog) \in Nat
      <4>1. Shares(c.x, c.f, c.a) \subseteq Accesses BY DEF Shares, OtgAllowed
      <4> QED BY <3>1, <4>1
    <3>3. PICK path : /\ path[0] = usb /\ path[Len(c.prog)] = Perform(Host, usb, c.prog)
                      /\ Passes(path, c.prog, 0, NoEvent)
      BY <3>2, CallPath
    <3>4. 0 \in 0..Len(c.prog) BY <3>2
    <3> QED BY <1>2, <2>1, <2>3, <3>3, <3>4, CallKeepsMarks
  <2> QED BY <2>2, <2>3
<1>5. ASSUME NEW c \in Menu[group], NEW k \in 1..Len(c.prog), NEW e \in Events(group), CallRaced(c, k, e)
      PROVE  SharedInv'
  <2>1. Noted(c, k, e) /\ group' = group /\ usb' = Disturbed(c.prog, k, e) BY <1>5 DEF CallRaced
  <2>2. CASE Quiet BY <1>1, <1>3, <2>1, <2>2
  <2>3. CASE ~Quiet
    <3>1. c.prog \in Seq(Shares(c.x, c.f, c.a)) BY <2>3, SharedCalls DEF SharedInv
    <3>2. c.prog \in Seq(Accesses) /\ Len(c.prog) \in Nat
      <4>1. Shares(c.x, c.f, c.a) \subseteq Accesses BY DEF Shares, OtgAllowed
      <4> QED BY <3>1, <4>1
    <3>3. PICK path : /\ path[0] = usb /\ path[Len(c.prog)] = Disturbed(c.prog, k, e)
                      /\ Passes(path, c.prog, k, e)
      BY <3>2, DisturbedPath
    <3>4. k \in 0..Len(c.prog) /\ k # 0 BY <3>2
    <3> QED BY <1>1, <2>1, <2>3, <3>3, <3>4, CallKeepsMarks
  <2> QED BY <2>2, <2>3
<1>6. ASSUME NEW e \in Events(group), Event(e) PROVE SharedInv'
  <2> DEFINE none == [f |-> "none", x |-> NoTarget, a |-> 0, prog |-> <<>>]
  <2>1. Noted(none, 0, e) /\ group' = group /\ usb' = Raise(usb, e) BY <1>6 DEF Event
  <2>2. CASE Quiet BY <1>1, <1>3, <2>1, <2>2
  <2>3. CASE ~Quiet
    <3> HIDE DEF none
    <3>1. /\ Marked' \subseteq Marked \cup Sets(e)
          /\ unseen' \subseteq Changes /\ pend' \subseteq {"INTTx", "INTRx"} \X Eps
      BY <1>1, <2>1, <2>3, MarksNoted DEF SharedInv
    <3>2. usb' \in Registers BY <1>1, <2>1, <2>3, RaiseFacts DEF SharedInv
    <3>3. ASSUME NEW q \in Marked \cup Sets(e) PROVE q[2] \in usb'.c[q[1]]
      <4>1. q[1] \in Common
        <5>1. \A z \in Marked : z[1] \in Common BY <2>3 DEF Marked, SharedInv, Common
        <5>2. \A z \in Sets(e) : z[1] \in Common
          <6>1. e.kind \in {"change", "pending"} => e.x[1] \in {"ISCR", "INTTx", "INTRx"}
            BY <1>1, <2>3, EventFacts
          <6>2. {"ISCR", "INTTx", "INTRx"} \subseteq Common BY DEF Common
          <6> QED BY <6>1, <6>2 DEF Sets
        <5> QED BY <5>1, <5>2
      <4>2. usb'.c[q[1]] = IF e.kind \in {"change", "pending"} /\ e.x[1] = q[1]
                           THEN usb.c[q[1]] \cup {e.x[2]} ELSE usb.c[q[1]]
        BY <1>1, <2>1, <2>3, <4>1, RaiseFacts DEF SharedInv
      <4>3. q \in Marked => q[2] \in usb.c[q[1]] BY <2>3 DEF SharedInv
      <4> QED BY <4>2, <4>3 DEF Sets
    <3>4. \A q \in Marked' : q[2] \in usb'.c[q[1]] BY <3>1, <3>3
    <3>5. group' = group BY <2>1
    <3> QED BY <2>3, <3>1, <3>2, <3>4, <3>5 DEF SharedInv
  <2> QED BY <2>2, <2>3
<1>7. CASE UNCHANGED usbVars BY <1>7 DEF usbVars, SharedInv, Marked
<1>8. CASE UsbNext
  BY <1>4, <1>5, <1>6, <1>8 DEF UsbNext
<1> QED BY <1>7, <1>8

(* What the invariant says of the properties.                              *)
LEMMA SharedSafe == SharedInv => ChangeKept /\ PendingKept
<1> SUFFICES ASSUME SharedInv PROVE ChangeKept /\ PendingKept OBVIOUS
<1>1. CASE group \in {"dev", "host"} BY <1>1 DEF SharedInv, ChangeKept, PendingKept
<1>2. CASE group \notin {"dev", "host"}
  <2>1. \A q \in Marked : q[2] \in usb.c[q[1]] BY <1>2 DEF SharedInv
  <2>2. \A b \in unseen : b \in usb.c["ISCR"]
    <3> TAKE b \in unseen
    <3>1. <<"ISCR", b>> \in Marked BY DEF Marked
    <3> QED BY <2>1, <3>1
  <2>3. PendingKept BY <2>1 DEF Marked, PendingKept
  <2> QED BY <2>2, <2>3 DEF ChangeKept
<1> QED BY <1>1, <1>2

(* USBC_WakeUp_ClearChangeDetect writes 0 to the change bits: no call,     *)
(* raced or not, loses a change that no query has reported.                *)
THEOREM ChangesKept == UsbSpec => []ChangeKept
<1>1. SharedInv => ChangeKept BY SharedSafe
<1> QED BY SharedInit, SharedStep, <1>1, PTL DEF UsbSpec

-----------------------------------------------------------------------------
(* The shared functions leave the endpoints alone.                         *)

(* The shared functions, by what they are for.                             *)
SharedFunctions ==
  {"ClearEpPending", "ClearEpPendingAll", "EnableEp", "DisableEp", "DisableEpAll", "ConfigFifo",
   "SelectBus", "ClearMisc", "Misc", "Test", "Line", "IsChange"}

(* The menu of the shared functions has these alone.                       *)
LEMMA SharedNames ==
  ASSUME ~Sided, NEW c \in Menu[group], group \in Groups
  PROVE  c.f \in SharedFunctions
<1>1. PICK x \in Targets \cup {NoTarget} : \E d \in CallsFor(group, x) :
        c = [x |-> x, f |-> d.f, a |-> d.a, prog |-> Bracket(x, d.prog)]
  BY DEF Menu
<1>2. PICK d \in CallsFor(group, x) : c = [x |-> x, f |-> d.f, a |-> d.a, prog |-> Bracket(x, d.prog)]
  BY <1>1
<1>3. d \in OtgGeneral \/ d \in OtgCalls(x[1], x[2]) BY DEF CallsFor, Sided
<1>4. d \in OtgGeneral => \E f \in SharedFunctions : \E a, prog : d = CallOf(f, a, prog)
  <2> HAVE d \in OtgGeneral
  <2> DEFINE lines == {CallOf("Line", 0, p) :
          p \in {USBC_EnableIdPullUp, USBC_DisableIdPullUp, USBC_EnableDpDmPullUp, USBC_DisableDpDmPullUp,
                 USBC_EnableHosc, USBC_DisableHosc, USBC_EnableWakeIrq, USBC_DisableWakeIrq,
                 USBC_EnableVbusChange, USBC_DisableVbusChange, USBC_EnableIdChange, USBC_DisableIdChange,
                 USBC_EnableDpDmChange, USBC_DisableDpDmChange}}
             ids == {CallOf("Line", 0, USBC_ForceId(m)) : m \in {"HOST", "DEVICE", "NONE"}}
             volts == {CallOf("Line", 0, USBC_ForceVbusValid(m)) : m \in {"LOW", "HIGH", "NONE"}}
             names == {"ClearMisc", "Misc", "Test", "IsChange"}
  <2>1. d \in lines \/ d \in ids \/ d \in volts \/ \E f \in names : \E a, prog : d = CallOf(f, a, prog)
    BY Zenon DEF OtgGeneral
  <2>2. d \in lines \/ d \in ids \/ d \in volts => \E prog : d = CallOf("Line", 0, prog) OBVIOUS
  <2>3. names \subseteq SharedFunctions /\ "Line" \in SharedFunctions BY DEF SharedFunctions
  <2> HIDE DEF lines, ids, volts, names
  <2> QED BY <2>1, <2>2, <2>3
<1>5. d \in OtgCalls(x[1], x[2]) => \E f \in SharedFunctions : \E a, prog : d = CallOf(f, a, prog)
  <2> HAVE d \in OtgCalls(x[1], x[2])
  <2> DEFINE names == {"ClearEpPending", "ClearEpPendingAll", "EnableEp", "DisableEp", "DisableEpAll",
                       "ConfigFifo", "SelectBus"}
             t == x[1]
             ep == x[2]
             fifo == USBC_ConfigFifo(t, FALSE, 512, 1024)
  <2>1. \/ d = CallOf("ClearEpPending", 0, USBC_INT_ClearEpPending(t, ep))
        \/ d = CallOf("ClearEpPendingAll", 0, USBC_INT_ClearEpPendingAll(t))
        \/ d = CallOf("EnableEp", 0, USBC_INT_EnableEp(t, ep)) \/ d = CallOf("DisableEp", 0, USBC_INT_DisableEp(t, ep))
        \/ d = CallOf("DisableEpAll", 0, USBC_INT_DisableEpAll(t))
        \/ d = CallOf("ConfigFifo", 0, fifo) \/ d = CallOf("ConfigFifo", 0, USBC_ConfigFifo_Default(t))
        \/ d = CallOf("SelectBus", 0, USBC_SelectBus("DMA", t, ep)) \/ d = CallOf("SelectBus", 0, USBC_SelectBus("PIO", t, ep))
    BY Zenon DEF OtgCalls
  <2> HIDE DEF fifo
  <2>3. \E f \in names : \E a, prog : d = CallOf(f, a, prog) BY <2>1
  <2>2. names \subseteq SharedFunctions BY DEF SharedFunctions
  <2> HIDE DEF names
  <2> QED BY <2>2, <2>3
<1>6. d.f \in SharedFunctions BY <1>3, <1>4, <1>5 DEF CallOf
<1> QED BY <1>2, <1>6

(* An access of theirs leaves the maximal packets of the endpoints alone.  *)
LEMMA SharedLeaves ==
  ASSUME NEW R \in Registers, NEW e \in AnyEvent, NEW x, NEW f, NEW a, NEW o \in Shares(x, f, a),
         NEW r \in {"TXMAXP", "RXMAXP"}, NEW y \in Eps
  PROVE  Under(R, o, e) \in Registers /\ Under(R, o, e).e[r][y] = R.e[r][y]
<1>1. o \in Accesses /\ (o.reg = "EPIND" \/ OtgFits(x, f, a, o.reg, o.clr, o.set)) BY DEF Shares, OtgAllowed
<1>2. o.reg # r BY <1>1 DEF OtgFits, OtgOthers, PendReg
<1>3. r \in Banked \cup Addressed /\ \A z : CsrOf(z) # r BY CsrFacts DEF Banked
<1> DEFINE U == Under(R, o, e)
           M == Raise(R, e)
<1>4. U \in Registers /\ U.e[r][y] = M.e[r][y] BY <1>1, <1>2, <1>3, UnderFacts
<1>5. M.e[r][y] = R.e[r][y]
  <2>1. M.e[r][y] = IF e.kind \in {"packet", "sent"} /\ CsrOf(e.x) = r /\ e.x[2] = y
                    THEN Shaken(R.e[r][y], e) ELSE R.e[r][y]
    BY <1>3, RaiseFacts
  <2> HIDE DEF M
  <2> QED BY <1>3, <2>1
<1> QED BY <1>4, <1>5

(* What a call of a shared function, or an event without one, notes.       *)
LEMMA SharedNoted ==
  ASSUME EndpointInv, ~Sided, NEW c, NEW k, NEW e \in AnyEvent, Noted(c, k, e),
         c.f \in SharedFunctions \cup {"none"}
  PROVE  told' = told /\ received' = {} /\ users' = users
<1> DEFINE own == Own(c)
           come == IF e.kind = "packet" /\ (k = 0 \/ ~Collides(c.prog, k, e)) THEN {e.x} ELSE {}
<1>1. e.kind # "packet" BY DEF AnyEvent, Events, NoEvent, Sided
<1>2. /\ told' = [x \in Targets |->
                           IF x \notin own \/ x[2] = 0 THEN told[x]
                           ELSE IF c.f = "bulk_ep_reset" THEN BULK_FIFOSIZE
                           ELSE IF c.f = "ConfigEp_Default" THEN 0
                           ELSE IF c.f # "ConfigEp" THEN told[x]
                           ELSE IF group = "host" /\ told[x] # 0 THEN -1 ELSE c.a]
      /\ received' = (received \cup come) \ (IF c.f \in Droppers \cup {"bulk_ep_reset"} THEN own ELSE {})
      /\ users' = CASE c.f = "ConfigEpDma" -> users \cup (own \ {<<"EP0", 0>>})
                    [] c.f = "ClearEpDma" -> users \ own
                    [] OTHER -> users
  BY NotedFacts
<1>3. /\ c.f # "bulk_ep_reset" /\ c.f # "ConfigEp_Default" /\ c.f # "ConfigEp"
      /\ c.f # "ConfigEpDma" /\ c.f # "ClearEpDma"
  BY DEF SharedFunctions
<1>4. come = {} BY <1>1
<1> HIDE DEF own, come
<1>5. told' = [x \in Targets |-> told[x]] BY <1>2, <1>3
<1>6. told \in [Targets -> {-1, 0} \cup Sizes] BY DEF EndpointInv, EndpointsTyped
<1>7. received = {} BY DEF EndpointInv, SharedQuiet
<1>8. received' = {} BY <1>2, <1>4, <1>7
<1>9. users' = users BY <1>2, <1>3
<1> QED BY <1>5, <1>6, <1>8, <1>9

(* A step of the shared functions' group that leaves the maximal packets.  *)
LEMMA SharedStands ==
  ASSUME EndpointInv, ~Sided, told' = told, received' = {}, users' = users, group' = group,
         raised' \in Nat, usb' \in Registers, \A x \in EndTargets : MaxpAt(usb', x) = MaxpAt(usb, x)
  PROVE  EndpointInv'
<1>1. Sided' = Sided BY DEF Sided
<1>2. EndpointsTyped' BY DEF EndpointInv, EndpointsTyped
<1>3. SizesKept' BY DEF EndpointInv, SizesKept
<1>4. CsrsKept' BY <1>1 DEF CsrsKept
<1>5. BusKept' /\ FifosKept' BY DEF Sided, BusKept, FifosKept
<1>6. SharedQuiet' BY DEF EndpointInv, SharedQuiet
<1> QED BY <1>2, <1>3, <1>4, <1>5, <1>6 DEF EndpointInv

(* A call of a shared function, disturbed by e or not.                     *)
LEMMA SharedCallKeepsEndpoints ==
  ASSUME EndpointInv, ~Sided, NEW c \in Menu[group], NEW e \in AnyEvent, NEW path, NEW k, path[0] = usb,
         Passes(path, c.prog, k, e), usb' = path[Len(c.prog)], Noted(c, k, e), group' = group, raised' \in Nat
  PROVE  EndpointInv'
<1> DEFINE N == Len(c.prog)
           A == Shares(c.x, c.f, c.a)
           T == {i \in 0..N : /\ path[i] \in Registers
                              /\ \A x \in EndTargets : MaxpAt(path[i], x) = MaxpAt(usb, x)}
<1>1. group \in Groups /\ usb \in Registers BY DEF EndpointInv, EndpointsTyped
<1>2. c.prog \in Seq(A) /\ N \in Nat BY <1>1, SharedCalls DEF Sided
<1> HIDE DEF A
<1>3. \A i \in 1..N : c.prog[i] \in A /\ At(i, k, e) \in AnyEvent /\ path[i] = Under(path[i - 1], c.prog[i], At(i, k, e))
  BY <1>2 DEF Passes, AnyEvent, At
<1> HIDE DEF N
<1>4. ASSUME NEW i \in 1..N, i - 1 \in T PROVE i \in T
  <2>1. path[i - 1] \in Registers /\ \A x \in EndTargets : MaxpAt(path[i - 1], x) = MaxpAt(usb, x) BY <1>4
  <2>2. c.prog[i] \in A /\ At(i, k, e) \in AnyEvent /\ path[i] = Under(path[i - 1], c.prog[i], At(i, k, e))
    BY <1>3
  <2> DEFINE f == At(i, k, e)
             R == path[i - 1]
             o == c.prog[i]
  <2>3. \A r \in {"TXMAXP", "RXMAXP"} : \A y \in Eps :
          Under(R, o, f) \in Registers /\ Under(R, o, f).e[r][y] = R.e[r][y]
    <3>1. R \in Registers /\ f \in AnyEvent /\ o \in Shares(c.x, c.f, c.a) BY <2>1, <2>2 DEF A
    <3> HIDE DEF R, f, o
    <3> QED BY <3>1, SharedLeaves
  <2>4. path[i] = Under(R, o, f) BY <2>2
  <2> HIDE DEF R, f, o
  <2>5. path[i] \in Registers
    <3>1. 0 \in Eps BY TargetFacts
    <3> QED BY <2>3, <2>4, <3>1
  <2>6. \A x \in EndTargets : MaxpAt(path[i], x) = MaxpAt(usb, x)
    <3> TAKE x \in EndTargets
    <3>1. MaxpName(x[1]) \in {"TXMAXP", "RXMAXP"} /\ x[2] \in Eps BY TargetFacts DEF MaxpName, EndTargets
    <3>2. MaxpAt(path[i], x) = MaxpAt(R, x) BY <2>3, <2>4, <3>1 DEF MaxpAt
    <3> QED BY <2>1, <3>2 DEF R
  <2>7. i \in 0..N BY <1>2 DEF N
  <2> QED BY <2>5, <2>6, <2>7
<1>5. 0 \in T /\ 0 \in 0..N /\ N \in Nat /\ N \in 0..N BY <1>1, <1>2 DEF N
<1>6. N \in T
  <2>1. \A i \in (0 + 1)..N : i - 1 \in T => i \in T BY <1>4
  <2> HIDE DEF T
  <2>2. \A i \in 0..N : i \in T BY <1>5, <2>1, Steps
  <2> QED BY <1>5, <2>2
<1>7. usb' \in Registers /\ \A x \in EndTargets : MaxpAt(usb', x) = MaxpAt(usb, x)
  <2>1. path[N] \in Registers /\ \A x \in EndTargets : MaxpAt(path[N], x) = MaxpAt(usb, x) BY <1>6
  <2>2. usb' = path[N] BY DEF N
  <2> QED BY <2>1, <2>2
<1>8. c.f \in SharedFunctions \cup {"none"} BY <1>1, SharedNames
<1>9. told' = told /\ received' = {} /\ users' = users BY <1>8, SharedNoted
<1> QED BY <1>7, <1>9, SharedStands

(* The first state: nothing configured, nothing asked for.                 *)
LEMMA EndpointInit == UsbInit => EndpointInv
<1> SUFFICES ASSUME UsbInit PROVE EndpointInv OBVIOUS
<1>1. /\ group \in Groups /\ usb = Blank /\ told = [x \in Targets |-> 0]
      /\ received = {} /\ asked = {} /\ users = {} /\ raised = 0
  BY DEF UsbInit
<1>2. usb \in Registers BY <1>1 DEF Blank, Registers
<1>3. /\ \A r \in Common : usb.c[r] = {}
      /\ \A r \in Banked \cup Addressed : \A y \in Eps : usb.e[r][y] = {}
  BY <1>1 DEF Blank
<1>4. Bits(0) = {} BY NumberBits
<1>5. EndpointsTyped BY <1>1, <1>2 DEF EndpointsTyped
<1>6. SizesKept
  <2> SUFFICES ASSUME NEW x \in EndTargets PROVE MaxpAt(usb, x) \cap 0..10 = Bits(told[x]) BY DEF SizesKept
  <2>1. x \in Targets /\ x[2] \in Eps BY TargetFacts DEF EndTargets
  <2>2. MaxpName(x[1]) \in Banked \cup Addressed BY DEF MaxpName, Banked
  <2>3. MaxpAt(usb, x) = {} BY <1>3, <2>1, <2>2 DEF MaxpAt
  <2> QED BY <1>1, <1>4, <2>1, <2>3
<1>7. CsrsKept
  <2>1. ASSUME NEW x \in Targets PROVE CsrAt(usb, x) = {}
    <3>1. CsrOf(x) \in Banked \cup Addressed /\ x[2] \in Eps BY TargetFacts, CsrFacts DEF Banked
    <3> QED BY <1>3, <3>1 DEF CsrAt
  <2>2. "EPIND" \in Common BY DEF Common
  <2> QED BY <1>1, <1>3, <1>4, <2>1, <2>2 DEF CsrsKept
<1>8. BusKept
  <2>1. "VEND0" \in Common BY DEF Common
  <2> QED BY <1>1, <1>3, <2>1 DEF BusKept
<1>9. FifosKept
  <2>1. "RXFIFOAD" \in Banked \cup Addressed /\ 2 \in Eps BY TargetFacts DEF Banked
  <2> QED BY <1>3, <2>1 DEF FifosKept
<1>10. SharedQuiet BY <1>1 DEF SharedQuiet
<1> QED BY <1>5, <1>6, <1>7, <1>8, <1>9, <1>10 DEF EndpointInv

(* Every step: calls, raced calls and events, of all three groups.         *)
LEMMA EndpointStep == EndpointInv /\ [UsbNext]_usbVars => EndpointInv'
<1> SUFFICES ASSUME EndpointInv, [UsbNext]_usbVars PROVE EndpointInv' OBVIOUS
<1>1. group \in Groups /\ usb \in Registers /\ raised \in Nat BY DEF EndpointInv, EndpointsTyped
<1>2. Events(group) \subseteq AnyEvent /\ NoEvent \in AnyEvent BY DEF AnyEvent
<1>3. ASSUME NEW c \in Menu[group] PROVE c.prog \in Seq(Accesses) /\ Len(c.prog) \in Nat
  <2>1. CASE Sided
    <3>1. group \in Groups \cap {"dev", "host"} BY <1>1, <2>1 DEF Sided
    <3>2. Shape(group, c) BY <3>1, Shapes
    <3> QED BY <3>2 DEF Shape
  <2>2. CASE ~Sided
    <3>1. c.prog \in Seq(Shares(c.x, c.f, c.a)) BY <1>1, <2>2, SharedCalls DEF Sided
    <3>2. Shares(c.x, c.f, c.a) \subseteq Accesses BY DEF Shares, OtgAllowed
    <3> QED BY <3>1, <3>2
  <2> QED BY <2>1, <2>2
<1>4. ASSUME NEW c \in Menu[group], Call(c) PROVE EndpointInv'
  <2>1. Noted(c, 0, NoEvent) /\ group' = group /\ raised' = raised /\ usb' = Perform(Host, usb, c.prog)
    BY <1>4 DEF Call, Host
  <2>2. c.prog \in Seq(Accesses) /\ Len(c.prog) \in Nat BY <1>3
  <2>3. PICK path : /\ path[0] = usb /\ path[Len(c.prog)] = Perform(Host, usb, c.prog)
                    /\ Passes(path, c.prog, 0, NoEvent)
    BY <2>2, CallPath
  <2>4. 0 \in 0..Len(c.prog) BY <2>2
  <2>5. CASE Sided BY <1>1, <1>2, <2>1, <2>3, <2>4, <2>5, CallKeepsEndpoints
  <2>6. CASE ~Sided BY <1>1, <1>2, <2>1, <2>3, <2>6, SharedCallKeepsEndpoints
  <2> QED BY <2>5, <2>6
<1>5. ASSUME NEW c \in Menu[group], NEW k \in 1..Len(c.prog), NEW e \in Events(group), CallRaced(c, k, e)
      PROVE  EndpointInv'
  <2>1. Noted(c, k, e) /\ group' = group /\ raised' = raised + 1 /\ usb' = Disturbed(c.prog, k, e)
    BY <1>5 DEF CallRaced
  <2>2. c.prog \in Seq(Accesses) /\ Len(c.prog) \in Nat BY <1>3
  <2>3. PICK path : /\ path[0] = usb /\ path[k - 1] = Before(c.prog, k)
                    /\ path[Len(c.prog)] = Disturbed(c.prog, k, e)
                    /\ Passes(path, c.prog, k, e)
    BY <2>2, DisturbedPath
  <2>4. k \in 0..Len(c.prog) /\ k # 0 /\ e \in AnyEvent BY <1>2, <2>2
  <2>5. raised' \in Nat /\ raised' # 0 BY <1>1, <2>1
  <2>6. CASE Sided BY <2>1, <2>3, <2>4, <2>5, <2>6, CallKeepsEndpoints
  <2>7. CASE ~Sided BY <2>1, <2>3, <2>4, <2>5, <2>7, SharedCallKeepsEndpoints
  <2> QED BY <2>6, <2>7
<1>6. ASSUME NEW e \in Events(group), Event(e) PROVE EndpointInv'
  <2>1. CASE Sided BY <1>6, <2>1, EventKeepsEndpoints
  <2>2. CASE ~Sided
    <3> DEFINE none == [f |-> "none", x |-> NoTarget, a |-> 0, prog |-> <<>>]
    <3>1. Noted(none, 0, e) /\ group' = group /\ raised' = raised + 1 /\ usb' = Raise(usb, e) /\ none.f = "none"
      BY <1>6 DEF Event
    <3> HIDE DEF none
    <3>2. e \in AnyEvent BY <1>2
    <3>3. told' = told /\ received' = {} /\ users' = users BY <2>2, <3>1, <3>2, SharedNoted
    <3>4. usb' \in Registers /\ raised' \in Nat BY <1>1, <3>1, <3>2, RaiseFacts
    <3>5. ASSUME NEW x \in EndTargets PROVE MaxpAt(usb', x) = MaxpAt(usb, x)
      <4> DEFINE r == MaxpName(x[1])
                 y == x[2]
                 M == Raise(usb, e)
      <4>1. r \in Banked \cup Addressed /\ r \notin {"TXCSR", "RXCSR"} /\ y \in Eps
        BY TargetFacts DEF MaxpName, EndTargets, Banked
      <4> HIDE DEF r, y
      <4>2. M.e[r][y] = IF e.kind \in {"packet", "sent"} /\ CsrOf(e.x) = r /\ e.x[2] = y
                        THEN Shaken(usb.e[r][y], e) ELSE usb.e[r][y]
        BY <1>1, <3>2, <4>1, RaiseFacts
      <4> HIDE DEF M
      <4>3. M.e[r][y] = usb.e[r][y] BY <4>1, <4>2, CsrFacts
      <4> QED BY <3>1, <4>3 DEF MaxpAt, M, r, y
    <3> QED BY <2>2, <3>1, <3>3, <3>4, <3>5, SharedStands
  <2> QED BY <2>1, <2>2
<1>7. CASE UNCHANGED usbVars
  <2>1. /\ group' = group /\ usb' = usb /\ told' = told /\ received' = received /\ asked' = asked
        /\ users' = users /\ shared' = shared /\ raised' = raised
    BY <1>7 DEF usbVars
  <2>2. Host' = Host /\ Sided' = Sided /\ \A x : Fields(x)' = Fields(x) /\ Command(x)' = Command(x)
    BY <2>1 DEF Host, Sided, Fields, Command
  <2>3. EndpointsTyped' /\ SizesKept' /\ BusKept' /\ FifosKept' /\ SharedQuiet'
    BY <2>1, <2>2 DEF EndpointInv, EndpointsTyped, SizesKept, BusKept, FifosKept, FifoSet, SharedQuiet
  <2>4. CsrsKept' BY <2>1, <2>2 DEF EndpointInv, CsrsKept, CsrAt
  <2> QED BY <2>3, <2>4 DEF EndpointInv
<1>8. CASE UsbNext BY <1>4, <1>5, <1>6, <1>8 DEF UsbNext
<1> QED BY <1>7, <1>8

(* What the invariant says of the properties.                              *)
LEMMA PacketSafe == EndpointInv => PacketKept
<1> SUFFICES ASSUME EndpointInv PROVE PacketKept OBVIOUS
<1>1. CASE Sided
  <2>1. \A x \in received : ReadyBit \in CsrAt(usb, x) BY <1>1 DEF EndpointInv, CsrsKept
  <2> QED BY <2>1 DEF PacketKept, CsrAt
<1>2. CASE ~Sided BY <1>2 DEF EndpointInv, SharedQuiet, PacketKept
<1> QED BY <1>1, <1>2

(* A stall or a request is in the register that is read for it.            *)
LEMMA CommandSafe == EndpointInv => CommandSeen
<1> SUFFICES ASSUME EndpointInv PROVE CommandSeen OBVIOUS
<1>1. ASSUME NEW x \in Targets, Sided, Command(x) # NoBit, Host => raised = 0
      PROVE  Command(x) \in CsrAt(usb, x) <=> x \in asked
  BY <1>1 DEF EndpointInv, CsrsKept
<1>2. TXCSR_D.SEND_STALL = 4 /\ RXCSR_D.SEND_STALL = 5 BY DEF TXCSR_D, RXCSR_D
<1>3. ASSUME NEW x \in Targets
      PROVE  /\ group = "dev" /\ x[1] = "TX" => (4 \in usb.e["TXCSR"][x[2]] <=> x \in asked)
             /\ group = "dev" /\ x[1] = "RX" => (5 \in usb.e["RXCSR"][x[2]] <=> x \in asked)
  <2>1. CASE group = "dev" /\ x[1] = "TX"
    <3>1. Command(x) = 4 /\ CsrAt(usb, x) = usb.e["TXCSR"][x[2]] BY <2>1 DEF Command, CommandBit, CsrAt, CsrOf
    <3> QED BY <1>1, <2>1, <3>1 DEF Sided, NoBit, Host
  <2>2. CASE group = "dev" /\ x[1] = "RX"
    <3>1. Command(x) = 5 /\ CsrAt(usb, x) = usb.e["RXCSR"][x[2]] BY <2>2 DEF Command, CommandBit, CsrAt, CsrOf
    <3> QED BY <1>1, <2>2, <3>1 DEF Sided, NoBit, Host
  <2> QED BY <2>1, <2>2
<1>4. ASSUME NEW x \in Targets, group = "host", raised = 0
      PROVE  /\ x \in asked /\ x[1] # "TX" => USBC_Host_IsReqPktSet(x[1], usb.e["TXCSR"][x[2]], usb.e["RXCSR"][x[2]])
             /\ x[1] = "RX" /\ x \notin asked => ~USBC_Host_IsReqPktSet("RX", {}, usb.e["RXCSR"][x[2]])
  <2>1. x[1] \in {"EP0", "TX", "RX"} BY TargetFacts
  <2>2. x[1] # "TX" => (5 \in CsrAt(usb, x) <=> x \in asked)
    <3> HAVE x[1] # "TX"
    <3>1. Command(x) = 5 BY <1>4 DEF Command, CommandBit
    <3> QED BY <1>1, <1>4, <3>1 DEF Sided, NoBit
  <2>3. \A tx, rx : /\ 5 \in tx => USBC_Host_IsReqPktSet("EP0", tx, rx)
                    /\ USBC_Host_IsReqPktSet("RX", tx, rx) <=> 5 \in rx
    BY DEF USBC_Host_IsReqPktSet, Query, USBC_Host_ep0_IsReqPktSet, USBC_Host_Rx_IsReqPktSet, CSR0_H, RXCSR_H
  <2>4. CASE x[1] = "EP0"
    <3>1. CsrAt(usb, x) = usb.e["TXCSR"][x[2]] BY <2>4 DEF CsrAt, CsrOf
    <3> QED BY <2>2, <2>3, <2>4, <3>1
  <2>5. CASE x[1] = "RX"
    <3>1. CsrAt(usb, x) = usb.e["RXCSR"][x[2]] BY <2>5 DEF CsrAt, CsrOf
    <3> QED BY <2>2, <2>3, <2>5, <3>1
  <2> QED BY <2>1, <2>4, <2>5
<1> SUFFICES ASSUME NEW x \in Targets
             PROVE  /\ group = "dev" /\ x[1] = "TX" => (4 \in usb.e["TXCSR"][x[2]] <=> x \in asked)
                    /\ group = "dev" /\ x[1] = "RX" => (5 \in usb.e["RXCSR"][x[2]] <=> x \in asked)
                    /\ group = "host" /\ x \in asked /\ x[1] # "TX" /\ raised = 0 =>
                         USBC_Host_IsReqPktSet(x[1], usb.e["TXCSR"][x[2]], usb.e["RXCSR"][x[2]])
                    /\ group = "host" /\ x[1] = "RX" /\ x \notin asked /\ raised = 0 =>
                         ~USBC_Host_IsReqPktSet("RX", {}, usb.e["RXCSR"][x[2]])
  BY <1>2, Zenon DEF CommandSeen
<1> QED BY <1>3, <1>4

(* The field of the maximal packet reads as the number.                    *)
LEMMA SizeSafe == EndpointInv => MaxpExact
<1> SUFFICES ASSUME EndpointInv, NEW x \in EndTargets, told[x] # -1
             PROVE  Value(usb.e[IF x[1] = "TX" THEN "TXMAXP" ELSE "RXMAXP"][x[2]] \cap 0..10) = told[x]
  BY DEF MaxpExact, EndTargets
<1>1. MaxpAt(usb, x) \cap 0..10 = Bits(told[x]) BY DEF EndpointInv, SizesKept
<1>2. told[x] \in {0, 64, 512}
  <2>1. told[x] \in {-1, 0} \cup Sizes BY DEF EndpointInv, EndpointsTyped, EndTargets
  <2> QED BY <2>1 DEF Sizes
<1>3. \A n \in {0, 64, 512} : Value(Bits(n)) = n BY NumberBits, FieldValues
<1>4. MaxpName(x[1]) = IF x[1] = "TX" THEN "TXMAXP" ELSE "RXMAXP"
  <2>1. x[1] \in {"TX", "RX"}
    <3>1. x = <<x[1], x[2]>> /\ x[1] \in {"EP0", "TX", "RX"} /\ (x[1] = "EP0" <=> x[2] = 0)
      BY TargetFacts DEF EndTargets
    <3> QED BY <3>1 DEF EndTargets
  <2> QED BY <2>1 DEF MaxpName
<1> QED BY <1>1, <1>2, <1>3, <1>4 DEF MaxpAt

(* BUS_SEL is bit 0.                                                       *)
LEMMA BusSafe == EndpointInv => BusSelected
BY DEF EndpointInv, BusKept, BusSelected, VEND0

(* The addresses and sizes of the two bulk FIFOs, in bytes.                *)
LEMMA FifoSafe == EndpointInv => FifoDisjoint
<1> SUFFICES ASSUME EndpointInv, group = "dev", usb.e["RXFIFOAD"][2] # {}
             PROVE  LET tx == FifoArea(usb.e["TXFIFOAD"][1], usb.e["TXFIFOSZ"][1])
                        rx == FifoArea(usb.e["RXFIFOAD"][2], usb.e["RXFIFOSZ"][2])
                    IN  /\ rx.from >= 64 /\ tx.from >= rx.to /\ tx.to <= 8192
                        /\ rx.to - rx.from >= 2 * told[<<"RX", 2>>]
  BY DEF FifoDisjoint
<1>1. FifoSet(usb) BY DEF EndpointInv, FifosKept
<1>2. /\ usb.e["TXFIFOAD"][1] = {2, 3, 7} /\ usb.e["TXFIFOSZ"][1] = {1, 2, 4}
      /\ usb.e["RXFIFOAD"][2] = {2, 3} /\ usb.e["RXFIFOSZ"][2] = {1, 2, 4}
  BY <1>1, NumberBits DEF FifoSet
<1>3. {1, 2, 4} \cap 0..3 = {1, 2} OBVIOUS
<1>4. 2^(6 + 3) = 512
  <2>1. 6 + 3 = 9 OBVIOUS
  <2> QED BY <2>1, Powers
<1>5. /\ FifoArea({2, 3}, {1, 2, 4}) = [from |-> 96, to |-> 1120]
      /\ FifoArea({2, 3, 7}, {1, 2, 4}) = [from |-> 1120, to |-> 2144]
  <2>1. /\ FifoArea({2, 3}, {1, 2, 4}) = [from |-> 12 * 8, to |-> 12 * 8 + 512 * 2]
        /\ FifoArea({2, 3, 7}, {1, 2, 4}) = [from |-> 140 * 8, to |-> 140 * 8 + 512 * 2]
    <3>1. Value({1, 2}) = 6 /\ Value({2, 3}) = 12 /\ Value({2, 3, 7}) = 140 BY FieldValues
    <3>2. \A ad, sz : FifoArea(ad, sz) =
            [from |-> Value(ad) * 8,
             to |-> Value(ad) * 8 + 2^(Value(sz \cap 0..3) + 3) * (IF 4 \in sz THEN 2 ELSE 1)]
      BY DEF FifoArea
    <3>3. (IF 4 \in {1, 2, 4} THEN 2 ELSE 1) = 2 OBVIOUS
    <3>4. 2^(Value({1, 2, 4} \cap 0..3) + 3) = 512
      <4>1. Value({1, 2, 4} \cap 0..3) + 3 = 6 + 3 BY <1>3, <3>1
      <4> HIDE DEF Value
      <4> QED BY <1>4, <4>1, Zenon
    <3> QED BY <3>1, <3>2, <3>3, <3>4
  <2> QED BY <2>1
<1>6. told[<<"RX", 2>>] \in {-1, 0, 64, 512}
  <2>1. <<"RX", 2>> \in Targets BY TargetFacts
  <2>2. told[<<"RX", 2>>] \in {-1, 0} \cup Sizes BY <2>1 DEF EndpointInv, EndpointsTyped
  <2> QED BY <2>2 DEF Sizes
<1> QED BY <1>2, <1>5, <1>6

(* What was configured or asked of one endpoint survives every call for    *)
(* another one, raced by the controller or not: packets stay announced and *)
(* interrupts pending, stalls and requests stand, the maximal packets are  *)
(* the ones given last, DMA is selected while it is used and the bulk FIFOs*)
(* do not overlap.                                                         *)
THEOREM EndpointsKept == UsbSpec => []EndpointKept
<1>1. EndpointInv /\ SharedInv => EndpointKept
  BY PacketSafe, CommandSafe, SizeSafe, BusSafe, FifoSafe, SharedSafe DEF EndpointKept
<1> QED BY EndpointInit, EndpointStep, SharedInit, SharedStep, <1>1, PTL DEF UsbSpec
=============================================================================
