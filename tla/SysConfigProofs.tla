-------------------------- MODULE SysConfigProofs --------------------------
(***************************************************************************)
(* Proofs about SysConfig, for any pins, any configuration, any handles    *)
(* and any number of calls.                                                *)
(*                                                                         *)
(* gpio_request and gpio_release are loops that keep the registers of one  *)
(* pin in local variables, so the argument is about what these variables   *)
(* show: Agree says, between two turns, that writing them back would leave *)
(* each pin as asked so far, and Released that it would leave the pins of  *)
(* the handle as they were.  The inductive invariant, ConfigInv, adds the  *)
(* handles, whose pins and names must differ, and the configuration, where *)
(* a string begins as the one last given for it.                           *)
(***************************************************************************)
EXTENDS SysConfig, WellFoundedInduction, SequenceTheorems, TLAPS

Regs == [Fields -> [Pins -> Int]]
Three == {"func", "pull", "dlevel"}
InGroup(f, p) == {q \in Pins : Group(f, q) = Group(f, p)}

(* The local variables, and those that hold the registers of a pin.        *)
IsLocals(s) ==
  /\ s = [r |-> s.r, pre |-> s.pre, group |-> s.group, val |-> s.val, changed |-> s.changed,
          entries |-> s.entries]
  /\ s.r \in Regs /\ s.changed \subseteq Fields

Loaded(s) ==
  /\ IsLocals(s) /\ s.pre \in Pins
  /\ s.group = [f \in Fields |-> Group(f, s.pre)]
  /\ s.val = [f \in Fields |-> s.val[f]]
  /\ \A f \in Fields : s.val[f] \in [InGroup(f, s.pre) -> Int]

(* What a field would have if the locals were written back.                *)
Shows(s, f, q) ==
  IF s.pre # NoPin /\ Group(f, q) = Group(f, s.pre) THEN s.val[f][q] ELSE s.r[f][q]

(* Writing back: a field that is flushed gets what the locals show of it,  *)
(* another one stays.                                                      *)
LEMMA FlushFacts ==
  ASSUME NEW s, Loaded(s), NEW fields
  PROVE  /\ Flush(s, fields) \in Regs
         /\ \A f \in Fields : \A q \in Pins :
              Flush(s, fields)[f][q] = IF f \in fields THEN Shows(s, f, q) ELSE s.r[f][q]
<1> DEFINE r == Flush(s, fields)
<1>0. s.r \in Regs /\ s.r = [f \in Fields |-> s.r[f]] BY DEF Loaded, IsLocals, Regs
<1>1. r = [f \in Fields |-> IF f \in fields THEN WriteReg(s.r, f, s.group[f], s.val[f])[f] ELSE s.r[f]]
  BY DEF Flush
<1>2. \A f \in Fields :
        WriteReg(s.r, f, s.group[f], s.val[f])[f]
          = [p \in Pins |-> IF Group(f, p) = s.group[f] THEN s.val[f][p] ELSE s.r[f][p]]
  <2> TAKE f \in Fields
  <2> DEFINE col == [p \in Pins |-> IF Group(f, p) = s.group[f] THEN s.val[f][p] ELSE s.r[f][p]]
  <2>1. WriteReg(s.r, f, s.group[f], s.val[f]) = [s.r EXCEPT ![f] = col] BY DEF WriteReg
  <2>2. f \in DOMAIN s.r BY <1>0 DEF Regs
  <2> HIDE DEF col
  <2>3. WriteReg(s.r, f, s.group[f], s.val[f])[f] = col BY <2>1, <2>2
  <2> QED BY <2>3 DEF col
<1>3. \A f \in Fields : s.group[f] = Group(f, s.pre) BY DEF Loaded
<1>4. \A f \in Fields : \A q \in Pins : s.r[f][q] \in Int BY DEF Loaded, IsLocals, Regs
<1>5. \A f \in Fields : \A q \in Pins :
        Group(f, q) = Group(f, s.pre) => s.val[f][q] \in Int
  BY DEF Loaded, InGroup
<1>6. \A f \in Fields : s.r[f] \in [Pins -> Int] BY DEF Loaded, IsLocals, Regs
<1> HIDE DEF r
<1>7. ASSUME NEW f \in Fields, f \in fields
      PROVE  /\ r[f] = [p \in Pins |-> IF Group(f, p) = s.group[f] THEN s.val[f][p] ELSE s.r[f][p]]
             /\ \A q \in Pins : r[f][q] = Shows(s, f, q)
  <2>1. r[f] = WriteReg(s.r, f, s.group[f], s.val[f])[f] BY <1>1, <1>7
  <2>2. r[f] = [p \in Pins |-> IF Group(f, p) = s.group[f] THEN s.val[f][p] ELSE s.r[f][p]]
    BY <1>2, <2>1
  <2>3. s.group[f] = Group(f, s.pre) BY <1>3
  <2>4. s.pre # NoPin BY PinAssumption DEF Loaded
  <2> QED BY <2>2, <2>3, <2>4 DEF Shows
<1>8. ASSUME NEW f \in Fields PROVE r[f] \in [Pins -> Int]
  <2>1. CASE f \in fields
    <3>1. \A q \in Pins : Shows(s, f, q) \in Int BY <1>4, <1>5 DEF Shows
    <3> QED BY <1>7, <2>1, <3>1
  <2>2. CASE f \notin fields BY <1>1, <1>6, <2>2
  <2> QED BY <2>1, <2>2
<1>9. r \in Regs BY <1>1, <1>8 DEF Regs
<1>10. ASSUME NEW f \in Fields, NEW q \in Pins
       PROVE r[f][q] = IF f \in fields THEN Shows(s, f, q) ELSE s.r[f][q]
  <2>1. CASE f \in fields BY <1>7, <2>1
  <2>2. CASE f \notin fields BY <1>1, <2>2
  <2> QED BY <2>1, <2>2
<1> QED BY <1>9, <1>10 DEF r

(* Pins of one pull register are pins of one drive register and of one     *)
(* data register.                                                          *)
LEMMA GroupShared ==
  ASSUME NEW p \in Pins, NEW q \in Pins, Group("pull", p) = Group("pull", q)
  PROVE  Group("dlevel", p) = Group("dlevel", q) /\ Group("data", p) = Group("data", q)
BY DEF Group

(* What a register reads: the fields of its pins, but the data of an input *)
(* is the level outside.                                                   *)
LEMMA ReadFacts ==
  ASSUME NEW r \in Regs, NEW f \in Fields, NEW p \in Pins, pinLevel \in [Pins -> Int]
  PROVE  /\ ReadReg(r, f, Group(f, p)) \in [InGroup(f, p) -> Int]
         /\ \A q \in InGroup(f, p) :
              f # "data" \/ r["func"][q] = 1 => ReadReg(r, f, Group(f, p))[q] = r[f][q]
<1> DEFINE g == Group(f, p)
<1>1. ReadReg(r, f, g) = [q \in InGroup(f, p) |->
                            IF f = "data" /\ r["func"][q] # 1 THEN pinLevel[q] ELSE r[f][q]]
  BY DEF ReadReg, InGroup
<1>2. \A q \in InGroup(f, p) : pinLevel[q] \in Int /\ r[f][q] \in Int BY DEF InGroup, Regs
<1> HIDE DEF g
<1> QED BY <1>1, <1>2 DEF g

(* After Load the locals are those of p: function, pull and drive show     *)
(* what the registers have, and so does the data of an output.             *)
LEMMA LoadFacts ==
  ASSUME NEW s, IsLocals(s), NEW p \in Pins, pinLevel \in [Pins -> Int]
  PROVE  LET m == Load(s, p)
         IN  /\ Loaded(m) /\ m.pre = p /\ m.r = s.r /\ m.changed = s.changed
             /\ m.entries = s.entries
             /\ \A f \in Fields : \A q \in Pins :
                  f # "data" \/ s.r["func"][q] = 1 => Shows(m, f, q) = s.r[f][q]
<1> DEFINE m == Load(s, p)
           group == [f \in Fields |-> Group(f, p)]
           val == [f \in Fields |-> ReadReg(s.r, f, Group(f, p))]
<1>1. m = [r |-> s.r, pre |-> p, group |-> group, val |-> val, changed |-> s.changed,
           entries |-> s.entries]
  <2>1. m = [s EXCEPT !.group = group, !.val = val, !.pre = p] BY DEF Load
  <2> HIDE DEF m, group, val
  <2> QED BY <2>1 DEF IsLocals
<1> HIDE DEF m
<1>2. s.r \in Regs BY DEF IsLocals
<1>3. \A f \in Fields : m.val[f] = ReadReg(s.r, f, Group(f, p)) BY <1>1
<1>4. \A f \in Fields : m.val[f] \in [InGroup(f, p) -> Int] BY <1>2, <1>3, ReadFacts
<1>5. IsLocals(m) BY <1>1, <1>2 DEF IsLocals
<1>6. m.val = [f \in Fields |-> m.val[f]] BY <1>1
<1>7. Loaded(m) BY <1>1, <1>4, <1>5, <1>6 DEF Loaded
<1>8. ASSUME NEW f \in Fields, NEW q \in Pins, f # "data" \/ s.r["func"][q] = 1
      PROVE Shows(m, f, q) = s.r[f][q]
  <2>1. ASSUME Group(f, q) = Group(f, p) PROVE m.val[f][q] = s.r[f][q]
    <3>1. q \in InGroup(f, p) BY <2>1 DEF InGroup
    <3>2. ReadReg(s.r, f, Group(f, p))[q] = s.r[f][q] BY <1>2, <1>8, <3>1, ReadFacts
    <3> QED BY <1>3, <3>2
  <2> QED BY <1>1, <2>1 DEF Shows
<1> QED BY <1>1, <1>7, <1>8 DEF m

(* Between two turns.                                                      *)
Ready(s) == IsLocals(s) /\ (Loaded(s) \/ (s.pre = NoPin /\ s.changed = {}))

(* Move has written back and loaded, or changed the function group at most. *)
Fresh(m, s, fields) ==
  /\ m.changed = {}
  /\ \A f \in Three : \A q \in Pins : Shows(m, f, q) = m.r[f][q]
  /\ \A q \in Pins :
       /\ m.r["data"][q] = IF "data" \in fields THEN Shows(s, "data", q) ELSE s.r["data"][q]
       /\ Shows(s, "func", q) = 1 => Shows(m, "data", q) = m.r["data"][q]

(* Or nothing was written.                                                 *)
Stayed(m, s) ==
  /\ m.changed = s.changed
  /\ \A f \in Three : \A q \in Pins : Shows(s, f, q) = s.r[f][q] => Shows(m, f, q) = m.r[f][q]
  /\ \A q \in Pins : Shows(m, "data", q) = Shows(s, "data", q) /\ m.r["data"][q] = s.r["data"][q]

Moved(m, s, p, fields) ==
  /\ Loaded(m) /\ m.pre = p /\ m.entries = s.entries
  /\ \A f \in Three : \A q \in Pins : Shows(m, f, q) = Shows(s, f, q)
  /\ Fresh(m, s, fields) \/ Stayed(m, s)

(* The four fields.                                                        *)
LEMMA FieldNames ==
  /\ Three \subseteq Fields /\ "data" \in Fields /\ "data" \notin Three
  /\ Fields = Three \cup {"data"}
  /\ Three = {"func", "pull", "dlevel"}
  /\ \A f \in Three : f \in Fields /\ f # "data"
BY DEF Three, Fields

(* Move has the registers of p in the locals, and loses nothing that the   *)
(* locals showed before.                                                   *)
LEMMA MoveFacts ==
  ASSUME NEW s, Ready(s), NEW p \in Pins, NEW fields, pinLevel \in [Pins -> Int],
         \A f \in Three : \A q \in Pins : f \in fields \/ Shows(s, f, q) = s.r[f][q]
  PROVE  Moved(Move(s, p, fields), s, p, fields)
<1> DEFINE m == Move(s, p, fields)
<1>0. s.pre = NoPin \/ (Loaded(s) /\ s.pre \in Pins) BY DEF Ready, Loaded
<1>1. CASE s.pre = NoPin
  <2>1. m = Load(s, p) BY <1>1 DEF Move
  <2>2. s.changed = {} BY <1>1, PinAssumption DEF Ready, Loaded
  <2>3. \A f \in Fields : \A q \in Pins : Shows(s, f, q) = s.r[f][q] BY <1>1 DEF Shows
  <2> HIDE DEF m
  <2>4. /\ Loaded(m) /\ m.pre = p /\ m.r = s.r /\ m.changed = s.changed /\ m.entries = s.entries
        /\ \A f \in Fields : \A q \in Pins :
             f # "data" \/ s.r["func"][q] = 1 => Shows(m, f, q) = s.r[f][q]
    BY <2>1, LoadFacts DEF Ready
  <2>5. ASSUME NEW f \in Three, NEW q \in Pins
        PROVE  Shows(m, f, q) = Shows(s, f, q) /\ Shows(m, f, q) = m.r[f][q]
    <3>1. f \in Fields /\ f # "data" BY FieldNames
    <3>2. Shows(s, f, q) = s.r[f][q] BY <2>3, <3>1
    <3>3. Shows(m, f, q) = s.r[f][q] BY <2>4, <3>1
    <3> QED BY <2>4, <3>2, <3>3
  <2>6. \A q \in Pins : Shows(s, "data", q) = s.r["data"][q] /\ Shows(s, "func", q) = s.r["func"][q]
    BY <2>3, FieldNames
  <2>7. Fresh(m, s, fields) BY <2>2, <2>4, <2>5, <2>6, FieldNames DEF Fresh
  <2> QED BY <2>4, <2>5, <2>7 DEF m, Moved
<1>2. CASE Loaded(s) /\ s.pre \in Pins /\ Group("pull", p) # Group("pull", s.pre)
  <2> DEFINE r == Flush(s, fields)
             t == [s EXCEPT !.r = r, !.changed = {}]
  <2>1. s.pre # NoPin BY <1>2, PinAssumption
  <2>2. m = Load(t, p) BY <1>2, <2>1 DEF Move
  <2>3. /\ r \in Regs
        /\ \A f \in Fields : \A q \in Pins : r[f][q] = IF f \in fields THEN Shows(s, f, q) ELSE s.r[f][q]
    BY <1>2, FlushFacts
  <2> HIDE DEF m, r
  <2>10. t = [s EXCEPT !.r = r, !.changed = {}] OBVIOUS
  <2> HIDE DEF t
  <2>4. /\ t = [r |-> r, pre |-> s.pre, group |-> s.group, val |-> s.val, changed |-> {},
                entries |-> s.entries]
    <3>1. IsLocals(s) BY <1>2 DEF Loaded
    <3> QED BY <2>10, <3>1 DEF IsLocals
  <2>5. IsLocals(t) /\ t.r = r /\ t.changed = {} /\ t.entries = s.entries
    BY <2>3, <2>4 DEF IsLocals
  <2>6. /\ Loaded(m) /\ m.pre = p /\ m.r = r /\ m.changed = {} /\ m.entries = s.entries
        /\ \A f \in Fields : \A q \in Pins :
             f # "data" \/ r["func"][q] = 1 => Shows(m, f, q) = r[f][q]
    BY <2>2, <2>5, LoadFacts
  <2>7. ASSUME NEW f \in Three, NEW q \in Pins PROVE r[f][q] = Shows(s, f, q)
    <3>1. f \in Fields BY FieldNames
    <3> QED BY <2>3, <3>1
  <2>8. ASSUME NEW f \in Three, NEW q \in Pins
        PROVE  Shows(m, f, q) = Shows(s, f, q) /\ Shows(m, f, q) = m.r[f][q]
    <3>1. f \in Fields /\ f # "data" BY FieldNames
    <3>2. Shows(m, f, q) = r[f][q] BY <2>6, <3>1
    <3> QED BY <2>6, <2>7, <3>2
  <2>9. Fresh(m, s, fields) BY <2>3, <2>6, <2>7, <2>8, FieldNames DEF Fresh
  <2> QED BY <2>6, <2>8, <2>9 DEF m, Moved
<1>3. CASE Loaded(s) /\ s.pre \in Pins /\ Group("pull", p) = Group("pull", s.pre)
  <2>1. s.pre # NoPin BY <1>3, PinAssumption
  <2>2. Group("dlevel", p) = Group("dlevel", s.pre) /\ Group("data", p) = Group("data", s.pre)
    BY <1>3, GroupShared
  <2>3. \A f \in Fields : f # "func" => Group(f, p) = Group(f, s.pre) BY <1>3, <2>2, FieldNames
  <2>4. CASE Group("func", p) = Group("func", s.pre)
    <3>1. m = [s EXCEPT !.pre = p] BY <1>3, <2>1, <2>4 DEF Move
    <3>2. \A f \in Fields : Group(f, p) = Group(f, s.pre) BY <2>3, <2>4
    <3> HIDE DEF m
    <3>0. IsLocals(s) BY <1>3 DEF Loaded
    <3>3. m = [r |-> s.r, pre |-> p, group |-> s.group, val |-> s.val, changed |-> s.changed,
               entries |-> s.entries]
      BY <3>1, <3>0 DEF IsLocals
    <3>4. \A f \in Fields : \A q \in Pins : Shows(m, f, q) = Shows(s, f, q)
      BY <2>1, <3>2, <3>3, PinAssumption DEF Shows
    <3>5. Loaded(m)
      <4>1. IsLocals(m) BY <3>0, <3>3 DEF IsLocals
      <4>2. s.group = [f \in Fields |-> Group(f, p)] BY <1>3, <3>2 DEF Loaded
      <4>3. \A f \in Fields : InGroup(f, p) = InGroup(f, s.pre) BY <3>2 DEF InGroup
      <4>4. \A f \in Fields : m.val[f] \in [InGroup(f, p) -> Int] BY <1>3, <3>3, <4>3 DEF Loaded
      <4>5. m.val = s.val /\ m.pre = p /\ m.group = s.group BY <3>3
      <4>6. s.val = [f \in Fields |-> s.val[f]] BY <1>3 DEF Loaded
      <4>7. m.val = [f \in Fields |-> m.val[f]] BY <4>5, <4>6
      <4>8. m.group = [f \in Fields |-> Group(f, m.pre)] BY <4>2, <4>5
      <4>9. m.pre \in Pins /\ \A f \in Fields : m.val[f] \in [InGroup(f, m.pre) -> Int]
        BY <4>4, <4>5
      <4> QED BY <4>1, <4>7, <4>8, <4>9 DEF Loaded
    <3>6. Stayed(m, s) BY <3>3, <3>4, FieldNames DEF Stayed
    <3> QED BY <3>3, <3>4, <3>5, <3>6, FieldNames DEF Moved, m
  <2>5. CASE Group("func", p) # Group("func", s.pre)
    <3> DEFINE r == Flush(s, {"func"})
               group == [s.group EXCEPT !["func"] = Group("func", p)]
               val == [s.val EXCEPT !["func"] = ReadReg(r, "func", Group("func", p))]
    <3>1. m = LoadFunc(s, p) BY <1>3, <2>1, <2>5 DEF Move
    <3>2. m = [s EXCEPT !.r = r, !.pre = p, !.group = group, !.val = val] BY <3>1 DEF LoadFunc
    <3>3. /\ r \in Regs
          /\ \A f \in Fields : \A q \in Pins : r[f][q] = IF f = "func" THEN Shows(s, f, q) ELSE s.r[f][q]
      BY <1>3, FlushFacts
    <3>4. group = [f \in Fields |-> Group(f, p)] BY <1>3, <2>3 DEF Loaded
    <3>5. /\ val = [f \in Fields |-> val[f]] /\ val["func"] = ReadReg(r, "func", Group("func", p))
          /\ \A f \in Fields : f # "func" => val[f] = s.val[f]
      BY <1>3, FieldNames DEF Loaded
    <3>6. /\ val["func"] \in [InGroup("func", p) -> Int]
          /\ \A q \in InGroup("func", p) : val["func"][q] = r["func"][q]
      BY <3>3, <3>5, FieldNames, ReadFacts
    <3> HIDE DEF m, r, group, val
    <3>7. m = [r |-> r, pre |-> p, group |-> group, val |-> val, changed |-> s.changed,
               entries |-> s.entries]
      BY <3>2, <1>3 DEF Loaded, IsLocals
    <3>8. Loaded(m)
      <4>1. IsLocals(m) BY <1>3, <3>3, <3>7 DEF Loaded, IsLocals
      <4>2. \A f \in Fields : f # "func" => InGroup(f, p) = InGroup(f, s.pre) BY <2>3 DEF InGroup
      <4>3. \A f \in Fields : f # "func" => val[f] \in [InGroup(f, p) -> Int]
        BY <1>3, <3>5, <4>2 DEF Loaded
      <4>4. \A f \in Fields : m.val[f] \in [InGroup(f, p) -> Int] BY <3>6, <3>7, <4>3
      <4>5. m.val = [f \in Fields |-> m.val[f]] BY <3>5, <3>7
      <4> QED BY <3>4, <3>7, <4>1, <4>4, <4>5 DEF Loaded
    <3>9. \A q \in Pins : Shows(m, "func", q) = Shows(s, "func", q) /\ m.r["func"][q] = Shows(s, "func", q)
      BY <3>3, <3>6, <3>7, FieldNames DEF Shows, InGroup
    <3>10. \A f \in Fields : \A q \in Pins :
             f # "func" => Shows(m, f, q) = Shows(s, f, q) /\ m.r[f][q] = s.r[f][q]
      BY <2>1, <2>3, <3>3, <3>5, <3>7, PinAssumption DEF Shows
    <3>11. \A f \in Three : \A q \in Pins : Shows(m, f, q) = Shows(s, f, q)
      BY <3>9, <3>10, FieldNames
    <3>12. Stayed(m, s) BY <3>7, <3>9, <3>10, FieldNames DEF Stayed
    <3> QED BY <3>7, <3>8, <3>11, <3>12 DEF Moved, m
  <2> QED BY <2>4, <2>5
<1> QED BY <1>0, <1>1, <1>2, <1>3

(* The least number of a set: what the inductions below rest on.           *)
LEMMA LeastOf ==
  ASSUME NEW T, T \subseteq Nat, T # {}
  PROVE  \E x \in T : \A y \in T : x <= y
<1>1. IsWellFoundedOn(OpToRel(<, Nat), Nat) BY NatLessThanWellFounded
<1>2. PICK x \in T : \A y \in T : ~(<<y, x>> \in OpToRel(<, Nat)) BY <1>1, WFMin
<1>3. \A y \in T : ~(y < x) BY <1>2 DEF OpToRel
<1> QED BY <1>3

(* The loop of gpio_request is a recursive function: it exists, by the     *)
(* least length without one.                                               *)
LEMMA RequestTurns ==
  ASSUME NEW list, Len(list) \in Nat
  PROVE  \E turn : /\ turn[0] = Locals(pio) /\ RequestPins(list) = turn[Len(list)]
                   /\ \A i \in 1..Len(list) : turn[i] = RequestPin(turn[i - 1], list[i])
<1> DEFINE N == Len(list)
           L == Locals(pio)
           Is(g, n) == g = [i \in 0..n |-> IF i = 0 THEN L ELSE RequestPin(g[i - 1], list[i])]
           turn == CHOOSE g : Is(g, N)
           Bad == {n \in 0..N : ~ \E g : Is(g, n)}
<1> HIDE DEF L
<1>1. Bad = {}
  <2> SUFFICES ASSUME Bad # {} PROVE FALSE OBVIOUS
  <2>1. PICK n \in Bad : \A y \in Bad : n <= y
    <3>1. Bad \subseteq Nat OBVIOUS
    <3> HIDE DEF Bad
    <3> QED BY <3>1, LeastOf
  <2>2. n \in 0..N /\ ~ \E g : Is(g, n) BY <2>1
  <2>3. CASE n = 0
    <3> DEFINE g == [i \in 0..0 |-> L]
    <3>1. Is(g, 0) OBVIOUS
    <3> QED BY <2>2, <2>3, <3>1
  <2>4. CASE n # 0
    <3>1. n - 1 \in 0..N /\ ~(n <= n - 1) BY <2>2, <2>4
    <3>2. n - 1 \notin Bad BY <2>1, <3>1
    <3>3. PICK h : Is(h, n - 1) BY <3>1, <3>2
    <3> DEFINE g == [i \in 0..n |-> IF i = 0 THEN L ELSE RequestPin(h[i - 1], list[i])]
               e == [i \in 0..n |-> IF i = 0 THEN L ELSE RequestPin(g[i - 1], list[i])]
    <3>4. \A i \in 0..(n - 1) : g[i] = h[i] BY <2>2, <3>3
    <3>5. g = [i \in 0..n |-> g[i]] /\ e = [i \in 0..n |-> e[i]] OBVIOUS
    <3>6. ASSUME NEW i \in 0..n PROVE g[i] = e[i]
      <4>1. CASE i = 0 BY <4>1
      <4>2. CASE i # 0
        <5>1. i - 1 \in 0..(n - 1) BY <2>2, <4>2
        <5>2. g[i - 1] = h[i - 1] BY <3>4, <5>1
        <5>3. g[i] = RequestPin(h[i - 1], list[i]) BY <4>2
        <5>4. e[i] = RequestPin(g[i - 1], list[i]) BY <4>2
        <5> HIDE DEF g, e
        <5> QED BY <5>2, <5>3, <5>4
      <4> QED BY <4>1, <4>2
    <3>7. g = e
      <4> HIDE DEF g, e
      <4> QED BY <3>5, <3>6
    <3> QED BY <2>2, <3>7
  <2> QED BY <2>3, <2>4
<1>2. \E g : Is(g, N) BY <1>1
<1>3. Is(turn, N)
  <2> HIDE DEF Is
  <2> QED BY <1>2
<1>4. RequestPins(list) = turn[N] BY DEF RequestPins, L
<1> HIDE DEF turn
<1>5. turn[0] = L BY <1>3
<1>6. \A i \in 1..N : turn[i] = RequestPin(turn[i - 1], list[i])
  <2> TAKE i \in 1..N
  <2>1. i \in 0..N /\ i # 0 OBVIOUS
  <2> HIDE DEF N
  <2> QED BY <1>3, <2>1
<1> QED BY <1>4, <1>5, <1>6 DEF L

(* What is asked of a pin.                                                 *)
Specs == [func : Int, pull : Int, dlevel : Int, out : Int]

(* Locals and registers are as asked: a field that is not is marked as     *)
(* changed.                                                                *)
Agree(s, sp) ==
  /\ \A f \in Three : \A q \in Pins : Shows(s, f, q) = sp[q][f]
  /\ \A f \in Three : \A q \in Pins : f \in s.changed \/ Shows(s, f, q) = s.r[f][q]
  /\ \A q \in Pins : sp[q].out # Unknown =>
       /\ sp[q].func = 1 /\ Shows(s, "data", q) = sp[q].out
       /\ "data" \in s.changed \/ s.r["data"][q] = sp[q].out

(* Before the next pin, Move keeps that locals and registers are as asked  *)
(* so far.                                                                 *)
LEMMA MoveAgree ==
  ASSUME NEW s, Ready(s), NEW p \in Pins, pinLevel \in [Pins -> Int],
         NEW sp \in [Pins -> Specs], Agree(s, sp)
  PROVE  LET m == Move(s, p, s.changed)
         IN  Loaded(m) /\ m.pre = p /\ m.entries = s.entries /\ Agree(m, sp)
<1> DEFINE m == Move(s, p, s.changed)
<1>1. Moved(m, s, p, s.changed) BY MoveFacts DEF Agree
<1> HIDE DEF m
<1>2. "func" \in Three BY FieldNames
<1>3. \A q \in Pins : sp[q].out # Unknown => Shows(s, "func", q) = 1 BY <1>2 DEF Agree
<1>4. \A f \in Three : \A q \in Pins : Shows(m, f, q) = sp[q][f] BY <1>1 DEF Moved, Agree
<1>5. CASE Fresh(m, s, s.changed)
  <2>1. ASSUME NEW q \in Pins, sp[q].out # Unknown
        PROVE  m.r["data"][q] = sp[q].out /\ Shows(m, "data", q) = sp[q].out
    BY <1>3, <1>5, <2>1 DEF Fresh, Agree
  <2>2. Agree(m, sp) BY <1>4, <1>5, <2>1 DEF Fresh, Agree
  <2> QED BY <1>1, <2>2 DEF Moved, m
<1>6. CASE Stayed(m, s)
  <2>1. ASSUME NEW q \in Pins, sp[q].out # Unknown
        PROVE  /\ sp[q].func = 1 /\ Shows(m, "data", q) = sp[q].out
               /\ "data" \in m.changed \/ m.r["data"][q] = sp[q].out
    BY <1>6, <2>1 DEF Stayed, Agree
  <2>2. \A f \in Three : \A q \in Pins : f \in m.changed \/ Shows(m, f, q) = m.r[f][q]
    BY <1>6 DEF Stayed, Agree
  <2>3. Agree(m, sp) BY <1>4, <2>1, <2>2 DEF Agree
  <2> QED BY <1>1, <2>3 DEF Moved, m
<1> QED BY <1>1, <1>5, <1>6 DEF Moved

(* One turn changes what is asked, at its pin.                             *)
NewVal(m, u) ==
  [f \in Fields |-> IF Asks(u, f) THEN [m.val[f] EXCEPT ![u.pin] = FieldValue(u, f)] ELSE m.val[f]]

(* The locals with the fields that a setting asks.                         *)
LEMMA NewValFacts ==
  ASSUME NEW m, Loaded(m), NEW u \in Settings, m.pre = u.pin
  PROVE  /\ \A f \in Fields : NewVal(m, u)[f] \in [InGroup(f, u.pin) -> Int]
         /\ \A f \in Fields : \A q \in InGroup(f, u.pin) :
              NewVal(m, u)[f][q] = IF q = u.pin /\ Asks(u, f) THEN FieldValue(u, f) ELSE m.val[f][q]
<1> DEFINE val == NewVal(m, u)
<1>1. ASSUME NEW f \in Fields
      PROVE  /\ val[f] \in [InGroup(f, u.pin) -> Int]
             /\ \A q \in InGroup(f, u.pin) :
                  val[f][q] = IF q = u.pin /\ Asks(u, f) THEN FieldValue(u, f) ELSE m.val[f][q]
  <2>1. m.val[f] \in [InGroup(f, u.pin) -> Int] BY DEF Loaded
  <2>2. FieldValue(u, f) \in Int BY FieldNames DEF FieldValue, Settings
  <2>3. val[f] = IF Asks(u, f) THEN [m.val[f] EXCEPT ![u.pin] = FieldValue(u, f)] ELSE m.val[f]
    BY DEF NewVal
  <2>4. u.pin \in InGroup(f, u.pin) BY DEF InGroup, Loaded
  <2> HIDE DEF val
  <2>5. CASE Asks(u, f) BY <2>1, <2>2, <2>3, <2>4, <2>5
  <2>6. CASE ~Asks(u, f) BY <2>1, <2>3, <2>6
  <2> QED BY <2>5, <2>6
<1> QED BY <1>1

AskedFields(u) == {f \in Fields : Asks(u, f)}

(* What a turn asks is what AskedOf says, field by field.                  *)
LEMMA AskedFacts ==
  ASSUME NEW sp \in Specs, NEW u \in Settings
  PROVE  /\ AskedOf(sp, u) \in Specs
         /\ \A f \in Three : AskedOf(sp, u)[f] = IF Asks(u, f) THEN FieldValue(u, f) ELSE sp[f]
         /\ AskedOf(sp, u).out # Unknown =>
              \/ /\ Asks(u, "data") /\ AskedOf(sp, u).out = FieldValue(u, "data")
                 /\ AskedOf(sp, u).func = 1
              \/ /\ ~Asks(u, "data") /\ AskedOf(sp, u).out = sp.out
                 /\ (sp.func = 1 => AskedOf(sp, u).func = 1)
<1> DEFINE a == AskedOf(sp, u)
<1>1. u.mul_sel \in Int /\ u.pull \in Int /\ u.drv_level \in Int /\ u.data \in Int
      /\ u.mul_sel < 8 /\ u.pull < 4 /\ u.drv_level < 4
  BY DEF Settings
<1>2. sp.func \in Int /\ sp.pull \in Int /\ sp.dlevel \in Int /\ sp.out \in Int BY DEF Specs
<1>3. a = [func |-> IF u.mul_sel >= 0 THEN u.mul_sel ELSE sp.func,
           pull |-> IF u.pull >= 0 THEN u.pull ELSE sp.pull,
           dlevel |-> IF u.drv_level >= 0 THEN u.drv_level ELSE sp.dlevel,
           out |-> IF u.mul_sel >= 0 THEN Drive(sp, u.mul_sel, u.data) ELSE sp.out]
  BY DEF AskedOf
<1>4. Drive(sp, u.mul_sel, u.data) \in Int BY <1>1, <1>2 DEF Drive, Unknown
<1>5. a \in Specs BY <1>1, <1>2, <1>3, <1>4 DEF Specs
<1>6. /\ Asks(u, "func") = (u.mul_sel >= 0) /\ Asks(u, "pull") = (u.pull >= 0)
      /\ Asks(u, "dlevel") = (u.drv_level >= 0) /\ Asks(u, "data") = (u.mul_sel = 1 /\ u.data >= 0)
  BY DEF Asks
<1>7. /\ FieldValue(u, "func") = u.mul_sel % 8 /\ FieldValue(u, "pull") = u.pull % 4
      /\ FieldValue(u, "dlevel") = u.drv_level % 4 /\ FieldValue(u, "data") = u.data % 2
  BY DEF FieldValue
<1>8. /\ u.mul_sel >= 0 => u.mul_sel % 8 = u.mul_sel
      /\ u.pull >= 0 => u.pull % 4 = u.pull
      /\ u.drv_level >= 0 => u.drv_level % 4 = u.drv_level
  BY <1>1
<1> HIDE DEF a
<1>9. ASSUME NEW f \in Three PROVE a[f] = IF Asks(u, f) THEN FieldValue(u, f) ELSE sp[f]
  <2>1. f = "func" \/ f = "pull" \/ f = "dlevel" BY FieldNames
  <2>2. a.func = IF Asks(u, "func") THEN FieldValue(u, "func") ELSE sp.func BY <1>3, <1>6, <1>7, <1>8
  <2>3. a.pull = IF Asks(u, "pull") THEN FieldValue(u, "pull") ELSE sp.pull BY <1>3, <1>6, <1>7, <1>8
  <2>4. a.dlevel = IF Asks(u, "dlevel") THEN FieldValue(u, "dlevel") ELSE sp.dlevel BY <1>3, <1>6, <1>7, <1>8
  <2> QED BY <2>1, <2>2, <2>3, <2>4
<1>10. ASSUME a.out # Unknown
       PROVE  \/ Asks(u, "data") /\ a.out = FieldValue(u, "data") /\ a.func = 1
              \/ ~Asks(u, "data") /\ a.out = sp.out /\ (sp.func = 1 => a.func = 1)
  <2>1. CASE u.mul_sel >= 0
    <3>1. a.out = Drive(sp, u.mul_sel, u.data) /\ a.func = u.mul_sel BY <1>3, <2>1
    <3>2. u.mul_sel = 1 BY <1>10, <3>1 DEF Drive
    <3> QED BY <1>1, <1>6, <1>7, <1>10, <3>1, <3>2 DEF Drive
  <2>2. CASE ~(u.mul_sel >= 0)
    <3>1. u.mul_sel # 1 BY <1>1, <2>2
    <3> QED BY <1>3, <1>6, <2>2, <3>1
  <2> QED BY <2>1, <2>2
<1> QED BY <1>5, <1>9, <1>10 DEF a

(* The locals are as asked with one setting more.                          *)
LEMMA AskAgree ==
  ASSUME NEW m, Loaded(m), NEW u \in Settings, m.pre = u.pin, u.pin \in Pins,
         NEW sp \in [Pins -> Specs], Agree(m, sp), NEW e, NEW n,
         n = [r |-> m.r, pre |-> m.pre, group |-> m.group, val |-> NewVal(m, u),
              changed |-> m.changed \cup AskedFields(u), entries |-> e]
  PROVE  Loaded(n) /\ Agree(n, [sp EXCEPT ![u.pin] = AskedOf(sp[u.pin], u)])
<1> DEFINE p == u.pin
           to == [sp EXCEPT ![p] = AskedOf(sp[p], u)]
<1>1. /\ \A f \in Fields : NewVal(m, u)[f] \in [InGroup(f, u.pin) -> Int]
      /\ \A f \in Fields : \A q \in InGroup(f, u.pin) :
           NewVal(m, u)[f][q] = IF q = u.pin /\ Asks(u, f) THEN FieldValue(u, f) ELSE m.val[f][q]
  BY NewValFacts
<1>2. /\ n.r = m.r /\ n.pre = m.pre /\ n.group = m.group /\ n.val = NewVal(m, u)
      /\ n.changed = m.changed \cup AskedFields(u) /\ n.entries = e
      /\ n = [r |-> n.r, pre |-> n.pre, group |-> n.group, val |-> n.val, changed |-> n.changed,
              entries |-> n.entries]
  OBVIOUS
<1>3. Loaded(n)
  <2>1. IsLocals(m) /\ m.pre \in Pins /\ m.group = [f \in Fields |-> Group(f, m.pre)] BY DEF Loaded
  <2>2. IsLocals(n) BY <1>2, <2>1 DEF IsLocals, AskedFields
  <2>3. NewVal(m, u) = [f \in Fields |-> NewVal(m, u)[f]] BY DEF NewVal
  <2> QED BY <1>1, <1>2, <2>1, <2>2, <2>3 DEF Loaded
<1>4. p # NoPin /\ n.pre = p /\ p \in Pins BY <1>2, PinAssumption
<1>5. ASSUME NEW f \in Fields, NEW q \in Pins
      PROVE  Shows(n, f, q) = IF q = p /\ Asks(u, f) THEN FieldValue(u, f) ELSE Shows(m, f, q)
  <2>1. CASE Group(f, q) = Group(f, p)
    <3>1. q \in InGroup(f, p) BY <2>1 DEF InGroup
    <3> QED BY <1>1, <1>2, <1>4, <2>1, <3>1 DEF Shows
  <2>2. CASE Group(f, q) # Group(f, p)
    <3>1. q # p BY <2>2
    <3> QED BY <1>2, <1>4, <2>2, <3>1 DEF Shows
  <2> QED BY <2>1, <2>2
<1>6. /\ AskedOf(sp[p], u) \in Specs
      /\ \A f \in Three : AskedOf(sp[p], u)[f] = IF Asks(u, f) THEN FieldValue(u, f) ELSE sp[p][f]
      /\ AskedOf(sp[p], u).out # Unknown =>
           \/ /\ Asks(u, "data") /\ AskedOf(sp[p], u).out = FieldValue(u, "data")
              /\ AskedOf(sp[p], u).func = 1
           \/ /\ ~Asks(u, "data") /\ AskedOf(sp[p], u).out = sp[p].out
              /\ (sp[p].func = 1 => AskedOf(sp[p], u).func = 1)
  <2>1. sp[p] \in Specs OBVIOUS
  <2> QED BY <2>1, AskedFacts
<1>7. to[p] = AskedOf(sp[p], u) /\ \A q \in Pins : q # p => to[q] = sp[q] OBVIOUS
<1> HIDE DEF to
<1>8. ASSUME NEW f \in Three, NEW q \in Pins PROVE Shows(n, f, q) = to[q][f]
  <2>1. f \in Fields BY FieldNames
  <2>2. Shows(m, f, q) = sp[q][f] BY DEF Agree
  <2> QED BY <1>5, <1>6, <1>7, <2>1, <2>2
<1>9. ASSUME NEW f \in Three, NEW q \in Pins PROVE f \in n.changed \/ Shows(n, f, q) = n.r[f][q]
  <2>1. f \in Fields BY FieldNames
  <2>2. f \in m.changed \/ Shows(m, f, q) = m.r[f][q] BY DEF Agree
  <2> QED BY <1>2, <1>5, <2>1, <2>2 DEF AskedFields
<1>10. ASSUME NEW q \in Pins, to[q].out # Unknown
       PROVE  /\ to[q].func = 1 /\ Shows(n, "data", q) = to[q].out
              /\ "data" \in n.changed \/ n.r["data"][q] = to[q].out
  <2>1. "data" \in Fields BY FieldNames
  <2>2. sp[q].out # Unknown =>
          /\ sp[q].func = 1 /\ Shows(m, "data", q) = sp[q].out
          /\ "data" \in m.changed \/ m.r["data"][q] = sp[q].out
    BY DEF Agree
  <2>3. CASE q # p BY <1>2, <1>5, <1>7, <1>10, <2>1, <2>2, <2>3
  <2>4. CASE q = p
    <3>1. CASE Asks(u, "data")
      BY <1>2, <1>5, <1>6, <1>7, <1>10, <2>1, <2>4, <3>1 DEF AskedFields
    <3>2. CASE ~Asks(u, "data")
      <4>1. to[p].out = sp[p].out /\ (sp[p].func = 1 => to[p].func = 1)
        BY <1>6, <1>7, <1>10, <2>4, <3>2
      <4> QED BY <1>2, <1>5, <1>10, <2>1, <2>2, <2>4, <3>2, <4>1
    <3> QED BY <3>1, <3>2
  <2> QED BY <2>3, <2>4
<1> QED BY <1>3, <1>8, <1>9, <1>10 DEF Agree, to

NewEntry(m, u) ==
  [user |-> u, pull |-> IF Asks(u, "pull") THEN m.val["pull"][u.pin] ELSE 0,
   dlevel |-> IF Asks(u, "dlevel") THEN m.val["dlevel"][u.pin] ELSE 0, before |-> pinSpec[u.pin]]

(* One turn of gpio_request, as a record.                                  *)
LEMMA RequestPinIs ==
  ASSUME NEW s, NEW u, IsLocals(Move(s, u.pin, s.changed)), u.pin # NoPin
  PROVE  LET m == Move(s, u.pin, s.changed)
         IN  RequestPin(s, u)
               = [r |-> m.r, pre |-> m.pre, group |-> m.group, val |-> NewVal(m, u),
                  changed |-> m.changed \cup AskedFields(u),
                  entries |-> Append(m.entries, NewEntry(m, u))]
<1> DEFINE m == Move(s, u.pin, s.changed)
           val == NewVal(m, u)
           entry == NewEntry(m, u)
<1>1. RequestPin(s, u)
        = [m EXCEPT !.val = val, !.changed = @ \cup AskedFields(u), !.entries = Append(@, entry)]
  BY DEF RequestPin, NewVal, AskedFields, NewEntry
<1> HIDE DEF m, val, entry
<1>2. IsLocals(m) BY DEF m
<1>3. m = [r |-> m.r, pre |-> m.pre, group |-> m.group, val |-> m.val, changed |-> m.changed,
           entries |-> m.entries]
  BY <1>2 DEF IsLocals
<1>4. RequestPin(s, u)
        = [r |-> m.r, pre |-> m.pre, group |-> m.group, val |-> val,
           changed |-> m.changed \cup AskedFields(u), entries |-> Append(m.entries, entry)]
  BY <1>1, <1>3
<1> QED BY <1>4 DEF m, val, entry

(* What a handle keeps of a pin.                                           *)
Entry0(e) ==
  /\ e.user \in Settings /\ e.user.pin \in Pins /\ e.before \in Specs
  /\ e.pull = IF e.user.pull >= 0 THEN e.before.pull ELSE 0
  /\ e.dlevel = IF e.user.drv_level >= 0 THEN e.before.dlevel ELSE 0

PinsDiffer(list) ==
  \A i, j \in 1..Len(list) : i # j /\ list[i].pin = list[j].pin => list[i].pin = NoPin
NamesDiffer(list) == \A i, j \in 1..Len(list) : list[i].name = list[j].name => i = j

(* What the first i entries of a list ask.                                 *)
SpecAt(list, i) ==
  [p \in Pins |->
     IF \E j \in 1..i : list[j].pin = p
     THEN AskedOf(pinSpec[p], list[CHOOSE j \in 1..i : list[j].pin = p]) ELSE pinSpec[p]]

(* The pins of the first entries are asked what these entries say, the     *)
(* others are not.                                                         *)
LEMMA SpecAtFacts ==
  ASSUME NEW list \in Seq(Settings), PinsDiffer(list), pinSpec \in [Pins -> Specs],
         NEW i \in 0..Len(list)
  PROVE  /\ SpecAt(list, i) \in [Pins -> Specs]
         /\ \A j \in 1..i : list[j].pin \in Pins =>
              SpecAt(list, i)[list[j].pin] = AskedOf(pinSpec[list[j].pin], list[j])
         /\ \A p \in Pins : (\A j \in 1..i : list[j].pin # p) => SpecAt(list, i)[p] = pinSpec[p]
<1>1. \A j \in 1..i : j \in 1..Len(list) /\ list[j] \in Settings OBVIOUS
<1>2. ASSUME NEW p \in Pins, NEW j \in 1..i, list[j].pin = p
      PROVE  SpecAt(list, i)[p] = AskedOf(pinSpec[p], list[j])
  <2>1. \A k \in 1..i : list[k].pin = p => k = j BY <1>1, <1>2, PinAssumption DEF PinsDiffer
  <2>2. (CHOOSE k \in 1..i : list[k].pin = p) = j BY <1>2, <2>1
  <2> QED BY <1>2, <2>2 DEF SpecAt
<1>3. ASSUME NEW p \in Pins, \A j \in 1..i : list[j].pin # p PROVE SpecAt(list, i)[p] = pinSpec[p]
  BY <1>3 DEF SpecAt
<1>4. ASSUME NEW p \in Pins PROVE SpecAt(list, i)[p] \in Specs
  <2>1. CASE \E j \in 1..i : list[j].pin = p
    <3>1. PICK j \in 1..i : list[j].pin = p BY <2>1
    <3>2. SpecAt(list, i)[p] = AskedOf(pinSpec[p], list[j]) BY <1>2, <3>1
    <3>3. pinSpec[p] \in Specs /\ list[j] \in Settings BY <1>1
    <3> QED BY <3>2, <3>3, AskedFacts
  <2>2. CASE ~ \E j \in 1..i : list[j].pin = p BY <1>3, <2>2
  <2> QED BY <2>1, <2>2
<1>5. SpecAt(list, i) = [p \in Pins |-> SpecAt(list, i)[p]] BY DEF SpecAt
<1> QED BY <1>2, <1>3, <1>4, <1>5

(* One entry more changes what is asked of its own pin, and an unused      *)
(* entry nothing.                                                          *)
LEMMA SpecAtNext ==
  ASSUME NEW list \in Seq(Settings), PinsDiffer(list), pinSpec \in [Pins -> Specs],
         NEW i \in 1..Len(list)
  PROVE  /\ list[i].pin \in Pins =>
              SpecAt(list, i) = [SpecAt(list, i - 1) EXCEPT ![list[i].pin]
                                   = AskedOf(SpecAt(list, i - 1)[list[i].pin], list[i])]
         /\ list[i].pin = NoPin => SpecAt(list, i) = SpecAt(list, i - 1)
<1> DEFINE a == SpecAt(list, i - 1)
           b == SpecAt(list, i)
           p == list[i].pin
<1>1. i - 1 \in 0..Len(list) /\ i \in 0..Len(list) OBVIOUS
<1>2. /\ a \in [Pins -> Specs]
      /\ \A j \in 1..(i - 1) : list[j].pin \in Pins => a[list[j].pin] = AskedOf(pinSpec[list[j].pin], list[j])
      /\ \A q \in Pins : (\A j \in 1..(i - 1) : list[j].pin # q) => a[q] = pinSpec[q]
  BY <1>1, SpecAtFacts
<1>3. /\ b \in [Pins -> Specs]
      /\ \A j \in 1..i : list[j].pin \in Pins => b[list[j].pin] = AskedOf(pinSpec[list[j].pin], list[j])
      /\ \A q \in Pins : (\A j \in 1..i : list[j].pin # q) => b[q] = pinSpec[q]
  BY <1>1, SpecAtFacts
<1> HIDE DEF a, b
<1>4. ASSUME NEW q \in Pins, q # p PROVE b[q] = a[q]
  <2>1. CASE \E j \in 1..(i - 1) : list[j].pin = q
    <3>1. PICK j \in 1..(i - 1) : list[j].pin = q BY <2>1
    <3>2. j \in 1..i OBVIOUS
    <3> QED BY <1>2, <1>3, <3>1, <3>2
  <2>2. CASE ~ \E j \in 1..(i - 1) : list[j].pin = q
    <3>1. \A j \in 1..i : j \in 1..(i - 1) \/ j = i OBVIOUS
    <3>2. \A j \in 1..i : list[j].pin # q BY <1>4, <2>2, <3>1
    <3> QED BY <1>2, <1>3, <2>2, <3>2
  <2> QED BY <2>1, <2>2
<1>5. ASSUME p \in Pins PROVE b[p] = AskedOf(a[p], list[i])
  <2>1. \A j \in 1..(i - 1) : list[j].pin # p
    <3> TAKE j \in 1..(i - 1)
    <3>1. j \in 1..Len(list) /\ i \in 1..Len(list) /\ j # i OBVIOUS
    <3> QED BY <1>5, <3>1, PinAssumption DEF PinsDiffer
  <2>2. a[p] = pinSpec[p] BY <1>2, <1>5, <2>1
  <2>3. i \in 1..i OBVIOUS
  <2> QED BY <1>3, <1>5, <2>2, <2>3
<1>6. p \in Pins => b = [a EXCEPT ![p] = AskedOf(a[p], list[i])]
  <2> DEFINE v == AskedOf(a[p], list[i])
  <2> SUFFICES ASSUME p \in Pins PROVE b = [a EXCEPT ![p] = v] OBVIOUS
  <2>1. b[p] = v BY <1>5
  <2> HIDE DEF v, p
  <2> QED BY <1>2, <1>3, <1>4, <2>1
<1>7. p = NoPin => b = a BY <1>2, <1>3, <1>4, PinAssumption
<1> QED BY <1>6, <1>7 DEF a, b

EntrySet == [user : Settings, pull : Int, dlevel : Int, before : Specs]

(* The registers hold what was asked.                                      *)
RegistersKept(reg, sp) ==
  /\ \A f \in Three : \A q \in Pins : reg[f][q] = sp[q][f]
  /\ \A q \in Pins : sp[q].out # Unknown => sp[q].func = 1 /\ reg["data"][q] = sp[q].out

(* Types, and that no call is under way: the registers hold what was       *)
(* asked.                                                                  *)
PinTypes ==
  /\ pio \in Regs /\ pinLevel \in [Pins -> Int] /\ pinSpec \in [Pins -> Specs]
  /\ RegistersKept(pio, pinSpec)

(* The entries made so far: different ones from different settings of the  *)
(* list.                                                                   *)
FromList(h, list, i) ==
  /\ h \in Seq(EntrySet)
  /\ \A a \in 1..Len(h) : Entry0(h[a]) /\ \E k \in 1..i : h[a].user = list[k]
  /\ \A a, b \in 1..Len(h) :
       a # b => \E k, l \in 1..i : k # l /\ h[a].user = list[k] /\ h[b].user = list[l]

(* After the first i settings of a list.                                   *)
Requested(s, list, i) ==
  /\ Ready(s) /\ Agree(s, SpecAt(list, i)) /\ FromList(s.entries, list, i)
  /\ (\E k \in 1..i : list[k].pin # NoPin) => Loaded(s) /\ s.entries # <<>>

(* Before the first pin the locals show the registers.                     *)
LEMMA LocalsFacts ==
  ASSUME PinTypes
  PROVE  /\ Ready(Locals(pio)) /\ Locals(pio).entries = <<>> /\ Locals(pio).r = pio
         /\ \A f \in Fields : \A q \in Pins : Shows(Locals(pio), f, q) = pio[f][q]
<1> DEFINE s == Locals(pio)
<1>1. s = [r |-> pio, pre |-> NoPin, group |-> <<>>, val |-> <<>>, changed |-> {}, entries |-> <<>>]
  BY DEF Locals
<1> HIDE DEF s
<1>2. s.r = pio /\ s.pre = NoPin /\ s.changed = {} /\ s.entries = <<>> BY <1>1
<1>3. s = [r |-> s.r, pre |-> s.pre, group |-> s.group, val |-> s.val, changed |-> s.changed,
           entries |-> s.entries]
  BY <1>1
<1>4. Ready(s) BY <1>2, <1>3 DEF Ready, IsLocals, PinTypes
<1>5. \A f \in Fields : \A q \in Pins : Shows(s, f, q) = pio[f][q] BY <1>2 DEF Shows
<1> QED BY <1>2, <1>4, <1>5 DEF s

(* The loop of gpio_request: before its first turn,                        *)
LEMMA RequestedFirst ==
  ASSUME PinTypes, NEW list \in Seq(Settings), PinsDiffer(list)
  PROVE  Requested(Locals(pio), list, 0)
<1> DEFINE s == Locals(pio)
<1>1. /\ Ready(s) /\ s.entries = <<>> /\ s.r = pio
      /\ \A f \in Fields : \A q \in Pins : Shows(s, f, q) = pio[f][q]
  BY LocalsFacts
<1>2. SpecAt(list, 0) = pinSpec
  <2>1. 0 \in 0..Len(list) OBVIOUS
  <2>2. SpecAt(list, 0) \in [Pins -> Specs] /\ \A p \in Pins : SpecAt(list, 0)[p] = pinSpec[p]
    BY <2>1, SpecAtFacts DEF PinTypes
  <2> QED BY <2>2 DEF PinTypes
<1> HIDE DEF s
<1>3. ASSUME NEW f \in Three, NEW q \in Pins PROVE Shows(s, f, q) = pinSpec[q][f] /\ s.r[f][q] = pinSpec[q][f]
  <2>1. f \in Fields BY FieldNames
  <2> QED BY <1>1, <2>1 DEF PinTypes, RegistersKept
<1>4. ASSUME NEW q \in Pins, pinSpec[q].out # Unknown
      PROVE  pinSpec[q].func = 1 /\ Shows(s, "data", q) = pinSpec[q].out /\ s.r["data"][q] = pinSpec[q].out
  BY <1>1, <1>4, FieldNames DEF PinTypes, RegistersKept
<1>5. Agree(s, pinSpec) BY <1>3, <1>4 DEF Agree
<1>6. FromList(s.entries, list, 0) BY <1>1 DEF FromList
<1> QED BY <1>1, <1>2, <1>5, <1>6 DEF Requested, s

(* after each turn,                                                        *)
LEMMA RequestedNext ==
  ASSUME PinTypes, NEW list \in Seq(Settings), PinsDiffer(list), NEW i \in 1..Len(list),
         NEW s, Requested(s, list, i - 1)
  PROVE  Requested(RequestPin(s, list[i]), list, i)
<1> DEFINE u == list[i]
           m == Move(s, u.pin, s.changed)
           n == RequestPin(s, u)
<1>1. u \in Settings /\ u.pin \in Pins \cup {NoPin}
  <2>1. u \in Settings OBVIOUS
  <2> HIDE DEF u
  <2> QED BY <2>1 DEF Settings
<1>2. /\ Ready(s) /\ Agree(s, SpecAt(list, i - 1)) /\ FromList(s.entries, list, i - 1)
      /\ (\E k \in 1..(i - 1) : list[k].pin # NoPin) => Loaded(s) /\ s.entries # <<>>
  BY DEF Requested
<1>3. i - 1 \in 0..Len(list) /\ i - 1 \in Nat /\ i \in Nat /\ 1..(i - 1) \subseteq 1..i OBVIOUS
<1>4. \A k \in 1..i : k \in 1..(i - 1) \/ k = i OBVIOUS
<1>5. CASE u.pin = NoPin
  <2>1. n = s BY <1>5 DEF RequestPin
  <2>2. SpecAt(list, i) = SpecAt(list, i - 1) BY <1>5, SpecAtNext DEF PinTypes
  <2>3. FromList(s.entries, list, i)
    <3>1. ASSUME NEW x \in 1..Len(s.entries), NEW y \in 1..Len(s.entries), x # y
          PROVE  \E k, l \in 1..i : k # l /\ s.entries[x].user = list[k] /\ s.entries[y].user = list[l]
      <4>1. PICK k, l \in 1..(i - 1) : k # l /\ s.entries[x].user = list[k] /\ s.entries[y].user = list[l]
        BY <1>2, <3>1 DEF FromList
      <4>2. k \in 1..i /\ l \in 1..i OBVIOUS
      <4> QED BY <4>1, <4>2
    <3>2. ASSUME NEW x \in 1..Len(s.entries)
          PROVE  Entry0(s.entries[x]) /\ \E k \in 1..i : s.entries[x].user = list[k]
      BY <1>2, <1>3 DEF FromList
    <3> QED BY <1>2, <3>1, <3>2 DEF FromList
  <2>4. (\E k \in 1..i : list[k].pin # NoPin) => (\E k \in 1..(i - 1) : list[k].pin # NoPin)
    BY <1>4, <1>5
  <2> QED BY <1>2, <2>1, <2>2, <2>3, <2>4 DEF Requested
<1>6. CASE u.pin \in Pins
  <2> DEFINE a == SpecAt(list, i - 1)
             h == s.entries
             e == NewEntry(m, u)
  <2>1. a \in [Pins -> Specs] BY <1>3, SpecAtFacts DEF PinTypes
  <2>2. Loaded(m) /\ m.pre = u.pin /\ m.entries = h /\ Agree(m, a)
    BY <1>2, <1>6, <2>1, MoveAgree DEF PinTypes
  <2>3. u.pin # NoPin BY <1>6, PinAssumption
  <2>4. IsLocals(m) BY <2>2 DEF Loaded
  <2>5. n = [r |-> m.r, pre |-> m.pre, group |-> m.group, val |-> NewVal(m, u),
             changed |-> m.changed \cup AskedFields(u), entries |-> Append(m.entries, e)]
    BY <2>3, <2>4, RequestPinIs
  <2> HIDE DEF n
  <2>6. Loaded(n) /\ Agree(n, [a EXCEPT ![u.pin] = AskedOf(a[u.pin], u)])
    <3> HIDE DEF m, a, u, e
    <3> QED BY <1>1, <1>6, <2>1, <2>2, <2>5, AskAgree
  <2>7. SpecAt(list, i) = [a EXCEPT ![u.pin] = AskedOf(a[u.pin], u)]
    BY <1>6, SpecAtNext DEF PinTypes
  <2>8. a[u.pin] = pinSpec[u.pin]
    <3>1. \A j \in 1..(i - 1) : list[j].pin # u.pin
      <4> TAKE j \in 1..(i - 1)
      <4>1. j \in 1..Len(list) /\ i \in 1..Len(list) /\ j # i OBVIOUS
      <4> QED BY <2>3, <4>1 DEF PinsDiffer
    <3> QED BY <1>3, <1>6, <3>1, SpecAtFacts DEF PinTypes
  <2>9. \A f \in Three : m.val[f][u.pin] = pinSpec[u.pin][f]
    <3>1. \A f \in Three : Shows(m, f, u.pin) = a[u.pin][f] BY <1>6, <2>2 DEF Agree
    <3> QED BY <2>2, <2>3, <2>8, <3>1 DEF Shows
  <2>10. e \in EntrySet /\ Entry0(e) /\ e.user = u
    <3>1. e = [user |-> u, pull |-> IF Asks(u, "pull") THEN m.val["pull"][u.pin] ELSE 0,
               dlevel |-> IF Asks(u, "dlevel") THEN m.val["dlevel"][u.pin] ELSE 0,
               before |-> pinSpec[u.pin]]
      BY DEF NewEntry
    <3>2. Asks(u, "pull") = (u.pull >= 0) /\ Asks(u, "dlevel") = (u.drv_level >= 0) BY DEF Asks
    <3>3. m.val["pull"][u.pin] = pinSpec[u.pin].pull /\ m.val["dlevel"][u.pin] = pinSpec[u.pin].dlevel
      BY <2>9, FieldNames
    <3>4. pinSpec[u.pin] \in Specs BY <1>6 DEF PinTypes
    <3>5. pinSpec[u.pin].pull \in Int /\ pinSpec[u.pin].dlevel \in Int BY <3>4 DEF Specs
    <3> HIDE DEF e, m, u
    <3>6. /\ e.user = u /\ e.before = pinSpec[u.pin]
          /\ e.pull = IF u.pull >= 0 THEN pinSpec[u.pin].pull ELSE 0
          /\ e.dlevel = IF u.drv_level >= 0 THEN pinSpec[u.pin].dlevel ELSE 0
      BY <3>1, <3>2, <3>3
    <3>7. e.pull \in Int /\ e.dlevel \in Int BY <3>5, <3>6
    <3>8. e \in EntrySet BY <1>1, <3>1, <3>4, <3>6, <3>7 DEF EntrySet
    <3> QED BY <1>1, <1>6, <3>4, <3>6, <3>8 DEF Entry0
  <2>11. n.entries = Append(h, e) BY <2>2, <2>5
  <2>12. FromList(n.entries, list, i)
    <3>1. /\ h \in Seq(EntrySet)
          /\ \A x \in 1..Len(h) : Entry0(h[x]) /\ \E k \in 1..(i - 1) : h[x].user = list[k]
          /\ \A x, y \in 1..Len(h) :
               x # y => \E k, l \in 1..(i - 1) : k # l /\ h[x].user = list[k] /\ h[y].user = list[l]
      BY <1>2 DEF FromList
    <3> HIDE DEF h, e, u, m
    <3> DEFINE g == Append(h, e)
    <3>2. /\ g \in Seq(EntrySet) /\ Len(g) = Len(h) + 1 /\ g[Len(h) + 1] = e
          /\ \A x \in 1..Len(h) : g[x] = h[x]
          /\ Len(h) \in Nat
      BY <2>10, <3>1
    <3> HIDE DEF g
    <3>3. \A x \in 1..Len(g) : x \in 1..Len(h) \/ x = Len(h) + 1 BY <3>2
    <3>4. i \in 1..i /\ list[i] = u BY DEF u
    <3>5. ASSUME NEW x \in 1..Len(g) PROVE Entry0(g[x]) /\ \E k \in 1..i : g[x].user = list[k]
      <4>1. CASE x \in 1..Len(h) BY <1>3, <3>1, <3>2, <4>1
      <4>2. CASE x = Len(h) + 1 BY <2>10, <3>2, <3>4, <4>2
      <4> QED BY <3>3, <4>1, <4>2
    <3>6. ASSUME NEW x \in 1..Len(g), NEW y \in 1..Len(g), x # y
          PROVE  \E k, l \in 1..i : k # l /\ g[x].user = list[k] /\ g[y].user = list[l]
      <4>1. CASE x \in 1..Len(h) /\ y \in 1..Len(h)
        <5>1. PICK k, l \in 1..(i - 1) : k # l /\ h[x].user = list[k] /\ h[y].user = list[l]
          BY <3>1, <3>6, <4>1
        <5>2. k \in 1..i /\ l \in 1..i OBVIOUS
        <5> QED BY <3>2, <4>1, <5>1, <5>2
      <4>2. CASE x \in 1..Len(h) /\ y = Len(h) + 1
        <5>1. PICK k \in 1..(i - 1) : h[x].user = list[k] BY <3>1, <4>2
        <5>2. k \in 1..i /\ k # i BY <1>3
        <5>3. g[x].user = list[k] /\ g[y].user = list[i] BY <2>10, <3>2, <3>4, <4>2, <5>1
        <5> QED BY <3>4, <5>2, <5>3
      <4>3. CASE y \in 1..Len(h) /\ x = Len(h) + 1
        <5>1. PICK k \in 1..(i - 1) : h[y].user = list[k] BY <3>1, <4>3
        <5>2. k \in 1..i /\ k # i BY <1>3
        <5>3. g[y].user = list[k] /\ g[x].user = list[i] BY <2>10, <3>2, <3>4, <4>3, <5>1
        <5> QED BY <3>4, <5>2, <5>3
      <4> QED BY <3>3, <3>6, <4>1, <4>2, <4>3
    <3>7. FromList(g, list, i) BY <3>2, <3>5, <3>6 DEF FromList
    <3> QED BY <2>11, <3>7 DEF g
  <2>13. n.entries # <<>>
    <3>1. h \in Seq(EntrySet) BY <1>2 DEF FromList
    <3> HIDE DEF h, e
    <3> QED BY <2>10, <2>11, <3>1
  <2>14. Ready(n) BY <2>6 DEF Ready, Loaded
  <2> QED BY <2>6, <2>7, <2>12, <2>13, <2>14 DEF Requested, n
<1> QED BY <1>1, <1>5, <1>6

(* and after the last.                                                     *)
LEMMA RequestedAll ==
  ASSUME PinTypes, NEW list \in Seq(Settings), PinsDiffer(list)
  PROVE  Requested(RequestPins(list), list, Len(list))
<1>0. Len(list) \in Nat OBVIOUS
<1>1. PICK turn : /\ turn[0] = Locals(pio) /\ RequestPins(list) = turn[Len(list)]
                  /\ \A i \in 1..Len(list) : turn[i] = RequestPin(turn[i - 1], list[i])
  BY <1>0, RequestTurns
<1> DEFINE Bad == {i \in 0..Len(list) : ~Requested(turn[i], list, i)}
<1>2. Bad = {}
  <2> SUFFICES ASSUME Bad # {} PROVE FALSE OBVIOUS
  <2>1. PICK i \in Bad : \A y \in Bad : i <= y
    <3>1. Bad \subseteq Nat BY <1>0
    <3> HIDE DEF Bad
    <3> QED BY <3>1, LeastOf
  <2>2. i \in 0..Len(list) /\ ~Requested(turn[i], list, i) BY <2>1
  <2>3. i # 0 BY <1>1, <2>2, RequestedFirst
  <2>4. i \in 1..Len(list) /\ i - 1 \in 0..Len(list) /\ ~(i <= i - 1) BY <1>0, <2>2, <2>3
  <2>5. Requested(turn[i - 1], list, i - 1) BY <2>1, <2>4
  <2>6. Requested(turn[i], list, i) BY <1>1, <2>4, <2>5, RequestedNext
  <2> QED BY <2>2, <2>6
<1>3. Len(list) \in 0..Len(list) BY <1>0
<1> QED BY <1>1, <1>2, <1>3

(* The loop of gpio_release is a recursive function in the same way.       *)
LEMMA ReleaseTurns ==
  ASSUME NEW list, Len(list) \in Nat
  PROVE  \E turn : /\ turn[0] = Locals(pio) /\ ReleasePins(list) = turn[Len(list)]
                   /\ \A i \in 1..Len(list) : turn[i] = ReleasePin(turn[i - 1], list[i])
<1> DEFINE N == Len(list)
           L == Locals(pio)
           Is(g, n) == g = [i \in 0..n |-> IF i = 0 THEN L ELSE ReleasePin(g[i - 1], list[i])]
           turn == CHOOSE g : Is(g, N)
           Bad == {n \in 0..N : ~ \E g : Is(g, n)}
<1> HIDE DEF L
<1>1. Bad = {}
  <2> SUFFICES ASSUME Bad # {} PROVE FALSE OBVIOUS
  <2>1. PICK n \in Bad : \A y \in Bad : n <= y
    <3>1. Bad \subseteq Nat OBVIOUS
    <3> HIDE DEF Bad
    <3> QED BY <3>1, LeastOf
  <2>2. n \in 0..N /\ ~ \E g : Is(g, n) BY <2>1
  <2>3. CASE n = 0
    <3> DEFINE g == [i \in 0..0 |-> L]
    <3>1. Is(g, 0) OBVIOUS
    <3> QED BY <2>2, <2>3, <3>1
  <2>4. CASE n # 0
    <3>1. n - 1 \in 0..N /\ ~(n <= n - 1) BY <2>2, <2>4
    <3>2. n - 1 \notin Bad BY <2>1, <3>1
    <3>3. PICK h : Is(h, n - 1) BY <3>1, <3>2
    <3> DEFINE g == [i \in 0..n |-> IF i = 0 THEN L ELSE ReleasePin(h[i - 1], list[i])]
               e == [i \in 0..n |-> IF i = 0 THEN L ELSE ReleasePin(g[i - 1], list[i])]
    <3>4. \A i \in 0..(n - 1) : g[i] = h[i] BY <2>2, <3>3
    <3>5. g = [i \in 0..n |-> g[i]] /\ e = [i \in 0..n |-> e[i]] OBVIOUS
    <3>6. ASSUME NEW i \in 0..n PROVE g[i] = e[i]
      <4>1. CASE i = 0 BY <4>1
      <4>2. CASE i # 0
        <5>1. i - 1 \in 0..(n - 1) BY <2>2, <4>2
        <5>2. g[i - 1] = h[i - 1] BY <3>4, <5>1
        <5>3. g[i] = ReleasePin(h[i - 1], list[i]) BY <4>2
        <5>4. e[i] = ReleasePin(g[i - 1], list[i]) BY <4>2
        <5> HIDE DEF g, e
        <5> QED BY <5>2, <5>3, <5>4
      <4> QED BY <4>1, <4>2
    <3>7. g = e
      <4> HIDE DEF g, e
      <4> QED BY <3>5, <3>6
    <3> QED BY <2>2, <3>7
  <2> QED BY <2>3, <2>4
<1>2. \E g : Is(g, N) BY <1>1
<1>3. Is(turn, N)
  <2> HIDE DEF Is
  <2> QED BY <1>2
<1>4. ReleasePins(list) = turn[N] BY DEF ReleasePins, L
<1> HIDE DEF turn
<1>5. turn[0] = L BY <1>3
<1>6. \A i \in 1..N : turn[i] = ReleasePin(turn[i - 1], list[i])
  <2> TAKE i \in 1..N
  <2>1. i \in 0..N /\ i # 0 OBVIOUS
  <2> HIDE DEF N
  <2> QED BY <1>3, <2>1
<1> QED BY <1>4, <1>5, <1>6 DEF L

FreedVal(m, e) ==
  [f \in Fields |->
     IF f = "data" THEN m.val[f]
     ELSE [m.val[f] EXCEPT ![e.user.pin] = CASE f = "func" -> 0 [] f = "pull" -> e.pull [] OTHER -> e.dlevel]]

FreedField(e, f) == CASE f = "func" -> 0 [] f = "pull" -> e.pull [] OTHER -> e.dlevel

(* One turn of gpio_release, as a record.                                  *)
LEMMA ReleasePinIs ==
  ASSUME NEW s, NEW e, IsLocals(Move(s, e.user.pin, {"func", "pull", "dlevel"}))
  PROVE  LET m == Move(s, e.user.pin, {"func", "pull", "dlevel"})
         IN  ReleasePin(s, e)
               = [r |-> m.r, pre |-> m.pre, group |-> m.group, val |-> FreedVal(m, e),
                  changed |-> m.changed, entries |-> m.entries]
<1> DEFINE m == Move(s, e.user.pin, {"func", "pull", "dlevel"})
           val == FreedVal(m, e)
<1>1. ReleasePin(s, e) = [m EXCEPT !.val = val] BY DEF ReleasePin, FreedVal
<1> HIDE DEF m, val
<1>2. IsLocals(m) BY DEF m
<1>3. m = [r |-> m.r, pre |-> m.pre, group |-> m.group, val |-> m.val, changed |-> m.changed,
           entries |-> m.entries]
  BY <1>2 DEF IsLocals
<1>4. ReleasePin(s, e)
        = [r |-> m.r, pre |-> m.pre, group |-> m.group, val |-> val, changed |-> m.changed,
           entries |-> m.entries]
  BY <1>1, <1>3
<1> QED BY <1>4 DEF m, val

(* The locals with the pin of an entry as it was before the request.       *)
LEMMA FreedValFacts ==
  ASSUME NEW m, Loaded(m), NEW e \in EntrySet, m.pre = e.user.pin
  PROVE  /\ \A f \in Fields : FreedVal(m, e)[f] \in [InGroup(f, e.user.pin) -> Int]
         /\ \A f \in Fields : \A q \in InGroup(f, e.user.pin) :
              FreedVal(m, e)[f][q]
                = IF q = e.user.pin /\ f # "data" THEN FreedField(e, f) ELSE m.val[f][q]
<1> DEFINE val == FreedVal(m, e)
           p == e.user.pin
<1>1. ASSUME NEW f \in Fields
      PROVE  /\ val[f] \in [InGroup(f, p) -> Int]
             /\ \A q \in InGroup(f, p) :
                  val[f][q] = IF q = p /\ f # "data" THEN FreedField(e, f) ELSE m.val[f][q]
  <2>1. m.val[f] \in [InGroup(f, p) -> Int] BY DEF Loaded
  <2>2. FreedField(e, f) \in Int BY DEF FreedField, EntrySet
  <2>3. val[f] = IF f = "data" THEN m.val[f] ELSE [m.val[f] EXCEPT ![p] = FreedField(e, f)]
    BY DEF FreedVal, FreedField
  <2>4. p \in InGroup(f, p) BY DEF InGroup, Loaded
  <2> HIDE DEF val, p
  <2>5. CASE f # "data" BY <2>1, <2>2, <2>3, <2>4, <2>5
  <2>6. CASE f = "data" BY <2>1, <2>3, <2>6
  <2> QED BY <2>5, <2>6
<1> QED BY <1>1

(* They are locals of the same registers, and show the same of the other   *)
(* pins.                                                                   *)
LEMMA FreedLoaded ==
  ASSUME NEW m, Loaded(m), NEW e \in EntrySet, m.pre = e.user.pin, e.user.pin \in Pins, NEW n,
         n = [r |-> m.r, pre |-> m.pre, group |-> m.group, val |-> FreedVal(m, e),
              changed |-> m.changed, entries |-> m.entries]
  PROVE  /\ Loaded(n) /\ n.r = m.r
         /\ \A f \in Fields : \A q \in Pins :
              Shows(n, f, q) = IF q = e.user.pin /\ f # "data" THEN FreedField(e, f) ELSE Shows(m, f, q)
<1> DEFINE p == e.user.pin
<1>1. /\ \A f \in Fields : FreedVal(m, e)[f] \in [InGroup(f, p) -> Int]
      /\ \A f \in Fields : \A q \in InGroup(f, p) :
           FreedVal(m, e)[f][q] = IF q = p /\ f # "data" THEN FreedField(e, f) ELSE m.val[f][q]
  BY FreedValFacts
<1>2. /\ n.r = m.r /\ n.pre = m.pre /\ n.group = m.group /\ n.val = FreedVal(m, e)
      /\ n.changed = m.changed /\ n.entries = m.entries
      /\ n = [r |-> n.r, pre |-> n.pre, group |-> n.group, val |-> n.val, changed |-> n.changed,
              entries |-> n.entries]
  OBVIOUS
<1>3. Loaded(n)
  <2>1. IsLocals(m) /\ m.pre \in Pins /\ m.group = [f \in Fields |-> Group(f, m.pre)] BY DEF Loaded
  <2>2. IsLocals(n) BY <1>2, <2>1 DEF IsLocals
  <2>3. FreedVal(m, e) = [f \in Fields |-> FreedVal(m, e)[f]] BY DEF FreedVal
  <2> QED BY <1>1, <1>2, <2>1, <2>2, <2>3 DEF Loaded
<1>4. p # NoPin /\ n.pre = p /\ p \in Pins BY <1>2, PinAssumption
<1>5. ASSUME NEW f \in Fields, NEW q \in Pins
      PROVE  Shows(n, f, q) = IF q = p /\ f # "data" THEN FreedField(e, f) ELSE Shows(m, f, q)
  <2>1. CASE Group(f, q) = Group(f, p)
    <3>1. q \in InGroup(f, p) BY <2>1 DEF InGroup
    <3> QED BY <1>1, <1>2, <1>4, <2>1, <3>1 DEF Shows
  <2>2. CASE Group(f, q) # Group(f, p)
    <3>1. q # p BY <2>2
    <3> QED BY <1>2, <1>4, <2>2, <3>1 DEF Shows
  <2> QED BY <2>1, <2>2
<1> QED BY <1>2, <1>3, <1>5

(* The first i pins of a handle are as they were, the others untouched.    *)
Released(s, h, i) ==
  /\ Ready(s) /\ (i > 0 => Loaded(s))
  /\ \A q \in Pins : s.r["data"][q] = pio["data"][q]
  /\ \A f \in Three : \A q \in Pins :
       (\A j \in 1..i : h[j].user.pin # q) => Shows(s, f, q) = pinSpec[q][f]
  /\ \A f \in Three : \A j \in 1..i : Shows(s, f, h[j].user.pin) = FreedField(h[j], f)

(* The pins of a handle differ.                                            *)
EntryPins(h) ==
  /\ \A i \in 1..Len(h) : h[i].user.pin \in Pins
  /\ \A i, j \in 1..Len(h) : i # j => h[i].user.pin # h[j].user.pin

(* The loop of gpio_release: before its first turn,                        *)
LEMMA ReleasedFirst ==
  ASSUME PinTypes, NEW h PROVE Released(Locals(pio), h, 0)
<1> DEFINE s == Locals(pio)
<1>1. /\ Ready(s) /\ s.r = pio
      /\ \A f \in Fields : \A q \in Pins : Shows(s, f, q) = pio[f][q]
  BY LocalsFacts
<1> HIDE DEF s
<1>2. ASSUME NEW f \in Three, NEW q \in Pins PROVE Shows(s, f, q) = pinSpec[q][f]
  <2>1. f \in Fields BY FieldNames
  <2> QED BY <1>1, <2>1 DEF PinTypes, RegistersKept
<1> QED BY <1>1, <1>2 DEF Released, s

(* after each turn,                                                        *)
LEMMA ReleasedNext ==
  ASSUME PinTypes, NEW h \in Seq(EntrySet), EntryPins(h), NEW i \in 1..Len(h),
         NEW s, Released(s, h, i - 1)
  PROVE  Released(ReleasePin(s, h[i]), h, i)
<1> DEFINE e == h[i]
           p == e.user.pin
           m == Move(s, p, {"func", "pull", "dlevel"})
           n == ReleasePin(s, e)
<1>1. e \in EntrySet /\ p \in Pins BY DEF EntryPins
<1>2. Ready(s) BY DEF Released
<1>3. Three = {"func", "pull", "dlevel"} BY FieldNames
<1>4. Moved(m, s, p, {"func", "pull", "dlevel"})
  <2>1. \A f \in Three : \A q \in Pins : f \in {"func", "pull", "dlevel"} \/ Shows(s, f, q) = s.r[f][q]
    BY <1>3
  <2> HIDE DEF p
  <2> QED BY <1>1, <1>2, <2>1, MoveFacts DEF PinTypes
<1>5. Loaded(m) /\ m.pre = p /\ \A f \in Three : \A q \in Pins : Shows(m, f, q) = Shows(s, f, q)
  BY <1>4 DEF Moved
<1>6. \A q \in Pins : m.r["data"][q] = s.r["data"][q]
  <2> HIDE DEF m
  <2>1. CASE Fresh(m, s, {"func", "pull", "dlevel"}) BY <2>1 DEF Fresh
  <2>2. CASE Stayed(m, s) BY <2>2 DEF Stayed
  <2> QED BY <1>4, <2>1, <2>2 DEF Moved
<1>7. n = [r |-> m.r, pre |-> m.pre, group |-> m.group, val |-> FreedVal(m, e),
           changed |-> m.changed, entries |-> m.entries]
  <2>1. IsLocals(m) BY <1>5 DEF Loaded
  <2> QED BY <2>1, ReleasePinIs
<1>8. /\ Loaded(n) /\ n.r = m.r
      /\ \A f \in Fields : \A q \in Pins :
           Shows(n, f, q) = IF q = p /\ f # "data" THEN FreedField(e, f) ELSE Shows(m, f, q)
  <2> HIDE DEF m, n, e
  <2> QED BY <1>1, <1>5, <1>7, FreedLoaded
<1> HIDE DEF n, m
<1>9. ASSUME NEW f \in Three, NEW q \in Pins
      PROVE  Shows(n, f, q) = IF q = p THEN FreedField(e, f) ELSE Shows(s, f, q)
  <2>1. f \in Fields /\ f # "data" BY FieldNames
  <2> QED BY <1>5, <1>8, <2>1
<1>10. i \in Nat /\ i \in 1..i /\ 1..(i - 1) \subseteq 1..i /\ 1..i \subseteq 1..Len(h) OBVIOUS
<1>11. \A j \in 1..i : j \in 1..(i - 1) \/ j = i OBVIOUS
<1>12. ASSUME NEW f \in Three, NEW q \in Pins, \A j \in 1..i : h[j].user.pin # q
       PROVE  Shows(n, f, q) = pinSpec[q][f]
  <2>1. q # p BY <1>10, <1>12
  <2>2. Shows(s, f, q) = pinSpec[q][f] BY <1>10, <1>12 DEF Released
  <2> QED BY <1>9, <2>1, <2>2
<1>13. ASSUME NEW f \in Three, NEW j \in 1..i
       PROVE  Shows(n, f, h[j].user.pin) = FreedField(h[j], f)
  <2>1. CASE j = i BY <1>1, <1>9, <2>1
  <2>2. CASE j \in 1..(i - 1)
    <3>1. j # i /\ j \in 1..Len(h) BY <1>10, <2>2
    <3>2. h[j].user.pin \in Pins /\ h[j].user.pin # p BY <3>1 DEF EntryPins
    <3>3. Shows(s, f, h[j].user.pin) = FreedField(h[j], f) BY <2>2 DEF Released
    <3> QED BY <1>9, <3>2, <3>3
  <2> QED BY <1>11, <2>1, <2>2
<1>14. \A q \in Pins : n.r["data"][q] = pio["data"][q] BY <1>6, <1>8 DEF Released
<1>15. Ready(n) BY <1>8 DEF Ready, Loaded
<1> QED BY <1>8, <1>12, <1>13, <1>14, <1>15 DEF Released, n

(* and after the last.                                                     *)
LEMMA ReleasedAll ==
  ASSUME PinTypes, NEW h \in Seq(EntrySet), EntryPins(h)
  PROVE  Released(ReleasePins(h), h, Len(h))
<1>0. Len(h) \in Nat OBVIOUS
<1>1. PICK turn : /\ turn[0] = Locals(pio) /\ ReleasePins(h) = turn[Len(h)]
                  /\ \A i \in 1..Len(h) : turn[i] = ReleasePin(turn[i - 1], h[i])
  BY <1>0, ReleaseTurns
<1> DEFINE Bad == {i \in 0..Len(h) : ~Released(turn[i], h, i)}
<1>2. Bad = {}
  <2> SUFFICES ASSUME Bad # {} PROVE FALSE OBVIOUS
  <2>1. PICK i \in Bad : \A y \in Bad : i <= y
    <3>1. Bad \subseteq Nat BY <1>0
    <3> HIDE DEF Bad
    <3> QED BY <3>1, LeastOf
  <2>2. i \in 0..Len(h) /\ ~Released(turn[i], h, i) BY <2>1
  <2>3. i # 0 BY <1>1, <2>2, ReleasedFirst
  <2>4. i \in 1..Len(h) /\ i - 1 \in 0..Len(h) /\ ~(i <= i - 1) BY <1>0, <2>2, <2>3
  <2>5. Released(turn[i - 1], h, i - 1) BY <2>1, <2>4
  <2>6. Released(turn[i], h, i) BY <1>1, <2>4, <2>5, ReleasedNext
  <2> QED BY <2>2, <2>6
<1>3. Len(h) \in 0..Len(h) BY <1>0
<1> QED BY <1>1, <1>2, <1>3

-----------------------------------------------------------------------------
(* The functions that change one pin.                                      *)

LEMMA SetFieldFacts ==
  ASSUME NEW r \in Regs, NEW f \in Fields, NEW p \in Pins, NEW v \in Int,
         pinLevel \in [Pins -> Int]
  PROVE  /\ SetField(r, f, p, v) \in Regs /\ SetField(r, f, p, v)[f][p] = v
         /\ \A g \in Fields : g # f => SetField(r, f, p, v)[g] = r[g]
         /\ \A q \in Pins : q # p /\ (f # "data" \/ r["func"][q] = 1) =>
              SetField(r, f, p, v)[f][q] = r[f][q]
<1> DEFINE g == Group(f, p)
           old == ReadReg(r, f, g)
           val == [old EXCEPT ![p] = v]
           col == [q \in Pins |-> IF Group(f, q) = g THEN val[q] ELSE r[f][q]]
           n == SetField(r, f, p, v)
<1>1. n = [r EXCEPT ![f] = col] BY DEF SetField, WriteReg
<1>2. /\ old \in [InGroup(f, p) -> Int]
      /\ \A q \in InGroup(f, p) : f # "data" \/ r["func"][q] = 1 => old[q] = r[f][q]
  BY ReadFacts
<1>3. p \in InGroup(f, p) BY DEF InGroup
<1> HIDE DEF old, n
<1>4. val[p] = v /\ \A q \in InGroup(f, p) : val[q] \in Int /\ (q # p => val[q] = old[q])
  BY <1>2, <1>3
<1> HIDE DEF val
<1>5. \A q \in Pins : r[f][q] \in Int BY DEF Regs
<1>6. col \in [Pins -> Int] BY <1>4, <1>5 DEF InGroup
<1>7. col[p] = v BY <1>4
<1>8. ASSUME NEW q \in Pins, q # p, f # "data" \/ r["func"][q] = 1 PROVE col[q] = r[f][q]
  <2>1. CASE Group(f, q) = g
    <3>1. q \in InGroup(f, p) BY <2>1 DEF InGroup
    <3> QED BY <1>2, <1>4, <1>8, <2>1, <3>1
  <2>2. CASE Group(f, q) # g BY <2>2
  <2> QED BY <2>1, <2>2
<1> HIDE DEF col
<1>9. r = [h \in Fields |-> r[h]] /\ f \in DOMAIN r /\ \A h \in Fields : r[h] \in [Pins -> Int] BY DEF Regs
<1>10. n[f] = col /\ \A h \in Fields : h # f => n[h] = r[h] BY <1>1, <1>9
<1>11. n \in Regs BY <1>1, <1>6, <1>9 DEF Regs
<1> QED BY <1>7, <1>8, <1>10, <1>11 DEF n

(* The setting of one pin is changed to x.                                 *)
LEMMA SetKept ==
  ASSUME PinTypes, NEW f \in Three, NEW p \in Pins, NEW v \in Int, NEW x \in Specs,
         x[f] = v, \A g \in Three : g # f => x[g] = pinSpec[p][g],
         x.out # Unknown => x.out = pinSpec[p].out /\ x.func = 1
  PROVE  /\ SetField(pio, f, p, v) \in Regs /\ [pinSpec EXCEPT ![p] = x] \in [Pins -> Specs]
         /\ RegistersKept(SetField(pio, f, p, v), [pinSpec EXCEPT ![p] = x])
<1> DEFINE n == SetField(pio, f, p, v)
           to == [pinSpec EXCEPT ![p] = x]
<1>1. f \in Fields /\ f # "data" /\ "data" \in Fields BY FieldNames
<1>2. /\ n \in Regs /\ n[f][p] = v /\ \A g \in Fields : g # f => n[g] = pio[g]
      /\ \A q \in Pins : q # p => n[f][q] = pio[f][q]
  BY <1>1, SetFieldFacts DEF PinTypes
<1>3. to \in [Pins -> Specs] /\ to[p] = x /\ \A q \in Pins : q # p => to[q] = pinSpec[q]
  BY DEF PinTypes
<1> HIDE DEF n, to
<1>4. ASSUME NEW g \in Three, NEW q \in Pins PROVE n[g][q] = to[q][g]
  <2>1. g \in Fields /\ pio[g][q] = pinSpec[q][g] BY FieldNames DEF PinTypes, RegistersKept
  <2> QED BY <1>2, <1>3, <2>1
<1>5. ASSUME NEW q \in Pins, to[q].out # Unknown PROVE to[q].func = 1 /\ n["data"][q] = to[q].out
  <2>1. pinSpec[q].out # Unknown => pinSpec[q].func = 1 /\ pio["data"][q] = pinSpec[q].out
    BY DEF PinTypes, RegistersKept
  <2>2. n["data"] = pio["data"] BY <1>1, <1>2
  <2> QED BY <1>3, <1>5, <2>1, <2>2
<1> QED BY <1>2, <1>3, <1>4, <1>5 DEF RegistersKept, n, to

(* One of the four turns of gpio_set_one_pin_status.                       *)
LEMMA OneField ==
  ASSUME NEW r \in Regs, NEW f \in Fields, NEW u \in Settings, u.pin \in Pins,
         FieldValue(u, f) \in Int, pinLevel \in [Pins -> Int]
  PROVE  LET n == IF Asks(u, f) THEN SetField(r, f, u.pin, FieldValue(u, f)) ELSE r
         IN  /\ n \in Regs
             /\ n[f][u.pin] = IF Asks(u, f) THEN FieldValue(u, f) ELSE r[f][u.pin]
             /\ \A g \in Fields : g # f => n[g] = r[g]
             /\ \A q \in Pins : q # u.pin /\ (f # "data" \/ r["func"][q] = 1) => n[f][q] = r[f][q]
<1>1. CASE Asks(u, f)
  <2> DEFINE v == FieldValue(u, f)
             p == u.pin
             w == SetField(r, f, p, v)
  <2>1. v \in Int /\ p \in Pins OBVIOUS
  <2> HIDE DEF v, p
  <2>2. /\ w \in Regs /\ w[f][p] = v /\ \A g \in Fields : g # f => w[g] = r[g]
        /\ \A q \in Pins : q # p /\ (f # "data" \/ r["func"][q] = 1) => w[f][q] = r[f][q]
    BY <2>1, SetFieldFacts
  <2> HIDE DEF w
  <2>3. w = IF Asks(u, f) THEN SetField(r, f, u.pin, FieldValue(u, f)) ELSE r BY <1>1 DEF w, v, p
  <2> QED BY <1>1, <2>2, <2>3 DEF v, p
<1>2. CASE ~Asks(u, f) BY <1>2
<1> QED BY <1>1, <1>2

(* All four of them: the registers hold what the setting asks of the pin.  *)
LEMMA StatusKept ==
  ASSUME PinTypes, NEW u \in Settings, u.pin \in Pins
  PROVE  LET one(r, f) == IF Asks(u, f) THEN SetField(r, f, u.pin, FieldValue(u, f)) ELSE r
             n == one(one(one(one(pio, "func"), "pull"), "dlevel"), "data")
             to == [pinSpec EXCEPT ![u.pin] = AskedOf(pinSpec[u.pin], u)]
         IN  n \in Regs /\ to \in [Pins -> Specs] /\ RegistersKept(n, to)
<1> DEFINE p == u.pin
           one(r, f) == IF Asks(u, f) THEN SetField(r, f, p, FieldValue(u, f)) ELSE r
           r1 == one(pio, "func")
           r2 == one(r1, "pull")
           r3 == one(r2, "dlevel")
           n == one(r3, "data")
           to == [pinSpec EXCEPT ![p] = AskedOf(pinSpec[p], u)]
<1>1. ASSUME NEW r \in Regs, NEW f \in Fields
      PROVE  /\ one(r, f) \in Regs
             /\ one(r, f)[f][p] = IF Asks(u, f) THEN FieldValue(u, f) ELSE r[f][p]
             /\ \A g \in Fields : g # f => one(r, f)[g] = r[g]
             /\ \A q \in Pins : q # p /\ (f # "data" \/ r["func"][q] = 1) => one(r, f)[f][q] = r[f][q]
  <2>1. FieldValue(u, f) \in Int BY DEF FieldValue, Settings
  <2>2. pinLevel \in [Pins -> Int] BY DEF PinTypes
  <2> QED BY <2>1, <2>2, OneField
<1> HIDE DEF one
<1>2. pio \in Regs BY DEF PinTypes
<1>3. "func" \in Fields /\ "pull" \in Fields /\ "dlevel" \in Fields /\ "data" \in Fields BY DEF Fields
<1>4. r1 \in Regs BY <1>1, <1>2, <1>3
<1>5. r2 \in Regs BY <1>1, <1>3, <1>4
<1>6. r3 \in Regs BY <1>1, <1>3, <1>5
<1>7. n \in Regs BY <1>1, <1>3, <1>6
<1> HIDE DEF r1, r2, r3, n, p
<1>8. /\ r1["func"][p] = IF Asks(u, "func") THEN FieldValue(u, "func") ELSE pio["func"][p]
      /\ \A q \in Pins : q # p => r1["func"][q] = pio["func"][q]
      /\ r1["pull"] = pio["pull"] /\ r1["dlevel"] = pio["dlevel"] /\ r1["data"] = pio["data"]
  BY <1>1, <1>2, <1>3 DEF r1
<1>9. /\ r2["pull"][p] = IF Asks(u, "pull") THEN FieldValue(u, "pull") ELSE r1["pull"][p]
      /\ \A q \in Pins : q # p => r2["pull"][q] = r1["pull"][q]
      /\ r2["func"] = r1["func"] /\ r2["dlevel"] = r1["dlevel"] /\ r2["data"] = r1["data"]
  BY <1>1, <1>3, <1>4 DEF r2
<1>10. /\ r3["dlevel"][p] = IF Asks(u, "dlevel") THEN FieldValue(u, "dlevel") ELSE r2["dlevel"][p]
       /\ \A q \in Pins : q # p => r3["dlevel"][q] = r2["dlevel"][q]
       /\ r3["func"] = r2["func"] /\ r3["pull"] = r2["pull"] /\ r3["data"] = r2["data"]
  BY <1>1, <1>3, <1>5 DEF r3
<1>11. /\ n["data"][p] = IF Asks(u, "data") THEN FieldValue(u, "data") ELSE r3["data"][p]
       /\ \A q \in Pins : q # p /\ r3["func"][q] = 1 => n["data"][q] = r3["data"][q]
       /\ n["func"] = r3["func"] /\ n["pull"] = r3["pull"] /\ n["dlevel"] = r3["dlevel"]
  BY <1>1, <1>3, <1>6 DEF n
<1>12. ASSUME NEW f \in Three, NEW q \in Pins
       PROVE  n[f][q] = IF q = p /\ Asks(u, f) THEN FieldValue(u, f) ELSE pio[f][q]
  <2>1. f = "func" \/ f = "pull" \/ f = "dlevel" BY FieldNames
  <2>2. CASE f = "func" BY <1>8, <1>9, <1>10, <1>11, <2>2
  <2>3. CASE f = "pull" BY <1>8, <1>9, <1>10, <1>11, <2>3
  <2>4. CASE f = "dlevel" BY <1>8, <1>9, <1>10, <1>11, <2>4
  <2> QED BY <2>1, <2>2, <2>3, <2>4
<1>13. /\ n["data"][p] = IF Asks(u, "data") THEN FieldValue(u, "data") ELSE pio["data"][p]
       /\ \A q \in Pins : q # p /\ pio["func"][q] = 1 => n["data"][q] = pio["data"][q]
  BY <1>8, <1>9, <1>10, <1>11
<1>14. p \in Pins BY DEF p
<1>15. pinSpec[p] \in Specs BY <1>14 DEF PinTypes
<1>16. /\ AskedOf(pinSpec[p], u) \in Specs
       /\ \A f \in Three : AskedOf(pinSpec[p], u)[f] = IF Asks(u, f) THEN FieldValue(u, f) ELSE pinSpec[p][f]
       /\ AskedOf(pinSpec[p], u).out # Unknown =>
            \/ /\ Asks(u, "data") /\ AskedOf(pinSpec[p], u).out = FieldValue(u, "data")
               /\ AskedOf(pinSpec[p], u).func = 1
            \/ /\ ~Asks(u, "data") /\ AskedOf(pinSpec[p], u).out = pinSpec[p].out
               /\ (pinSpec[p].func = 1 => AskedOf(pinSpec[p], u).func = 1)
  BY <1>15, AskedFacts
<1>17. to \in [Pins -> Specs] /\ to[p] = AskedOf(pinSpec[p], u) /\ \A q \in Pins : q # p => to[q] = pinSpec[q]
  BY <1>14, <1>16 DEF PinTypes
<1> HIDE DEF to
<1>18. ASSUME NEW f \in Three, NEW q \in Pins PROVE n[f][q] = to[q][f]
  <2>1. pio[f][q] = pinSpec[q][f] BY DEF PinTypes, RegistersKept
  <2> QED BY <1>12, <1>16, <1>17, <2>1
<1>19. ASSUME NEW q \in Pins, to[q].out # Unknown PROVE to[q].func = 1 /\ n["data"][q] = to[q].out
  <2>1. pinSpec[q].out # Unknown => pinSpec[q].func = 1 /\ pio["data"][q] = pinSpec[q].out
    BY DEF PinTypes, RegistersKept
  <2>2. pio["func"][q] = pinSpec[q].func BY FieldNames DEF PinTypes, RegistersKept
  <2>3. CASE q # p BY <1>13, <1>17, <1>19, <2>1, <2>2, <2>3
  <2>4. CASE q = p BY <1>13, <1>16, <1>17, <1>19, <2>1, <2>4
  <2> QED BY <2>3, <2>4
<1>20. RegistersKept(n, to) BY <1>18, <1>19 DEF RegistersKept
<1> QED BY <1>7, <1>17, <1>20 DEF n, r3, r2, r1, one, to, p

-----------------------------------------------------------------------------
(* The configuration.                                                      *)

LEMMA SeqOfValues ==
  ASSUME NEW n \in Nat, NEW f, f = [j \in 1..n |-> f[j]], NEW S, \A j \in 1..n : f[j] \in S
  PROVE  f \in Seq(S) /\ Len(f) = n
<1>1. f \in Seq(S)
  <2>1. f \in [1..n -> S] OBVIOUS
  <2> QED BY <2>1
<1> QED BY <1>1

(* One text begins as the other one does, as far as both reach.            *)
Comparable(a, b) == \A i \in 1..Len(a) : i <= Len(b) => a[i] = b[i]

(* Of two texts that agree as far as both reach, one starts with the       *)
(* other.                                                                  *)
LEMMA ComparableStarts ==
  ASSUME NEW a \in Seq(Int), NEW b \in Seq(Int), Comparable(a, b)
  PROVE  StartsWith(a, b) \/ StartsWith(b, a)
<1>1. Len(a) \in Nat /\ Len(b) \in Nat OBVIOUS
<1>2. CASE Len(b) <= Len(a)
  <2> DEFINE c == SubSeq(a, 1, Len(b))
  <2>1. c \in Seq(Int) /\ Len(c) = Len(b) BY <1>1, <1>2
  <2>2. \A i \in 1..Len(b) : c[i] = a[i] /\ a[i] = b[i]
    <3>1. \A i \in 1..Len(b) : c[i] = a[i] BY <1>1, <1>2
    <3>2. \A i \in 1..Len(b) : i \in 1..Len(a) /\ i <= Len(b) BY <1>1, <1>2
    <3> HIDE DEF c
    <3> QED BY <3>1, <3>2 DEF Comparable
  <2> HIDE DEF c
  <2>3. c = b BY <2>1, <2>2, SeqEqual
  <2> QED BY <1>2, <2>3 DEF StartsWith, c
<1>3. CASE ~(Len(b) <= Len(a))
  <2> DEFINE c == SubSeq(b, 1, Len(a))
  <2>1. c \in Seq(Int) /\ Len(c) = Len(a) BY <1>1, <1>3
  <2>2. \A i \in 1..Len(a) : c[i] = b[i] /\ a[i] = b[i]
    <3>1. \A i \in 1..Len(a) : c[i] = b[i] BY <1>1, <1>3
    <3>2. \A i \in 1..Len(a) : i <= Len(b) BY <1>1, <1>3
    <3> HIDE DEF c
    <3> QED BY <3>1, <3>2 DEF Comparable
  <2> HIDE DEF c
  <2>3. c = a BY <2>1, <2>2, SeqEqual
  <2>4. Len(a) <= Len(b) BY <1>1, <1>3
  <2> QED BY <2>3, <2>4 DEF StartsWith, c
<1> QED BY <1>2, <1>3

(* What a patch leaves of a string.                                        *)
LEMMA OverwrittenString ==
  ASSUME NEW old \in Seq(Int), NEW body \in Seq(Int)
  PROVE  LET n == IF Len(body) > Len(old) THEN Len(old) ELSE Len(body)
             new == SubSeq(body, 1, n) \o SubSeq(old, n + 1, Len(old))
         IN  new \in Seq(Int) /\ Comparable(new, body)
<1> DEFINE n == IF Len(body) > Len(old) THEN Len(old) ELSE Len(body)
           a == SubSeq(body, 1, n)
           b == SubSeq(old, n + 1, Len(old))
<1>1. Len(body) \in Nat /\ Len(old) \in Nat OBVIOUS
<1>2. n \in Nat /\ n <= Len(body) /\ n <= Len(old) BY <1>1
<1>3. n = Len(old) \/ n = Len(body) OBVIOUS
<1> HIDE DEF n
<1>4. a \in Seq(Int) /\ Len(a) = n /\ \A i \in 1..n : a[i] = body[i] BY <1>1, <1>2
<1>5. b \in Seq(Int) /\ Len(b) = Len(old) - n BY <1>1, <1>2
<1> HIDE DEF a, b
<1>6. a \o b \in Seq(Int) /\ Len(a \o b) = Len(old)
  <2>0. a \in Seq(Int) /\ b \in Seq(Int) BY <1>4, <1>5
  <2>1. a \o b \in Seq(Int) /\ Len(a \o b) = Len(a) + Len(b) BY <2>0, ConcatProperties
  <2>2. n + (Len(old) - n) = Len(old) BY <1>1, <1>2
  <2> QED BY <1>4, <1>5, <2>1, <2>2
<1>7. \A i \in 1..n : (a \o b)[i] = body[i] BY <1>2, <1>4, <1>5
<1>8. ASSUME NEW i \in 1..Len(old), i <= Len(body) PROVE (a \o b)[i] = body[i]
  <2>1. i \in 1..n BY <1>1, <1>2, <1>3, <1>8
  <2> QED BY <1>7, <2>1
<1>9. Comparable(a \o b, body) BY <1>6, <1>8 DEF Comparable
<1> QED BY <1>6, <1>9 DEF n, a, b

(* What a sub key has of the body that was last given for it.              *)
KeptAs(key, body) ==
  /\ key.type \in {"word", "gpio"} => key.body = body
  /\ key.type = "string" => body \in Seq(Int) /\ Comparable(key.body, body)

(* Names and types are those of the board; a body fits its type.           *)
SubKeyOk(key, org) ==
  /\ key = [name |-> org.name, type |-> org.type, body |-> key.body]
  /\ Body(key.type, key.body)

(* Sub keys of a main key, and what was last given for each.               *)
MainKeyOk(keys, main, pt) ==
  /\ keys = [i \in 1..Len(Board[main]) |-> keys[i]]
  /\ \A i \in 1..Len(Board[main]) :
       SubKeyOk(keys[i], Board[main][i]) /\ KeptAs(keys[i], pt[<<main, i>>])
  /\ PinsOnce(keys)

(* The configuration, if there is one, is the board with what was given    *)
(* since.                                                                  *)
ScriptOk(sc, pt) ==
  /\ pt = [k \in Keys |-> pt[k]]
  /\ sc # NoScript =>
       /\ sc = [main \in DOMAIN Board |-> sc[main]]
       /\ \A main \in DOMAIN Board : MainKeyOk(sc[main], main, pt)

(* A main key of the board is a sequence of sub keys.                      *)
LEMMA BoardFacts ==
  ASSUME NEW main \in DOMAIN Board
  PROVE  /\ Len(Board[main]) \in Nat /\ DOMAIN Board[main] = 1..Len(Board[main])
         /\ Board[main] = [i \in 1..Len(Board[main]) |-> Board[main][i]]
         /\ \A i \in 1..Len(Board[main]) : <<main, i>> \in Keys
<1> DEFINE S == {Board[main][i] : i \in DOMAIN Board[main]}
           b == Board[main]
<1>1. b \in Seq(S) BY PinAssumption
<1> HIDE DEF S, b
<1>2. Len(b) \in Nat /\ DOMAIN b = 1..Len(b) /\ b = [i \in 1..Len(b) |-> b[i]] BY <1>1
<1>3. \A i \in 1..Len(b) : <<main, i>> \in Keys BY <1>2 DEF Keys, b
<1> QED BY <1>2, <1>3 DEF b

(* script_parser_init: every key has the body of the board.                *)
LEMMA ScriptFirst ==
  ASSUME script_parser_init PROVE ScriptOk(script', patched')
<1> DEFINE pt == [k \in Keys |-> Board[k[1]][k[2]].body]
<1>1. script' = Board /\ patched' = pt BY DEF script_parser_init
<1>2. ASSUME NEW main \in DOMAIN Board, NEW i \in 1..Len(Board[main])
      PROVE  SubKeyOk(Board[main][i], Board[main][i]) /\ KeptAs(Board[main][i], pt[<<main, i>>])
  <2> DEFINE key == Board[main][i]
  <2>1. <<main, i>> \in Keys /\ i \in DOMAIN Board[main] BY BoardFacts
  <2>2. pt[<<main, i>>] = key.body BY <2>1
  <2>3. key = [name |-> key.name, type |-> key.type, body |-> key.body] /\ Body(key.type, key.body)
    BY <2>1, PinAssumption
  <2> HIDE DEF key
  <2>4. SubKeyOk(key, key) BY <2>3 DEF SubKeyOk
  <2>5. KeptAs(key, key.body) BY <2>3 DEF KeptAs, Body, Comparable
  <2> QED BY <2>2, <2>4, <2>5 DEF key
<1>3. ASSUME NEW main \in DOMAIN Board PROVE MainKeyOk(Board[main], main, pt)
  <2>1. PinsOnce(Board[main]) BY PinAssumption
  <2>2. Board[main] = [i \in 1..Len(Board[main]) |-> Board[main][i]] BY BoardFacts
  <2> HIDE DEF pt
  <2> QED BY <1>2, <2>1, <2>2 DEF MainKeyOk
<1>4. pt = [k \in Keys |-> pt[k]] OBVIOUS
<1> HIDE DEF pt
<1>5. Board = [main \in DOMAIN Board |-> Board[main]] BY PinAssumption
<1>6. ScriptOk(Board, pt) BY <1>3, <1>4, <1>5 DEF ScriptOk
<1> QED BY <1>1, <1>6

(* A record, or a part of the configuration, whose one entry is changed.   *)
LEMMA SubKeyChanged ==
  ASSUME NEW key, NEW org, NEW body, SubKeyOk(key, org), Body(org.type, body)
  PROVE  LET n == [key EXCEPT !.body = body]
         IN  SubKeyOk(n, org) /\ n.type = org.type /\ n.name = org.name /\ n.body = body
<1> DEFINE n == [key EXCEPT !.body = body]
           b == key.body
<1>1. key = [name |-> org.name, type |-> org.type, body |-> b] BY DEF SubKeyOk
<1> HIDE DEF b
<1>2. n = [name |-> org.name, type |-> org.type, body |-> body] BY <1>1
<1> HIDE DEF n
<1>3. n.type = org.type /\ n.name = org.name /\ n.body = body BY <1>2
<1>4. SubKeyOk(n, org) BY <1>2, <1>3 DEF SubKeyOk
<1> QED BY <1>3, <1>4 DEF n

(* A patched sub key keeps what the patch gave it.                         *)
LEMMA PatchBody ==
  ASSUME NEW key, NEW org, NEW old, NEW body, SubKeyOk(key, org), KeptAs(key, old),
         Body(org.type, body)
  PROVE  LET to == Overwritten(key, body)
             kept == IF key.type \in {"word", "gpio", "string"} THEN body ELSE old
             n == [key EXCEPT !.body = to]
         IN  SubKeyOk(n, org) /\ KeptAs(n, kept)
<1> DEFINE to == Overwritten(key, body)
           kept == IF key.type \in {"word", "gpio", "string"} THEN body ELSE old
           n == [key EXCEPT !.body = to]
<1>1. key.type = org.type BY DEF SubKeyOk
<1>2. Body(org.type, key.body) BY <1>1 DEF SubKeyOk
<1>3. CASE org.type = "string"
  <2>1. key.body \in Seq(Int) /\ body \in Seq(Int) BY <1>2, <1>3 DEF Body
  <2>2. to \in Seq(Int) /\ Comparable(to, body)
    BY <1>1, <1>3, <2>1, OverwrittenString DEF Overwritten
  <2>3. kept = body BY <1>1, <1>3
  <2> HIDE DEF to, kept
  <2>4. Body(org.type, to) BY <1>3, <2>2 DEF Body
  <2>5. SubKeyOk(n, org) /\ n.type = org.type /\ n.body = to BY <2>4, SubKeyChanged
  <2> HIDE DEF n
  <2>6. KeptAs(n, kept) BY <1>3, <2>1, <2>2, <2>3, <2>5 DEF KeptAs
  <2> QED BY <2>5, <2>6 DEF n, kept, to
<1>4. CASE org.type \in {"word", "gpio"}
  <2>1. to = body /\ kept = body BY <1>1, <1>4 DEF Overwritten
  <2> HIDE DEF to, kept
  <2>2. SubKeyOk(n, org) /\ n.type = org.type /\ n.body = to BY <2>1, SubKeyChanged
  <2> HIDE DEF n
  <2>3. KeptAs(n, kept) BY <1>4, <2>1, <2>2 DEF KeptAs
  <2> QED BY <2>2, <2>3 DEF n, kept, to
<1>5. CASE org.type \notin {"word", "gpio", "string"}
  <2>1. to = key.body /\ kept = old BY <1>1, <1>5 DEF Overwritten
  <2> HIDE DEF to, kept
  <2>2. SubKeyOk(n, org) /\ n.type = org.type /\ n.body = to BY <1>2, <2>1, SubKeyChanged
  <2> HIDE DEF n
  <2>3. KeptAs(n, kept) BY <1>5, <2>1, <2>2 DEF KeptAs
  <2> QED BY <2>2, <2>3 DEF n, kept, to
<1> QED BY <1>3, <1>4, <1>5

(* script_parser_patch: the other keys stay as they are.                   *)
LEMMA PatchKept ==
  ASSUME ScriptOk(script, patched), NEW k \in Keys, NEW body \in Patches[Board[k[1]][k[2]].type],
         script_parser_patch(k, body), PinsOnce(script'[k[1]])
  PROVE  ScriptOk(script', patched')
<1>0. PICK main \in DOMAIN Board : \E i \in DOMAIN Board[main] : k = <<main, i>> BY DEF Keys
<1>1. PICK at \in DOMAIN Board[main] : k = <<main, at>> BY <1>0
<1>2. at \in 1..Len(Board[main]) BY <1>1, BoardFacts
<1> DEFINE org == Board[main][at]
           keys == script[main]
           key == keys[at]
           old == patched[k]
           to == Overwritten(key, body)
           kept == IF key.type \in {"word", "gpio", "string"} THEN body ELSE old
           newKey == [key EXCEPT !.body = to]
           newKeys == [keys EXCEPT ![at] = newKey]
           sc == [script EXCEPT ![main] = newKeys]
           pt == [patched EXCEPT ![k] = kept]
<1>3. script # NoScript /\ script' = sc /\ patched' = pt
  <2>1. k[1] = main /\ k[2] = at BY <1>1
  <2>2. script # NoScript BY DEF script_parser_patch
  <2>3. script' = [script EXCEPT ![k[1]] =
                     [script[k[1]] EXCEPT ![k[2]] =
                        [script[k[1]][k[2]] EXCEPT !.body = Overwritten(script[k[1]][k[2]], body)]]]
    BY Zenon DEF script_parser_patch
  <2>4. patched' = [patched EXCEPT ![k] =
                      IF script[k[1]][k[2]].type \in {"word", "gpio", "string"} THEN body ELSE patched[k]]
    BY Zenon DEF script_parser_patch
  <2>5. script' = sc BY <2>1, <2>3, Zenon
  <2>6. patched' = pt BY <2>1, <2>4, Zenon
  <2> QED BY <2>2, <2>5, <2>6
<1>4. /\ patched = [l \in Keys |-> patched[l]]
      /\ script = [m \in DOMAIN Board |-> script[m]]
      /\ \A m \in DOMAIN Board : MainKeyOk(script[m], m, patched)
  BY <1>3 DEF ScriptOk
<1>5. /\ keys = [i \in 1..Len(Board[main]) |-> keys[i]]
      /\ SubKeyOk(key, org) /\ KeptAs(key, old)
  BY <1>1, <1>2, <1>4 DEF MainKeyOk
<1>6. Body(org.type, body)
  <2>1. \A b \in Patches[org.type] : Body(org.type, b) BY PinAssumption
  <2>2. body \in Patches[org.type] BY <1>1
  <2> QED BY <2>1, <2>2
<1>7. SubKeyOk(newKey, org) /\ KeptAs(newKey, kept)
  <2> HIDE DEF key, org, old
  <2> QED BY <1>5, <1>6, PatchBody
<1> HIDE DEF newKey, kept
<1>8. /\ newKeys = [i \in 1..Len(Board[main]) |-> newKeys[i]]
      /\ newKeys[at] = newKey /\ \A i \in 1..Len(Board[main]) : i # at => newKeys[i] = keys[i]
  BY <1>2, <1>5
<1> HIDE DEF newKeys
<1>9. /\ sc = [m \in DOMAIN Board |-> sc[m]]
      /\ sc[main] = newKeys /\ \A m \in DOMAIN Board : m # main => sc[m] = script[m]
  BY <1>1, <1>4
<1>10. /\ pt = [l \in Keys |-> pt[l]]
       /\ pt[k] = kept /\ \A l \in Keys : l # k => pt[l] = patched[l]
  BY <1>4
<1> HIDE DEF sc, pt
<1>11. ASSUME NEW m \in DOMAIN Board PROVE MainKeyOk(sc[m], m, pt)
  <2>1. CASE m # main
    <3>1. MainKeyOk(script[m], m, patched) /\ sc[m] = script[m] BY <1>4, <1>9, <2>1
    <3>2. \A i \in 1..Len(Board[m]) : pt[<<m, i>>] = patched[<<m, i>>]
      BY <1>1, <1>10, <2>1, BoardFacts
    <3> QED BY <3>1, <3>2 DEF MainKeyOk
  <2>2. CASE m = main
    <3>1. ASSUME NEW i \in 1..Len(Board[main])
          PROVE  SubKeyOk(newKeys[i], Board[main][i]) /\ KeptAs(newKeys[i], pt[<<main, i>>])
      <4>1. CASE i = at BY <1>1, <1>7, <1>8, <1>10, <4>1
      <4>2. CASE i # at
        <5>1. <<main, i>> \in Keys /\ <<main, i>> # k BY <1>1, <4>2, BoardFacts
        <5>2. pt[<<main, i>>] = patched[<<main, i>>] BY <1>10, <5>1
        <5>3. newKeys[i] = keys[i] BY <1>8, <4>2
        <5> QED BY <1>4, <5>2, <5>3 DEF MainKeyOk
      <4> QED BY <4>1, <4>2
    <3>2. PinsOnce(newKeys) BY <1>1, <1>3, <1>9
    <3> QED BY <1>8, <1>9, <2>2, <3>1, <3>2 DEF MainKeyOk
  <2> QED BY <2>1, <2>2
<1>12. ScriptOk(sc, pt) BY <1>9, <1>10, <1>11 DEF ScriptOk
<1> QED BY <1>3, <1>12

-----------------------------------------------------------------------------
(* The pins of a main key.                                                 *)

(* The setting of a sub key, and one turn over the sub keys.               *)
Named(key) == [key.body EXCEPT !.name = key.name]
CfgNext(keys, list, i) ==
  IF keys[i].type # "gpio" THEN list ELSE Append(list, Named(keys[i]))

(* The pins of a main key are a recursive function of its sub keys.        *)
LEMMA CfgTurns ==
  ASSUME NEW main, Len(SubKeys(main)) \in Nat
  PROVE  \E cfg : /\ cfg[0] = <<>>
                  /\ script_parser_mainkey_get_gpio_cfg(main) = cfg[Len(SubKeys(main))]
                  /\ \A i \in 1..Len(SubKeys(main)) : cfg[i] = CfgNext(SubKeys(main), cfg[i - 1], i)
<1> DEFINE keys == SubKeys(main)
           N == Len(keys)
           Is(g, n) == g = [i \in 0..n |->
                              IF i = 0 THEN <<>>
                              ELSE IF keys[i].type # "gpio" THEN g[i - 1]
                              ELSE Append(g[i - 1], [keys[i].body EXCEPT !.name = keys[i].name])]
           To(g, n) == g = [i \in 0..n |-> IF i = 0 THEN <<>> ELSE CfgNext(keys, g[i - 1], i)]
           cfg == CHOOSE g : Is(g, N)
           Bad == {n \in 0..N : ~ \E g : To(g, n)}
<1>1. script_parser_mainkey_get_gpio_cfg(main) = cfg[N] BY DEF script_parser_mainkey_get_gpio_cfg
<1>2. \A g, n : Is(g, n) <=> To(g, n) BY DEF CfgNext, Named
<1> HIDE DEF keys, Is, cfg
<1>3. Bad = {}
  <2> SUFFICES ASSUME Bad # {} PROVE FALSE OBVIOUS
  <2>1. PICK n \in Bad : \A y \in Bad : n <= y
    <3>1. Bad \subseteq Nat OBVIOUS
    <3> HIDE DEF Bad
    <3> QED BY <3>1, LeastOf
  <2>2. n \in 0..N /\ ~ \E g : To(g, n) BY <2>1
  <2>3. CASE n = 0
    <3> DEFINE g == [i \in 0..0 |-> <<>>]
    <3>1. To(g, 0) OBVIOUS
    <3> QED BY <2>2, <2>3, <3>1
  <2>4. CASE n # 0
    <3>1. n - 1 \in 0..N /\ ~(n <= n - 1) BY <2>2, <2>4
    <3>2. n - 1 \notin Bad BY <2>1, <3>1
    <3>3. PICK h : To(h, n - 1) BY <3>1, <3>2
    <3> DEFINE g == [i \in 0..n |-> IF i = 0 THEN <<>> ELSE CfgNext(keys, h[i - 1], i)]
               e == [i \in 0..n |-> IF i = 0 THEN <<>> ELSE CfgNext(keys, g[i - 1], i)]
    <3>4. \A i \in 0..(n - 1) : g[i] = h[i] BY <2>2, <3>3
    <3>5. g = [i \in 0..n |-> g[i]] /\ e = [i \in 0..n |-> e[i]] OBVIOUS
    <3>6. ASSUME NEW i \in 0..n PROVE g[i] = e[i]
      <4>1. CASE i = 0 BY <4>1
      <4>2. CASE i # 0
        <5>1. i - 1 \in 0..(n - 1) BY <2>2, <4>2
        <5>2. g[i - 1] = h[i - 1] BY <3>4, <5>1
        <5>3. g[i] = CfgNext(keys, h[i - 1], i) BY <4>2
        <5>4. e[i] = CfgNext(keys, g[i - 1], i) BY <4>2
        <5> HIDE DEF g, e
        <5> QED BY <5>2, <5>3, <5>4
      <4> QED BY <4>1, <4>2
    <3>7. g = e
      <4> HIDE DEF g, e
      <4> QED BY <3>5, <3>6
    <3> QED BY <2>2, <3>7
  <2> QED BY <2>3, <2>4
<1>4. PICK g : To(g, N)
  <2>1. N \in Nat BY DEF keys
  <2>2. N \in 0..N BY <2>1
  <2>3. N \notin Bad BY <1>3
  <2> QED BY <2>2, <2>3
<1>5. Is(cfg, N)
  <2>1. Is(g, N) BY <1>2, <1>4
  <2> HIDE DEF To
  <2> QED BY <2>1 DEF cfg
<1>6. To(cfg, N) BY <1>2, <1>5
<1>7. cfg[0] = <<>>
  <2>1. 0 \in 0..N BY DEF keys
  <2> QED BY <1>6, <2>1
<1>8. \A i \in 1..N : cfg[i] = CfgNext(keys, cfg[i - 1], i)
  <2> TAKE i \in 1..N
  <2>1. i \in 0..N /\ i # 0 OBVIOUS
  <2> HIDE DEF N
  <2> QED BY <1>6, <2>1
<1> QED BY <1>1, <1>7, <1>8 DEF keys

(* The settings that the first i keys have.                                *)
Configured(list, keys, i) ==
  /\ list \in Seq(Settings)
  /\ \A a \in 1..Len(list) : \E k \in 1..i : keys[k].type = "gpio" /\ list[a] = Named(keys[k])
  /\ \A a, b \in 1..Len(list) : a # b =>
       \E k, l \in 1..i : /\ k # l /\ keys[k].type = "gpio" /\ keys[l].type = "gpio"
                          /\ list[a] = Named(keys[k]) /\ list[b] = Named(keys[l])

(* A setting with its name is a setting.                                   *)
LEMMA NamedFacts ==
  ASSUME NEW key, key.body \in Settings, key.name \in STRING
  PROVE  /\ Named(key) \in Settings /\ Named(key).name = key.name /\ Named(key).pin = key.body.pin
<1> DEFINE b == key.body
           n == key.name
<1>1. /\ b = [name |-> b.name, pin |-> b.pin, mul_sel |-> b.mul_sel, pull |-> b.pull,
              drv_level |-> b.drv_level, data |-> b.data]
      /\ b.pin \in Pins \cup {NoPin} /\ b.mul_sel \in {m \in Int : m < 8} /\ b.pull \in {m \in Int : m < 4}
      /\ b.drv_level \in {m \in Int : m < 4} /\ b.data \in Int /\ n \in STRING
  BY DEF Settings
<1> DEFINE m == [b EXCEPT !.name = n]
<1>2. Named(key) = m BY DEF Named
<1> HIDE DEF b, n
<1>3. m = [name |-> n, pin |-> b.pin, mul_sel |-> b.mul_sel, pull |-> b.pull,
           drv_level |-> b.drv_level, data |-> b.data]
  BY <1>1
<1> HIDE DEF m
<1>4. m \in Settings /\ m.name = n /\ m.pin = b.pin BY <1>1, <1>3 DEF Settings
<1> QED BY <1>2, <1>4 DEF b, n

(* One sub key more.                                                       *)
LEMMA ConfiguredNext ==
  ASSUME NEW keys, NEW i \in Nat \ {0}, NEW list, Configured(list, keys, i - 1),
         keys[i].type = "gpio" => keys[i].body \in Settings /\ keys[i].name \in STRING
  PROVE  Configured(CfgNext(keys, list, i), keys, i)
<1>0. i - 1 \in Nat /\ i \in 1..i /\ \A k \in 1..(i - 1) : k \in 1..i /\ k # i OBVIOUS
<1>1. CASE keys[i].type # "gpio"
  <2>1. CfgNext(keys, list, i) = list BY <1>1 DEF CfgNext
  <2> QED BY <1>0, <2>1 DEF Configured
<1>2. CASE keys[i].type = "gpio"
  <2> DEFINE u == Named(keys[i])
             n == Append(list, u)
  <2>1. CfgNext(keys, list, i) = n BY <1>2 DEF CfgNext
  <2>2. u \in Settings BY <1>2, NamedFacts
  <2>3. list \in Seq(Settings) BY DEF Configured
  <2>4. Len(list) \in Nat BY <2>3
  <2> HIDE DEF u
  <2>5. /\ n \in Seq(Settings) /\ Len(n) = Len(list) + 1 /\ n[Len(list) + 1] = u
        /\ \A a \in 1..Len(list) : n[a] = list[a]
    BY <2>2, <2>3
  <2> HIDE DEF n
  <2>6. \A a \in 1..Len(n) : a \in 1..Len(list) \/ a = Len(list) + 1 BY <2>4, <2>5
  <2>7. ASSUME NEW a \in 1..Len(n) PROVE \E k \in 1..i : keys[k].type = "gpio" /\ n[a] = Named(keys[k])
    <3>1. CASE a \in 1..Len(list) BY <1>0, <2>5, <3>1 DEF Configured
    <3>2. CASE a = Len(list) + 1 BY <1>0, <1>2, <2>5, <3>2 DEF u
    <3> QED BY <2>6, <3>1, <3>2
  <2>8. ASSUME NEW a \in 1..Len(n), NEW b \in 1..Len(n), a # b
        PROVE  \E k, l \in 1..i : /\ k # l /\ keys[k].type = "gpio" /\ keys[l].type = "gpio"
                                  /\ n[a] = Named(keys[k]) /\ n[b] = Named(keys[l])
    <3>1. CASE a \in 1..Len(list) /\ b \in 1..Len(list)
      <4>1. PICK k, l \in 1..(i - 1) : /\ k # l /\ keys[k].type = "gpio" /\ keys[l].type = "gpio"
                                       /\ list[a] = Named(keys[k]) /\ list[b] = Named(keys[l])
        BY <2>8, <3>1 DEF Configured
      <4> QED BY <1>0, <2>5, <3>1, <4>1
    <3>2. CASE a \in 1..Len(list) /\ b = Len(list) + 1
      <4>1. PICK k \in 1..(i - 1) : keys[k].type = "gpio" /\ list[a] = Named(keys[k])
        BY <3>2 DEF Configured
      <4>2. k \in 1..i /\ k # i /\ n[a] = Named(keys[k]) BY <1>0, <2>5, <3>2, <4>1
      <4> QED BY <1>0, <1>2, <2>5, <3>2, <4>1, <4>2 DEF u
    <3>3. CASE b \in 1..Len(list) /\ a = Len(list) + 1
      <4>1. PICK k \in 1..(i - 1) : keys[k].type = "gpio" /\ list[b] = Named(keys[k])
        BY <3>3 DEF Configured
      <4>2. k \in 1..i /\ k # i /\ n[b] = Named(keys[k]) BY <1>0, <2>5, <3>3, <4>1
      <4> QED BY <1>0, <1>2, <2>5, <3>3, <4>1, <4>2 DEF u
    <3> QED BY <2>6, <2>8, <3>1, <3>2, <3>3
  <2>9. Configured(n, keys, i) BY <2>5, <2>7, <2>8 DEF Configured
  <2> QED BY <2>1, <2>9
<1> QED BY <1>1, <1>2

(* What SubKeys gives while there is a configuration.                      *)
LEMMA KeysFacts ==
  ASSUME ScriptOk(script, patched), script # NoScript, NEW main \in DOMAIN Board
  PROVE  /\ main \in DOMAIN script /\ SubKeys(main) = script[main]
         /\ Len(SubKeys(main)) = Len(Board[main]) /\ Len(Board[main]) \in Nat
         /\ DOMAIN SubKeys(main) = 1..Len(Board[main]) /\ PinsOnce(SubKeys(main))
         /\ \A i \in 1..Len(Board[main]) :
              /\ SubKeys(main)[i].name = Board[main][i].name
              /\ SubKeys(main)[i].type = Board[main][i].type
              /\ SubKeys(main)[i].name \in STRING
              /\ Body(Board[main][i].type, SubKeys(main)[i].body)
              /\ KeptAs(SubKeys(main)[i], patched[<<main, i>>])
         /\ \A i, j \in 1..Len(Board[main]) : SubKeys(main)[i].name = SubKeys(main)[j].name => i = j
<1> DEFINE keys == script[main]
           n == Len(Board[main])
<1>1. main \in DOMAIN script /\ MainKeyOk(keys, main, patched) BY DEF ScriptOk
<1>2. SubKeys(main) = keys BY <1>1 DEF SubKeys
<1>3. n \in Nat /\ DOMAIN Board[main] = 1..n BY BoardFacts
<1>4. /\ keys = [i \in 1..n |-> keys[i]] /\ PinsOnce(keys)
      /\ \A i \in 1..n : SubKeyOk(keys[i], Board[main][i]) /\ KeptAs(keys[i], patched[<<main, i>>])
  BY <1>1 DEF MainKeyOk
<1> HIDE DEF keys
<1>5. Len(keys) = n /\ DOMAIN keys = 1..n
  <2> DEFINE S == {keys[i] : i \in 1..n}
  <2>1. \A i \in 1..n : keys[i] \in S OBVIOUS
  <2> HIDE DEF S, n
  <2>2. Len(keys) = n BY <1>3, <1>4, <2>1, SeqOfValues
  <2>3. DOMAIN keys = 1..n BY <1>4
  <2> QED BY <2>2, <2>3
<1>6. ASSUME NEW i \in 1..n
      PROVE  /\ keys[i].name = Board[main][i].name /\ keys[i].type = Board[main][i].type
             /\ keys[i].name \in STRING /\ Body(Board[main][i].type, keys[i].body)
  <2>1. /\ keys[i] = [name |-> Board[main][i].name, type |-> Board[main][i].type, body |-> keys[i].body]
        /\ Body(keys[i].type, keys[i].body)
    BY <1>4 DEF SubKeyOk
  <2>2. keys[i].name = Board[main][i].name /\ keys[i].type = Board[main][i].type BY <2>1
  <2>3. Board[main][i].name \in STRING BY <1>3, PinAssumption
  <2> QED BY <2>1, <2>2, <2>3
<1>7. ASSUME NEW i \in 1..n, NEW j \in 1..n, keys[i].name = keys[j].name PROVE i = j
  <2>1. Board[main][i].name = Board[main][j].name BY <1>6, <1>7
  <2>2. i \in DOMAIN Board[main] /\ j \in DOMAIN Board[main] BY <1>3
  <2>3. \A k, l \in DOMAIN Board[main] : Board[main][k].name = Board[main][l].name => k = l
    BY PinAssumption
  <2> HIDE DEF keys, n
  <2> QED BY <2>1, <2>2, <2>3
<1>8. main \in DOMAIN script /\ SubKeys(main) = script[main] BY <1>1, <1>2 DEF keys
<1> HIDE DEF n
<1>9. /\ Len(SubKeys(main)) = n /\ n \in Nat /\ DOMAIN SubKeys(main) = 1..n /\ PinsOnce(SubKeys(main))
      /\ \A i \in 1..n :
           /\ SubKeys(main)[i].name = Board[main][i].name
           /\ SubKeys(main)[i].type = Board[main][i].type
           /\ SubKeys(main)[i].name \in STRING
           /\ Body(Board[main][i].type, SubKeys(main)[i].body)
           /\ KeptAs(SubKeys(main)[i], patched[<<main, i>>])
      /\ \A i, j \in 1..n : SubKeys(main)[i].name = SubKeys(main)[j].name => i = j
  BY <1>2, <1>3, <1>4, <1>5, <1>6, <1>7
<1> QED BY <1>8, <1>9 DEF n

(* The list of a main key's pins.                                          *)
LEMMA CfgFacts ==
  ASSUME ScriptOk(script, patched), NEW main \in DOMAIN Board
  PROVE  LET list == script_parser_mainkey_get_gpio_cfg(main)
         IN  list \in Seq(Settings) /\ PinsDiffer(list) /\ NamesDiffer(list)
<1> DEFINE list == script_parser_mainkey_get_gpio_cfg(main)
           keys == SubKeys(main)
           n == Len(keys)
<1>1. CASE script = NoScript
  <2>1. keys = <<>> BY <1>1 DEF SubKeys, NoScript
  <2>2. n = 0 BY <2>1
  <2>3. n \in Nat BY <2>2
  <2>4. list = <<>>
    <3> HIDE DEF list, keys
    <3>1. Len(SubKeys(main)) \in Nat BY <2>3 DEF keys
    <3>2. PICK cfg : cfg[0] = <<>> /\ list = cfg[n] BY <3>1, CfgTurns DEF list, keys
    <3> QED BY <2>2, <3>2
  <2> HIDE DEF list
  <2>5. list \in Seq(Settings) /\ Len(list) = 0 BY <2>4
  <2> QED BY <2>5 DEF PinsDiffer, NamesDiffer, list
<1>2. CASE script # NoScript
  <2>1. /\ n \in Nat /\ n = Len(Board[main]) /\ DOMAIN keys = 1..n /\ PinsOnce(keys)
        /\ \A i, j \in 1..n : keys[i].name = keys[j].name => i = j
    BY <1>2, KeysFacts
  <2>2. ASSUME NEW i \in 1..n, keys[i].type = "gpio"
        PROVE  keys[i].body \in Settings /\ keys[i].name \in STRING
    BY <1>2, <2>1, <2>2, KeysFacts DEF Body
  <2>3. PICK cfg : /\ cfg[0] = <<>> /\ list = cfg[n]
                   /\ \A i \in 1..n : cfg[i] = CfgNext(keys, cfg[i - 1], i)
    BY <2>1, CfgTurns
  <2> HIDE DEF list, keys, n
  <2> DEFINE Bad == {i \in 0..n : ~Configured(cfg[i], keys, i)}
  <2>4. Bad = {}
    <3> SUFFICES ASSUME Bad # {} PROVE FALSE OBVIOUS
    <3>1. PICK i \in Bad : \A y \in Bad : i <= y
      <4>1. Bad \subseteq Nat BY <2>1
      <4> HIDE DEF Bad
      <4> QED BY <4>1, LeastOf
    <3>2. i \in 0..n /\ ~Configured(cfg[i], keys, i) BY <3>1
    <3>3. CASE i = 0
      <4>1. Configured(<<>>, keys, 0) BY DEF Configured
      <4> QED BY <2>3, <3>2, <3>3, <4>1
    <3>4. CASE i # 0
      <4>1. i \in 1..n /\ i \in Nat \ {0} /\ i - 1 \in 0..n /\ ~(i <= i - 1) BY <2>1, <3>2, <3>4
      <4>2. Configured(cfg[i - 1], keys, i - 1) BY <3>1, <4>1
      <4>3. Configured(CfgNext(keys, cfg[i - 1], i), keys, i) BY <2>2, <4>1, <4>2, ConfiguredNext
      <4> QED BY <2>3, <3>2, <4>1, <4>3
    <3> QED BY <3>3, <3>4
  <2>5. Configured(list, keys, n)
    <3>1. n \in 0..n BY <2>1
    <3> QED BY <2>3, <2>4, <3>1
  <2>6. ASSUME NEW a \in 1..Len(list), NEW b \in 1..Len(list), a # b
        PROVE  list[a].name # list[b].name /\ (list[a].pin # list[b].pin \/ list[a].pin = NoPin)
    <3>1. PICK k \in 1..n, l \in 1..n :
            /\ k # l /\ keys[k].type = "gpio" /\ keys[l].type = "gpio"
            /\ list[a] = Named(keys[k]) /\ list[b] = Named(keys[l])
      BY <2>5, <2>6 DEF Configured
    <3>2. keys[k].body \in Settings /\ keys[k].name \in STRING BY <2>2, <3>1
    <3>3. keys[l].body \in Settings /\ keys[l].name \in STRING BY <2>2, <3>1
    <3>4. list[a].name = keys[k].name /\ list[a].pin = keys[k].body.pin BY <3>1, <3>2, NamedFacts
    <3>5. list[b].name = keys[l].name /\ list[b].pin = keys[l].body.pin BY <3>1, <3>3, NamedFacts
    <3>6. keys[k].name # keys[l].name BY <2>1, <3>1
    <3>7. keys[k].body.pin # keys[l].body.pin \/ keys[k].body.pin = NoPin
      BY <2>1, <3>1 DEF PinsOnce
    <3> QED BY <3>4, <3>5, <3>6, <3>7
  <2>7. PinsDiffer(list) BY <2>6 DEF PinsDiffer
  <2>8. NamesDiffer(list) BY <2>6 DEF NamesDiffer
  <2>9. list \in Seq(Settings) BY <2>5 DEF Configured
  <2> QED BY <2>7, <2>8, <2>9 DEF list
<1> QED BY <1>1, <1>2

(* What is found under a name.                                             *)
LEMMA FetchFacts ==
  ASSUME ScriptOk(script, patched), script # NoScript, NEW main \in DOMAIN Board,
         NEW i \in 1..Len(Board[main])
  PROVE  LET key == SubKeys(main)[i]
             got == script_parser_fetch(main, key.name, 14)
         IN  /\ Found(main, key.name) = {i}
             /\ key.type = "word" => got.value = key.body /\ got.type = "word"
             /\ key.type = "gpio" => got.value = Named(key)
             /\ key.type = "string" =>
                  /\ got.value = SubSeq(key.body, 1, IF 14 < Len(key.body) THEN 14 ELSE Len(key.body))
                  /\ got.type = "string"
             /\ key.type \notin {"word", "gpio", "string"} => got.value = <<>> /\ got.type # "gpio"
<1> DEFINE keys == SubKeys(main)
           key == keys[i]
           ex == script_parser_fetch_ex(main, key.name, 14)
           got == script_parser_fetch(main, key.name, 14)
<1>1. Found(main, key.name) = {i} BY KeysFacts DEF Found
<1>2. (CHOOSE j \in Found(main, key.name) : TRUE) = i BY <1>1
<1>3. ex = CASE key.type = "word" -> Fetched("ok", "word", key.body)
             [] key.type = "string" ->
                  Fetched("ok", "string", SubSeq(key.body, 1, IF 14 < Len(key.body) THEN 14 ELSE Len(key.body)))
             [] key.type = "multi" -> Fetched("ok", "multi", <<>>)
             [] key.type = "gpio" -> IF 14 < 14 THEN Fetched("not_enough", "", <<>>)
                                                ELSE Fetched("ok", "gpio", Named(key))
             [] OTHER -> Fetched("ok", "", <<>>)
  <2>1. Found(main, key.name) # {} BY <1>1
  <2> HIDE DEF keys
  <2> QED BY <1>2, <2>1 DEF script_parser_fetch_ex, Named, keys
<1>4. got = IF key.type = "empty" THEN Fetched("value_null", "", <<>>) ELSE ex
  <2>1. (\E j \in Found(main, key.name) : SubKeys(main)[j].type = "empty") <=> key.type = "empty" BY <1>1
  <2> QED BY <2>1 DEF script_parser_fetch
<1> HIDE DEF ex, got, key
<1>5. CASE key.type = "word" BY <1>1, <1>3, <1>4, <1>5 DEF Fetched, key, got
<1>6. CASE key.type = "string" BY <1>1, <1>3, <1>4, <1>6 DEF Fetched, key, got
<1>7. CASE key.type = "gpio"
  <2>1. ~(14 < 14) OBVIOUS
  <2> QED BY <1>1, <1>3, <1>4, <1>7, <2>1 DEF Fetched, key, got
<1>8. CASE key.type = "empty"
  <2>1. got = Fetched("value_null", "", <<>>) BY <1>4, <1>8
  <2>2. got.value = <<>> /\ got.type = "" BY <2>1 DEF Fetched
  <2> QED BY <1>1, <1>8, <2>2 DEF key, got
<1>9. CASE key.type = "multi" BY <1>1, <1>3, <1>4, <1>9 DEF Fetched, key, got
<1>10. CASE key.type \notin {"word", "gpio", "string", "multi", "empty"}
  <2>1. got = Fetched("ok", "", <<>>) BY <1>3, <1>4, <1>10
  <2>2. got.value = <<>> /\ got.type = "" BY <2>1 DEF Fetched
  <2> QED BY <1>1, <1>10, <2>2 DEF key, got
<1> QED BY <1>5, <1>6, <1>7, <1>8, <1>9, <1>10

(* The words and strings after an index.                                   *)
Values(main, index) ==
  {i \in 1..Len(Board[main]) : i > index /\ Board[main][i].type \in {"word", "string"}}

(* script_parser_fetch_subkey_next finds the least word or string after an *)
(* index, if any.                                                          *)
LEMMA NextValue ==
  ASSUME ScriptOk(script, patched), script # NoScript, NEW main \in DOMAIN Board,
         NEW index \in 0..Len(Board[main])
  PROVE  LET j == script_parser_fetch_subkey_next(main, index)
         IN  \/ j = {} /\ Values(main, index) = {}
             \/ \E m \in 1..Len(Board[main]) :
                  /\ m > index /\ j = {m} /\ Values(main, index) = {m} \cup Values(main, m)
<1> DEFINE n == Len(Board[main])
           W == Values(main, index)
           j == script_parser_fetch_subkey_next(main, index)
<1>1. n \in Nat BY KeysFacts
<1>2. j = {i \in W : \A k \in W : i <= k}
  <2>1. {i \in DOMAIN SubKeys(main) : i > index /\ SubKeys(main)[i].type \in {"word", "string"}} = W
    BY KeysFacts DEF Values
  <2> HIDE DEF W
  <2> QED BY <2>1 DEF script_parser_fetch_subkey_next
<1>3. W \subseteq Nat /\ W \subseteq 1..n BY <1>1 DEF Values
<1>4. \A i \in W : i > index BY DEF Values
<1> HIDE DEF j, W
<1>5. CASE W = {} BY <1>2, <1>5 DEF j, W
<1>6. CASE W # {}
  <2>1. PICK m \in W : \A k \in W : m <= k BY <1>3, <1>6, LeastOf
  <2>2. m \in 1..n /\ m > index BY <1>3, <1>4, <2>1
  <2>3. j = {m}
    <3>1. ASSUME NEW i \in W, \A k \in W : i <= k PROVE i = m
      <4>1. i <= m /\ m <= i BY <2>1, <3>1
      <4>2. i \in Nat /\ m \in Nat BY <1>3, <2>1
      <4> QED BY <4>1, <4>2
    <3>2. m \in j BY <1>2, <2>1
    <3>3. \A i \in j : i = m BY <1>2, <3>1
    <3> QED BY <3>2, <3>3
  <2>4. W = {m} \cup Values(main, m)
    <3>1. \A k \in W : k = m \/ k > m BY <1>3, <2>1
    <3>2. \A k \in Values(main, m) : k > index BY <2>2 DEF Values
    <3>3. W \subseteq {m} \cup Values(main, m) BY <3>1 DEF W, Values
    <3>4. {m} \cup Values(main, m) \subseteq W BY <2>1, <3>2 DEF W, Values
    <3> QED BY <3>3, <3>4
  <2> QED BY <2>2, <2>3, <2>4 DEF j, W
<1> QED BY <1>5, <1>6

(* So the walk meets all of them: the recursion has a solution, and any    *)
(* solution has these values, by the largest index where it has not.       *)
LEMMA WalkFacts ==
  ASSUME ScriptOk(script, patched), script # NoScript, NEW main \in DOMAIN Board
  PROVE  Walk(main) = {i \in DOMAIN Board[main] : Board[main][i].type \in {"word", "string"}}
<1> DEFINE n == Len(Board[main])
           Turn(g, index) == LET j == script_parser_fetch_subkey_next(main, index)
                             IN  IF j = {} THEN {} ELSE j \cup g[CHOOSE k \in j : TRUE]
           Is(g) == g = [index \in 0..n |-> Turn(g, index)]
           walk == CHOOSE g : Is(g)
           W == [index \in 0..n |-> Values(main, index)]
           e == [index \in 0..n |-> Turn(W, index)]
           Bad == {n - index : index \in {i \in 0..n : walk[i] # W[i]}}
<1>1. n \in Nat BY KeysFacts
<1>2. script_parser_subkey_count(main) = n BY KeysFacts DEF script_parser_subkey_count
<1>3. Walk(main) = walk[0] BY <1>2 DEF Walk
<1>4. ASSUME NEW index \in 0..n, NEW g, \A m \in 0..n : m > index => g[m] = W[m]
      PROVE  Turn(g, index) = W[index]
  <2> DEFINE j == script_parser_fetch_subkey_next(main, index)
  <2>1. W[index] = Values(main, index) OBVIOUS
  <2>2. CASE j = {} /\ Values(main, index) = {} BY <2>1, <2>2
  <2>3. CASE \E m \in 1..n : m > index /\ j = {m} /\ Values(main, index) = {m} \cup Values(main, m)
    <3>1. PICK m \in 1..n : m > index /\ j = {m} /\ Values(main, index) = {m} \cup Values(main, m)
      BY <2>3
    <3>2. m \in 0..n /\ W[m] = Values(main, m) BY <1>1
    <3>3. g[m] = Values(main, m) BY <1>4, <3>1, <3>2
    <3> HIDE DEF j, W
    <3>4. j # {} /\ (CHOOSE k \in j : TRUE) = m BY <3>1
    <3>5. Turn(g, index) = j \cup g[m] BY <3>4 DEF j
    <3> QED BY <2>1, <3>1, <3>3, <3>5
  <2> QED BY <2>2, <2>3, NextValue
<1> HIDE DEF Turn, n
<1>5. e = W
  <2>1. e = [i \in 0..n |-> e[i]] /\ W = [i \in 0..n |-> W[i]] OBVIOUS
  <2>2. \A i \in 0..n : e[i] = W[i] BY <1>4
  <2> HIDE DEF e, W
  <2> QED BY <2>1, <2>2
<1>6. Is(walk)
  <2>1. Is(W) BY <1>5
  <2> HIDE DEF Is, W
  <2> QED BY <2>1
<1> HIDE DEF walk, W
<1>7. \A i \in 0..n : walk[i] = Turn(walk, i) BY <1>6
<1>8. Bad = {}
  <2> SUFFICES ASSUME Bad # {} PROVE FALSE OBVIOUS
  <2>1. PICK x \in Bad : \A y \in Bad : x <= y
    <3>1. Bad \subseteq Nat BY <1>1
    <3> HIDE DEF Bad
    <3> QED BY <3>1, LeastOf
  <2>2. PICK index \in 0..n : x = n - index /\ walk[index] # W[index] BY <2>1
  <2>3. ASSUME NEW m \in 0..n, m > index PROVE walk[m] = W[m]
    <3>1. ~(x <= n - m) BY <1>1, <2>2, <2>3
    <3>2. n - m \notin Bad BY <2>1, <3>1
    <3> QED BY <3>2
  <2>4. Turn(walk, index) = W[index] BY <1>4, <2>3
  <2> QED BY <1>7, <2>2, <2>4
<1>9. walk[0] = W[0]
  <2>1. 0 \in 0..n BY <1>1
  <2>2. n - 0 \notin Bad BY <1>8
  <2> QED BY <2>1, <2>2
<1>10. W[0] = {i \in DOMAIN Board[main] : Board[main][i].type \in {"word", "string"}}
  <2>1. DOMAIN Board[main] = 1..n BY KeysFacts, BoardFacts DEF n
  <2>2. W[0] = Values(main, 0) BY <1>1 DEF W
  <2>3. \A i \in 1..n : i > 0 BY <1>1
  <2> QED BY <2>1, <2>2, <2>3 DEF Values, n
<1> QED BY <1>3, <1>9, <1>10

(* What the configuration says of every key is what was last put there.    *)
LEMMA ScriptOkKept ==
  ASSUME ScriptOk(script, patched) PROVE ScriptKept
<1> SUFFICES ASSUME script # NoScript PROVE ScriptKept BY DEF ScriptKept
<1>1. ASSUME NEW k \in Keys
      PROVE  LET key == script[k[1]][k[2]]
                 got == script_parser_fetch(k[1], key.name, 14)
             IN  CASE key.type = "word" -> got.value = patched[k]
                   [] key.type = "gpio" -> got.value = [patched[k] EXCEPT !.name = key.name]
                   [] key.type = "string" -> \/ StartsWith(got.value, patched[k])
                                             \/ StartsWith(patched[k], got.value)
                   [] OTHER -> got.value = <<>>
  <2>0. PICK main \in DOMAIN Board : \E i \in DOMAIN Board[main] : k = <<main, i>> BY DEF Keys
  <2>1. PICK i \in DOMAIN Board[main] : k = <<main, i>> BY <2>0
  <2>2. i \in 1..Len(Board[main]) BY BoardFacts
  <2> DEFINE key == SubKeys(main)[i]
             got == script_parser_fetch(main, key.name, 14)
             old == patched[k]
  <2>3. k[1] = main /\ k[2] = i /\ key = script[k[1]][k[2]] BY <2>1, KeysFacts
  <2>4. KeptAs(key, old) /\ Body(key.type, key.body) BY <2>1, <2>2, KeysFacts
  <2>5. /\ key.type = "word" => got.value = key.body
        /\ key.type = "gpio" => got.value = Named(key)
        /\ key.type = "string" =>
             got.value = SubSeq(key.body, 1, IF 14 < Len(key.body) THEN 14 ELSE Len(key.body))
        /\ key.type \notin {"word", "gpio", "string"} => got.value = <<>>
    BY <2>2, FetchFacts
  <2>6. got = script_parser_fetch(k[1], script[k[1]][k[2]].name, 14) BY <2>3
  <2> HIDE DEF key, got, old
  <2>7. key.type = "word" => got.value = old BY <2>4, <2>5 DEF KeptAs
  <2>8. key.type = "gpio" => got.value = [old EXCEPT !.name = key.name]
    BY <2>4, <2>5 DEF KeptAs, Named
  <2>9. ASSUME key.type = "string" PROVE StartsWith(got.value, old) \/ StartsWith(old, got.value)
    <3> DEFINE body == key.body
               t == IF 14 < Len(body) THEN 14 ELSE Len(body)
               v == SubSeq(body, 1, t)
    <3>1. body \in Seq(Int) /\ old \in Seq(Int) /\ Comparable(body, old) BY <2>4, <2>9 DEF KeptAs, Body
    <3>2. got.value = v BY <2>5, <2>9
    <3>3. Len(body) \in Nat BY <3>1
    <3>4. t \in Nat /\ t <= Len(body) BY <3>3
    <3> HIDE DEF t, body
    <3>5. v \in Seq(Int) /\ Len(v) = t /\ \A j \in 1..t : v[j] = body[j] BY <3>1, <3>3, <3>4
    <3> HIDE DEF v
    <3>6. Comparable(v, old)
      <4>1. \A j \in 1..t : j \in 1..Len(body) BY <3>3, <3>4
      <4> QED BY <3>1, <3>5, <4>1 DEF Comparable
    <3> QED BY <3>1, <3>2, <3>5, <3>6, ComparableStarts
  <2>10. CASE got.value = <<>> /\ key.type \notin {"word", "gpio", "string"}
    BY <2>3, <2>6, <2>10
  <2>11. CASE key.type = "word" BY <2>3, <2>6, <2>7, <2>11 DEF old
  <2>12. CASE key.type = "gpio" BY <2>3, <2>6, <2>8, <2>12 DEF old
  <2>13. CASE key.type = "string" BY <2>3, <2>6, <2>9, <2>13 DEF old
  <2> QED BY <2>5, <2>10, <2>11, <2>12, <2>13
<1>2. \A main \in DOMAIN Board :
        Walk(main) = {i \in DOMAIN Board[main] : Board[main][i].type \in {"word", "string"}}
  BY WalkFacts
<1> QED BY <1>1, <1>2 DEF ScriptKept

-----------------------------------------------------------------------------
(* The handles.                                                            *)

(* A handle has at least one pin, and its pins and their names differ.     *)
GoodHandle(h) ==
  /\ h # <<>> /\ EntryPins(h)
  /\ \A i \in 1..Len(h) : Entry0(h[i])
  /\ \A i, j \in 1..Len(h) : h[i].user.name = h[j].user.name => i = j

Handles == {h \in Seq(EntrySet) : GoodHandle(h)}

(* The inductive invariant.                                                *)
ConfigInv == PinTypes /\ pinHandles \in Seq(Handles) /\ ScriptOk(script, patched)

(* The entries that a request makes are a good handle.                     *)
LEMMA ListHandle ==
  ASSUME NEW list \in Seq(Settings), PinsDiffer(list), NamesDiffer(list), NEW h,
         FromList(h, list, Len(list)), h # <<>>
  PROVE  h \in Handles
<1>1. h \in Seq(EntrySet) /\ Len(h) \in Nat BY DEF FromList
<1>2. \A i \in 1..Len(h) : Entry0(h[i]) BY DEF FromList
<1>3. \A i \in 1..Len(h) : h[i].user.pin \in Pins BY <1>2 DEF Entry0
<1>4. ASSUME NEW i \in 1..Len(h), NEW j \in 1..Len(h), i # j
      PROVE  h[i].user.pin # h[j].user.pin /\ h[i].user.name # h[j].user.name
  <2>1. PICK k, l \in 1..Len(list) : k # l /\ h[i].user = list[k] /\ h[j].user = list[l]
    BY <1>4 DEF FromList
  <2>2. list[k].pin \in Pins BY <1>3, <2>1
  <2>3. list[k].pin # list[l].pin BY <2>1, <2>2, PinAssumption DEF PinsDiffer
  <2>4. list[k].name # list[l].name BY <2>1 DEF NamesDiffer
  <2> QED BY <2>1, <2>3, <2>4
<1>5. GoodHandle(h) BY <1>2, <1>3, <1>4 DEF GoodHandle, EntryPins
<1> QED BY <1>1, <1>5 DEF Handles

(* What the buffers in the callers' hands are.                             *)
LEMMA HandleFacts ==
  ASSUME ConfigInv, NEW h \in DOMAIN pinHandles
  PROVE  /\ pinHandles[h] \in Seq(EntrySet) /\ GoodHandle(pinHandles[h])
         /\ Len(pinHandles[h]) \in Nat /\ DOMAIN pinHandles[h] = 1..Len(pinHandles[h])
<1>1. pinHandles[h] \in Handles BY DEF ConfigInv
<1>2. pinHandles[h] \in Seq(EntrySet) /\ GoodHandle(pinHandles[h]) BY <1>1 DEF Handles
<1> HIDE DEF ConfigInv
<1> QED BY <1>2

(* The pins that a name stands for, and the entry that has the name.       *)
LEMMA OnePinFacts ==
  ASSUME ConfigInv, NEW h \in DOMAIN pinHandles
  PROVE  /\ \A name : OnePin(h, name) \subseteq Pins
         /\ \A name : \A i \in ByName(h, name) : i \in 1..Len(pinHandles[h])
         /\ \A i \in 1..Len(pinHandles[h]) :
              /\ ByName(h, pinHandles[h][i].user.name) = {i}
              /\ OnePin(h, pinHandles[h][i].user.name) = {pinHandles[h][i].user.pin}
<1> DEFINE e == pinHandles[h]
           n == Len(e)
<1>1. n \in Nat /\ DOMAIN e = 1..n /\ GoodHandle(e) BY HandleFacts
<1>2. \A i \in 1..n : e[i].user.pin \in Pins BY <1>1 DEF GoodHandle, EntryPins
<1>3. \A name : \A i \in ByName(h, name) : i \in 1..n BY <1>1 DEF ByName
<1>4. ASSUME NEW name PROVE OnePin(h, name) \subseteq Pins
  <2> DEFINE hits == IF Len(pinHandles[h]) = 1 THEN {1} ELSE ByName(h, name)
  <2>1. OnePin(h, name) = {e[i].user.pin : i \in {j \in hits : \A k \in hits : j <= k}} BY DEF OnePin
  <2>2. hits \subseteq 1..n BY <1>1, <1>3
  <2> HIDE DEF hits, e
  <2> QED BY <1>2, <2>1, <2>2
<1>5. ASSUME NEW i \in 1..n
      PROVE  ByName(h, e[i].user.name) = {i} /\ OnePin(h, e[i].user.name) = {e[i].user.pin}
  <2>1. ByName(h, e[i].user.name) = {i} BY <1>1 DEF ByName, GoodHandle
  <2> DEFINE hits == IF Len(pinHandles[h]) = 1 THEN {1} ELSE ByName(h, e[i].user.name)
  <2>2. hits = {i} BY <1>1, <2>1
  <2>3. OnePin(h, e[i].user.name) = {e[j].user.pin : j \in {j \in hits : \A k \in hits : j <= k}}
    BY DEF OnePin
  <2> HIDE DEF hits
  <2>4. {j \in hits : \A k \in hits : j <= k} = {i} BY <1>1, <2>2
  <2> QED BY <2>1, <2>3, <2>4
<1> QED BY <1>3, <1>4, <1>5 DEF e, n

(* The invariant implies the property.                                     *)
LEMMA InvKept ==
  ASSUME ConfigInv PROVE ConfigKept
<1>1. PinTypes /\ ScriptOk(script, patched) BY DEF ConfigInv
<1>2. ScriptKept BY <1>1, ScriptOkKept
<1>3. ASSUME NEW p \in Pins
      PROVE  /\ <<pio.func[p], pio.pull[p], pio.dlevel[p]>> = <<pinSpec[p].func, pinSpec[p].pull, pinSpec[p].dlevel>>
             /\ pinSpec[p].out # Unknown => pio.func[p] = 1 /\ pio.data[p] = pinSpec[p].out
  <2>1. /\ pio.func[p] = pinSpec[p].func /\ pio.pull[p] = pinSpec[p].pull
        /\ pio.dlevel[p] = pinSpec[p].dlevel
    BY <1>1 DEF PinTypes, RegistersKept, Three
  <2>2. pinSpec[p].out # Unknown => pinSpec[p].func = 1 /\ pio.data[p] = pinSpec[p].out
    BY <1>1 DEF PinTypes, RegistersKept
  <2> QED BY <2>1, <2>2
<1>4. ASSUME NEW h \in DOMAIN pinHandles, NEW i \in DOMAIN pinHandles[h]
      PROVE  LET u == pinHandles[h][i].user
                 read == IF pinSpec[u.pin].func = 0 THEN pinLevel[u.pin] ELSE EGPIO_FAIL
             IN  /\ gpio_get_one_pin_status(h, u.name) = {gpio_get_all_pin_status(h)[i]}
                 /\ gpio_get_all_pin_status(h)[i].func = pinSpec[u.pin].func
                 /\ gpio_read_one_pin_value(h, u.name) = {read}
  <2> DEFINE e == pinHandles[h]
             u == e[i].user
             p == u.pin
             read == IF pinSpec[p].func = 0 THEN pinLevel[p] ELSE EGPIO_FAIL
  <2>1. i \in 1..Len(e) BY HandleFacts
  <2>2. p \in Pins BY <2>1, HandleFacts DEF GoodHandle, EntryPins
  <2>3. ByName(h, u.name) = {i} /\ OnePin(h, u.name) = {p} BY <2>1, OnePinFacts
  <2>4. gpio_get_all_pin_status(h)[i] = HardwareStatus(p) BY DEF gpio_get_all_pin_status
  <2>5. gpio_get_one_pin_status(h, u.name) = {HardwareStatus(p)}
    BY <2>3 DEF gpio_get_one_pin_status
  <2>6. HardwareStatus(p).func = pio.func[p] BY DEF HardwareStatus
  <2>7. pio.func[p] = pinSpec[p].func BY <1>3, <2>2
  <2>8. gpio_read_one_pin_value(h, u.name) = {read}
    <3>1. gpio_read_one_pin_value(h, u.name)
            = {IF pio.func[p] = 0 THEN ReadReg(pio, "data", Group("data", p))[p] ELSE EGPIO_FAIL}
      <4> HIDE DEF p, u, e
      <4> QED BY <2>3 DEF gpio_read_one_pin_value
    <3>2. pio.func[p] = 0 => ReadReg(pio, "data", Group("data", p))[p] = pinLevel[p]
      <4> HIDE DEF p, u, e
      <4> QED BY <2>2 DEF ReadReg
    <3> QED BY <2>7, <3>1, <3>2
  <2> QED BY <2>4, <2>5, <2>6, <2>7, <2>8
<1>5. PinsKept BY <1>3, <1>4 DEF PinsKept
<1> QED BY <1>2, <1>5 DEF ConfigKept

-----------------------------------------------------------------------------
(* One lemma for each kind of call.                                        *)

LEMMA FlushAgree ==
  ASSUME NEW s, Loaded(s), NEW sp \in [Pins -> Specs], Agree(s, sp)
  PROVE  LET r == Flush(s, s.changed \cup {"func"}) IN r \in Regs /\ RegistersKept(r, sp)
<1> DEFINE fields == s.changed \cup {"func"}
           r == Flush(s, fields)
<1>1. /\ r \in Regs
      /\ \A f \in Fields : \A q \in Pins : r[f][q] = IF f \in fields THEN Shows(s, f, q) ELSE s.r[f][q]
  BY FlushFacts
<1> HIDE DEF r
<1>2. ASSUME NEW f \in Three, NEW q \in Pins PROVE r[f][q] = sp[q][f]
  <2>1. f \in Fields BY FieldNames
  <2>2. Shows(s, f, q) = sp[q][f] /\ (f \in s.changed \/ Shows(s, f, q) = s.r[f][q]) BY DEF Agree
  <2> QED BY <1>1, <2>1, <2>2
<1>3. ASSUME NEW q \in Pins, sp[q].out # Unknown PROVE sp[q].func = 1 /\ r["data"][q] = sp[q].out
  <2>1. /\ sp[q].func = 1 /\ Shows(s, "data", q) = sp[q].out
        /\ "data" \in s.changed \/ s.r["data"][q] = sp[q].out
    BY <1>3 DEF Agree
  <2>2. "data" \in Fields BY FieldNames
  <2> QED BY <1>1, <2>1, <2>2
<1> QED BY <1>1, <1>2, <1>3 DEF RegistersKept, r

(* gpio_request.                                                           *)
LEMMA RequestKept ==
  ASSUME ConfigInv, NEW list \in Seq(Settings), PinsDiffer(list), NamesDiffer(list),
         gpio_request(list)
  PROVE  ConfigInv'
<1>1. /\ PinTypes /\ pinHandles \in Seq(Handles) /\ ScriptOk(script, patched) BY DEF ConfigInv
<1>2. UNCHANGED <<script, patched, pinLevel>> BY DEF gpio_request, scriptVars
<1>3. CASE \A i \in DOMAIN list : list[i].pin = NoPin
  <2>1. UNCHANGED <<pio, pinHandles, pinSpec>> BY <1>3 DEF gpio_request
  <2> QED BY <1>1, <1>2, <2>1 DEF ConfigInv, PinTypes
<1>4. CASE ~ \A i \in DOMAIN list : list[i].pin = NoPin
  <2> DEFINE s == RequestPins(list)
             n == Len(list)
             sp == SpecAt(list, n)
             r == Flush(s, s.changed \cup {"func"})
  <2>1. n \in Nat /\ DOMAIN list = 1..n /\ n \in 0..n OBVIOUS
  <2>2. pio' = r /\ pinHandles' = Append(pinHandles, s.entries) BY <1>4 DEF gpio_request
  <2>3. pinSpec' = sp
    <3>1. pinSpec' = [p \in Pins |->
                        IF \E i \in DOMAIN list : list[i].pin = p
                        THEN AskedOf(pinSpec[p], list[CHOOSE i \in DOMAIN list : list[i].pin = p])
                        ELSE pinSpec[p]]
      BY <1>4 DEF gpio_request
    <3> QED BY <2>1, <3>1 DEF SpecAt
  <2>4. Requested(s, list, n) BY <1>1, RequestedAll
  <2>5. \E i \in 1..n : list[i].pin # NoPin BY <1>4, <2>1
  <2>6. sp \in [Pins -> Specs] BY <1>1, <2>1, SpecAtFacts DEF PinTypes
  <2> HIDE DEF sp, s
  <2>7. Loaded(s) /\ Agree(s, sp) /\ FromList(s.entries, list, n) /\ s.entries # <<>>
    BY <2>4, <2>5 DEF Requested, sp
  <2>8. r \in Regs /\ RegistersKept(r, sp) BY <2>6, <2>7, FlushAgree
  <2> HIDE DEF r
  <2>9. s.entries \in Handles BY <2>7, ListHandle
  <2>10. pinHandles' \in Seq(Handles) BY <1>1, <2>2, <2>9
  <2>11. PinTypes' BY <1>1, <1>2, <2>2, <2>3, <2>6, <2>8 DEF PinTypes
  <2> QED BY <1>1, <1>2, <2>10, <2>11 DEF ConfigInv
<1> QED BY <1>3, <1>4

(* gpio_request_ex, with a main key or with one sub key.                   *)
LEMMA RequestExKept ==
  ASSUME ConfigInv, NEW main \in DOMAIN Board, NEW sub, gpio_request_ex(main, sub)
  PROVE  ConfigInv'
<1>1. ScriptOk(script, patched) BY DEF ConfigInv
<1>2. CASE sub = ""
  <2> DEFINE list == script_parser_mainkey_get_gpio_cfg(main)
  <2>1. list \in Seq(Settings) /\ PinsDiffer(list) /\ NamesDiffer(list) BY <1>1, CfgFacts
  <2>2. gpio_request(list) BY <1>2 DEF gpio_request_ex
  <2> QED BY <2>1, <2>2, RequestKept
<1>3. CASE sub # ""
  <2> DEFINE f == script_parser_fetch(main, sub, 14)
             list == <<f.value>>
  <2>1. f.status = "ok" /\ f.type = "gpio" /\ gpio_request(list) BY <1>3 DEF gpio_request_ex
  <2>2. f.value \in Settings
    <3>1. script # NoScript /\ Found(main, sub) # {}
      <4>1. ASSUME script = NoScript \/ Found(main, sub) = {} PROVE f.status # "ok"
        <5>1. (\E i \in Found(main, sub) : SubKeys(main)[i].type = "empty")
                => f = Fetched("value_null", "", <<>>)
          BY DEF script_parser_fetch
        <5>2. ~ (\E i \in Found(main, sub) : SubKeys(main)[i].type = "empty")
                => f = script_parser_fetch_ex(main, sub, 14)
          BY DEF script_parser_fetch
        <5>3. \/ script_parser_fetch_ex(main, sub, 14) = Fetched("empty_buffer", "", <<>>)
              \/ script_parser_fetch_ex(main, sub, 14) = Fetched("not_find", "", <<>>)
          BY <4>1 DEF script_parser_fetch_ex
        <5> HIDE DEF f
        <5>4. \/ f = Fetched("value_null", "", <<>>) \/ f = Fetched("empty_buffer", "", <<>>)
              \/ f = Fetched("not_find", "", <<>>)
          BY <5>1, <5>2, <5>3
        <5>5. /\ Fetched("value_null", "", <<>>).status = "value_null"
              /\ Fetched("empty_buffer", "", <<>>).status = "empty_buffer"
              /\ Fetched("not_find", "", <<>>).status = "not_find"
          BY DEF Fetched
        <5>6. f.status = "value_null" \/ f.status = "empty_buffer" \/ f.status = "not_find"
          BY <5>4, <5>5
        <5> QED BY <5>6
      <4> QED BY <2>1, <4>1
    <3>2. PICK i \in Found(main, sub) : TRUE BY <3>1
    <3>3. i \in 1..Len(Board[main]) /\ SubKeys(main)[i].name = sub
      BY <1>1, <3>1, <3>2, KeysFacts DEF Found
    <3> DEFINE key == SubKeys(main)[i]
    <3>4. f = script_parser_fetch(main, key.name, 14) BY <3>3
    <3>5. /\ key.type = "word" => f.type = "word"
          /\ key.type = "gpio" => f.value = Named(key)
          /\ key.type = "string" => f.type = "string"
          /\ key.type \notin {"word", "gpio", "string"} => f.type # "gpio"
      BY <1>1, <3>1, <3>3, <3>4, FetchFacts
    <3>6. key.type = "gpio" /\ f.value = Named(key) BY <2>1, <3>5
    <3>7. key.body \in Settings /\ key.name \in STRING
      BY <1>1, <3>1, <3>3, <3>6, KeysFacts DEF Body
    <3> HIDE DEF key
    <3> QED BY <3>6, <3>7, NamedFacts
  <2> HIDE DEF f
  <2>3. list \in Seq(Settings) /\ Len(list) = 1 BY <2>2
  <2> HIDE DEF list
  <2>4. PinsDiffer(list) /\ NamesDiffer(list) BY <2>3 DEF PinsDiffer, NamesDiffer
  <2> QED BY <2>1, <2>3, <2>4, RequestKept
<1> QED BY <1>2, <1>3

(* A sequence without one of its elements.                                 *)
LEMMA FreedFacts ==
  ASSUME NEW S, NEW s \in Seq(S), NEW h \in DOMAIN s
  PROVE  SubSeq(s, 1, h - 1) \o SubSeq(s, h + 1, Len(s)) \in Seq(S)
<1>1. Len(s) \in Nat /\ h \in 1..Len(s) OBVIOUS
<1>2. SubSeq(s, 1, h - 1) \in Seq(S)
  <2>1. \A i \in 1..(h - 1) : s[i] \in S BY <1>1
  <2> QED BY <1>1, <2>1
<1>3. SubSeq(s, h + 1, Len(s)) \in Seq(S)
  <2>1. \A i \in (h + 1)..Len(s) : s[i] \in S BY <1>1
  <2> QED BY <1>1, <2>1
<1> QED BY <1>2, <1>3, ConcatProperties

(* The pins of a handle as gpio_release leaves them.                       *)
ReleasedSpec(h) ==
  LET e(p) == pinHandles[h][CHOOSE i \in DOMAIN pinHandles[h] : pinHandles[h][i].user.pin = p]
  IN  [p \in Pins |->
         IF \E i \in DOMAIN pinHandles[h] : pinHandles[h][i].user.pin = p
           THEN [func |-> 0, out |-> Unknown,
                 pull |-> IF e(p).user.pull >= 0 THEN e(p).before.pull ELSE 0,
                 dlevel |-> IF e(p).user.drv_level >= 0 THEN e(p).before.dlevel ELSE 0]
           ELSE pinSpec[p]]

(* What is asked of a pin after the release: what was asked before the     *)
(* request, as far as the request changed it.                              *)
LEMMA ReleasedSpecFacts ==
  ASSUME ConfigInv, NEW h \in DOMAIN pinHandles
  PROVE  LET es == pinHandles[h]
         IN  /\ ReleasedSpec(h) = [p \in Pins |-> ReleasedSpec(h)[p]]
             /\ \A i \in 1..Len(es) :
                  ReleasedSpec(h)[es[i].user.pin]
                    = [func |-> 0, out |-> Unknown, pull |-> es[i].pull, dlevel |-> es[i].dlevel]
             /\ \A p \in Pins : (\A i \in 1..Len(es) : es[i].user.pin # p) => ReleasedSpec(h)[p] = pinSpec[p]
<1> DEFINE es == pinHandles[h]
           at(p) == CHOOSE i \in DOMAIN es : es[i].user.pin = p
           sp == ReleasedSpec(h)
<1>1. /\ DOMAIN es = 1..Len(es) /\ EntryPins(es) /\ \A i \in 1..Len(es) : Entry0(es[i])
  BY HandleFacts DEF GoodHandle
<1>2. sp = [p \in Pins |-> sp[p]] BY DEF ReleasedSpec
<1>3. ASSUME NEW i \in 1..Len(es)
      PROVE  sp[es[i].user.pin] = [func |-> 0, out |-> Unknown, pull |-> es[i].pull, dlevel |-> es[i].dlevel]
  <2> DEFINE p == es[i].user.pin
  <2>1. p \in Pins /\ \A j \in 1..Len(es) : es[j].user.pin = p => j = i BY <1>1 DEF EntryPins
  <2>2. at(p) = i BY <1>1, <2>1
  <2>3. sp[p] = [func |-> 0, out |-> Unknown,
                 pull |-> IF es[at(p)].user.pull >= 0 THEN es[at(p)].before.pull ELSE 0,
                 dlevel |-> IF es[at(p)].user.drv_level >= 0 THEN es[at(p)].before.dlevel ELSE 0]
    BY <1>1, <2>1 DEF ReleasedSpec
  <2>4. /\ es[i].pull = IF es[i].user.pull >= 0 THEN es[i].before.pull ELSE 0
        /\ es[i].dlevel = IF es[i].user.drv_level >= 0 THEN es[i].before.dlevel ELSE 0
    BY <1>1 DEF Entry0
  <2> HIDE DEF sp, es, at
  <2> QED BY <2>2, <2>3, <2>4 DEF es
<1>4. ASSUME NEW p \in Pins, \A i \in 1..Len(es) : es[i].user.pin # p PROVE sp[p] = pinSpec[p]
  BY <1>1, <1>4 DEF ReleasedSpec
<1> QED BY <1>2, <1>3, <1>4

(* gpio_release.                                                           *)
LEMMA ReleaseKept ==
  ASSUME ConfigInv, NEW h \in DOMAIN pinHandles, NEW mode, gpio_release(h, mode)
  PROVE  ConfigInv'
<1>1. /\ PinTypes /\ pinHandles \in Seq(Handles) /\ ScriptOk(script, patched) BY DEF ConfigInv
<1>2. UNCHANGED <<script, patched, pinLevel>> BY DEF gpio_release, scriptVars
<1>3. pinHandles' \in Seq(Handles)
  <2>1. pinHandles' = Freed(h) BY DEF gpio_release
  <2> HIDE DEF Handles
  <2> QED BY <1>1, <2>1, FreedFacts DEF Freed
<1>4. CASE mode = 2
  <2>1. UNCHANGED <<pio, pinSpec>> BY <1>4 DEF gpio_release
  <2> QED BY <1>1, <1>2, <1>3, <2>1 DEF ConfigInv, PinTypes
<1>5. CASE mode # 2
  <2> DEFINE es == pinHandles[h]
             n == Len(es)
             s == ReleasePins(es)
             sp == ReleasedSpec(h)
             r == Flush(s, {"func", "pull", "dlevel"})
  <2>1. pio' = r BY <1>5 DEF gpio_release
  <2>2. pinSpec' = sp BY <1>5 DEF gpio_release, ReleasedSpec
  <2>3. n \in Nat /\ es \in Seq(EntrySet) /\ GoodHandle(es) BY HandleFacts
  <2>4. Released(s, es, n) BY <1>1, <2>3, ReleasedAll DEF GoodHandle
  <2>5. n > 0 BY <2>3 DEF GoodHandle
  <2>6. /\ sp = [p \in Pins |-> sp[p]]
        /\ \A i \in 1..n :
             sp[es[i].user.pin] = [func |-> 0, out |-> Unknown, pull |-> es[i].pull, dlevel |-> es[i].dlevel]
        /\ \A p \in Pins : (\A i \in 1..n : es[i].user.pin # p) => sp[p] = pinSpec[p]
    BY ReleasedSpecFacts
  <2>7. \A i \in 1..n : es[i].pull \in Int /\ es[i].dlevel \in Int /\ es[i].user.pin \in Pins
    <3>1. \A i \in 1..n : es[i] \in EntrySet BY <2>3
    <3>2. \A e \in EntrySet : e.pull \in Int /\ e.dlevel \in Int BY DEF EntrySet
    <3>3. \A i \in 1..n : es[i].user.pin \in Pins BY <2>3 DEF GoodHandle, EntryPins
    <3> HIDE DEF es
    <3> QED BY <3>1, <3>2, <3>3
  <2> HIDE DEF s, sp, es, n
  <2>8. /\ Loaded(s) /\ \A q \in Pins : s.r["data"][q] = pio["data"][q]
        /\ \A f \in Three : \A q \in Pins :
             (\A j \in 1..n : es[j].user.pin # q) => Shows(s, f, q) = pinSpec[q][f]
        /\ \A f \in Three : \A j \in 1..n : Shows(s, f, es[j].user.pin) = FreedField(es[j], f)
    BY <2>4, <2>5 DEF Released
  <2>9. /\ r \in Regs
        /\ \A f \in Fields : \A q \in Pins :
             r[f][q] = IF f \in {"func", "pull", "dlevel"} THEN Shows(s, f, q) ELSE s.r[f][q]
    BY <2>8, FlushFacts
  <2> HIDE DEF r
  <2>10. ASSUME NEW q \in Pins
         PROVE  /\ sp[q] \in Specs /\ \A f \in Three : r[f][q] = sp[q][f]
                /\ sp[q].out # Unknown => sp[q].func = 1 /\ r["data"][q] = sp[q].out
    <3>1. r["data"][q] = pio["data"][q] BY <2>8, <2>9, FieldNames
    <3>2. \A f \in Three : r[f][q] = Shows(s, f, q) BY <2>9, FieldNames DEF Three
    <3>3. CASE \E i \in 1..n : es[i].user.pin = q
      <4>1. PICK i \in 1..n : es[i].user.pin = q BY <3>3
      <4>2. sp[q] = [func |-> 0, out |-> Unknown, pull |-> es[i].pull, dlevel |-> es[i].dlevel]
        BY <2>6, <4>1
      <4>3. /\ sp[q].func = 0 /\ sp[q].out = Unknown /\ sp[q].pull = es[i].pull
            /\ sp[q].dlevel = es[i].dlevel
        BY <4>2
      <4>4. sp[q] \in Specs BY <2>7, <4>2 DEF Specs, Unknown
      <4>5. ASSUME NEW f \in Three PROVE r[f][q] = sp[q][f]
        <5>1. r[f][q] = FreedField(es[i], f) BY <2>8, <3>2, <4>1
        <5>2. CASE f = "func" BY <4>3, <5>1, <5>2 DEF FreedField
        <5>3. CASE f = "pull" BY <4>3, <5>1, <5>3 DEF FreedField
        <5>4. CASE f = "dlevel" BY <4>3, <5>1, <5>4 DEF FreedField
        <5> QED BY <5>2, <5>3, <5>4 DEF Three
      <4> QED BY <4>3, <4>4, <4>5
    <3>4. CASE ~ \E i \in 1..n : es[i].user.pin = q
      <4>1. sp[q] = pinSpec[q] BY <2>6, <3>4
      <4>2. pinSpec[q] \in Specs BY <1>1 DEF PinTypes
      <4>3. \A f \in Three : r[f][q] = pinSpec[q][f] BY <2>8, <3>2, <3>4
      <4>4. pinSpec[q].out # Unknown => pinSpec[q].func = 1 /\ pio["data"][q] = pinSpec[q].out
        BY <1>1 DEF PinTypes, RegistersKept
      <4> QED BY <3>1, <4>1, <4>2, <4>3, <4>4
    <3> QED BY <3>3, <3>4
  <2>11. sp \in [Pins -> Specs] BY <2>6, <2>10
  <2>12. RegistersKept(r, sp) BY <2>10 DEF RegistersKept
  <2>13. PinTypes' BY <1>1, <1>2, <2>1, <2>2, <2>9, <2>11, <2>12 DEF PinTypes
  <2> QED BY <1>1, <1>2, <1>3, <2>13 DEF ConfigInv
<1> QED BY <1>4, <1>5

(* A call that writes the registers r and asks sp.                         *)
LEMMA RegistersOnly ==
  ASSUME ConfigInv, OnlyRegisters, pio' \in Regs, pinSpec' \in [Pins -> Specs],
         RegistersKept(pio', pinSpec')
  PROVE  ConfigInv'
BY DEF ConfigInv, PinTypes, OnlyRegisters, scriptVars

(* A caller's setting, for the pin of the handle.                          *)
LEMMA WithPin ==
  ASSUME NEW u \in Settings, NEW p \in Pins
  PROVE  [u EXCEPT !.pin = p] \in Settings /\ [u EXCEPT !.pin = p].pin = p
<1> DEFINE m == [u EXCEPT !.pin = p]
<1>1. /\ u = [name |-> u.name, pin |-> u.pin, mul_sel |-> u.mul_sel, pull |-> u.pull,
              drv_level |-> u.drv_level, data |-> u.data]
      /\ u.name \in STRING /\ u.mul_sel \in {n \in Int : n < 8} /\ u.pull \in {n \in Int : n < 4}
      /\ u.drv_level \in {n \in Int : n < 4} /\ u.data \in Int
  BY DEF Settings
<1>2. m = [name |-> u.name, pin |-> p, mul_sel |-> u.mul_sel, pull |-> u.pull,
           drv_level |-> u.drv_level, data |-> u.data]
  BY <1>1
<1> HIDE DEF m
<1>3. m \in Settings /\ m.pin = p BY <1>1, <1>2 DEF Settings
<1> QED BY <1>3 DEF m

(* gpio_set_one_pin_status.                                                *)
LEMMA OneStatusKept ==
  ASSUME ConfigInv, NEW h \in DOMAIN pinHandles, NEW name, NEW own \in BOOLEAN,
         NEW status \in Settings, gpio_set_one_pin_status(h, name, own, status)
  PROVE  ConfigInv'
<1>1. PICK i \in ByName(h, name) :
        LET e == pinHandles[h][i]
            u == IF own THEN e.user ELSE [status EXCEPT !.pin = e.user.pin]
            one(r, f) == IF Asks(u, f) THEN SetField(r, f, u.pin, FieldValue(u, f)) ELSE r
        IN  /\ pio' = one(one(one(one(pio, "func"), "pull"), "dlevel"), "data")
            /\ pinSpec' = [pinSpec EXCEPT ![u.pin] = AskedOf(@, u)]
            /\ OnlyRegisters
  BY DEF gpio_set_one_pin_status
<1> DEFINE e == pinHandles[h][i]
           u == IF own THEN e.user ELSE [status EXCEPT !.pin = e.user.pin]
<1>2. i \in 1..Len(pinHandles[h]) BY OnePinFacts
<1>3. Entry0(e) BY <1>2, HandleFacts DEF GoodHandle
<1>4. u \in Settings /\ u.pin \in Pins
  <2>1. e.user \in Settings /\ e.user.pin \in Pins BY <1>3 DEF Entry0
  <2>2. [status EXCEPT !.pin = e.user.pin] \in Settings /\ [status EXCEPT !.pin = e.user.pin].pin \in Pins
    BY <2>1, WithPin
  <2> QED BY <2>1, <2>2
<1> HIDE DEF u
<1> DEFINE one(r, f) == IF Asks(u, f) THEN SetField(r, f, u.pin, FieldValue(u, f)) ELSE r
           n == one(one(one(one(pio, "func"), "pull"), "dlevel"), "data")
           to == [pinSpec EXCEPT ![u.pin] = AskedOf(pinSpec[u.pin], u)]
<1>5. pio' = n /\ pinSpec' = to /\ OnlyRegisters BY <1>1, Zenon DEF u
<1>6. n \in Regs /\ to \in [Pins -> Specs] /\ RegistersKept(n, to)
  BY <1>4, StatusKept DEF ConfigInv
<1> HIDE DEF n, to
<1> QED BY <1>5, <1>6, RegistersOnly

(* One field of what is asked of a pin is changed.                         *)
LEMMA SpecChanged ==
  ASSUME NEW sp \in Specs, NEW v \in Int, NEW f \in {"pull", "dlevel", "out"}, NEW x,
         x = [sp EXCEPT ![f] = v]
  PROVE  /\ x \in Specs /\ x[f] = v
         /\ \A g \in {"func", "pull", "dlevel", "out"} : g # f => x[g] = sp[g]
<1>0. sp = [func |-> sp.func, pull |-> sp.pull, dlevel |-> sp.dlevel, out |-> sp.out]
  BY DEF Specs
<1>1. sp.func \in Int /\ sp.pull \in Int /\ sp.dlevel \in Int /\ sp.out \in Int
  BY DEF Specs
<1>2. CASE f = "pull"
  <2>1. x = [sp EXCEPT !.pull = v] BY <1>2
  <2>2. x = [func |-> sp.func, pull |-> v, dlevel |-> sp.dlevel, out |-> sp.out] BY <1>0, <2>1
  <2> QED BY <1>1, <1>2, <2>2 DEF Specs
<1>3. CASE f = "dlevel"
  <2>1. x = [sp EXCEPT !.dlevel = v] BY <1>3
  <2>2. x = [func |-> sp.func, pull |-> sp.pull, dlevel |-> v, out |-> sp.out] BY <1>0, <2>1
  <2> QED BY <1>1, <1>3, <2>2 DEF Specs
<1>4. CASE f = "out"
  <2>1. x = [sp EXCEPT !.out = v] BY <1>4
  <2>2. x = [func |-> sp.func, pull |-> sp.pull, dlevel |-> sp.dlevel, out |-> v] BY <1>0, <2>1
  <2> QED BY <1>1, <1>4, <2>2 DEF Specs
<1> QED BY <1>2, <1>3, <1>4

(* gpio_set_one_pin_io_status.                                             *)
LEMMA IoStatusKept ==
  ASSUME ConfigInv, NEW h \in DOMAIN pinHandles, NEW name, NEW out \in 0..1,
         gpio_set_one_pin_io_status(h, out, name)
  PROVE  ConfigInv'
<1>1. PICK p \in OnePin(h, name) :
        /\ pio' = SetField(pio, "func", p, out)
        /\ pinSpec' = [pinSpec EXCEPT ![p] =
                         [pinSpec[p] EXCEPT !.func = out, !.out = Drive(pinSpec[p], out, Keep)]]
        /\ OnlyRegisters
  BY Zenon DEF gpio_set_one_pin_io_status
<1>2. p \in Pins BY OnePinFacts
<1>3. PinTypes BY DEF ConfigInv
<1> DEFINE sp == pinSpec[p]
           d == Drive(sp, out, Keep)
           x == [sp EXCEPT !.func = out, !.out = d]
<1>4. sp \in Specs BY <1>2, <1>3 DEF PinTypes
<1>5. d \in Int /\ (d # Unknown => d = sp.out /\ out = 1)
  BY <1>4 DEF Drive, Keep, Unknown, Specs
<1> HIDE DEF sp, d
<1>6. x = [func |-> out, pull |-> sp.pull, dlevel |-> sp.dlevel, out |-> d]
  <2>1. sp = [func |-> sp.func, pull |-> sp.pull, dlevel |-> sp.dlevel, out |-> sp.out] BY <1>4 DEF Specs
  <2>2. x = [sp EXCEPT !.func = out, !.out = d] OBVIOUS
  <2> HIDE DEF x
  <2> QED BY <2>1, <2>2
<1> HIDE DEF x
<1>7. /\ x.func = out /\ x.pull = sp.pull /\ x.dlevel = sp.dlevel /\ x.out = d BY <1>6
<1>8. x \in Specs BY <1>4, <1>5, <1>6 DEF Specs
<1>9. x["func"] = out /\ \A g \in Three : g # "func" => x[g] = sp[g] BY <1>7 DEF Three
<1>10. x.out # Unknown => x.out = sp.out /\ x.func = 1 BY <1>5, <1>7
<1>11. out \in Int /\ "func" \in Three BY DEF Three
<1>12. /\ SetField(pio, "func", p, out) \in Regs /\ [pinSpec EXCEPT ![p] = x] \in [Pins -> Specs]
       /\ RegistersKept(SetField(pio, "func", p, out), [pinSpec EXCEPT ![p] = x])
  BY <1>2, <1>3, <1>8, <1>9, <1>10, <1>11, SetKept DEF sp
<1>13. pinSpec' = [pinSpec EXCEPT ![p] = x] BY <1>1, Zenon DEF x, sp, d
<1> QED BY <1>1, <1>12, <1>13, RegistersOnly

(* gpio_set_one_pin_pull and gpio_set_one_pin_driver_level.                *)
LEMMA PullOrDriveKept ==
  ASSUME ConfigInv, NEW h \in DOMAIN pinHandles, NEW name, NEW p \in OnePin(h, name), NEW v \in Int,
         NEW f \in {"pull", "dlevel"}, OnlyRegisters,
         pio' = SetField(pio, f, p, v), pinSpec' = [pinSpec EXCEPT ![p] = [pinSpec[p] EXCEPT ![f] = v]]
  PROVE  ConfigInv'
<1>2. p \in Pins BY OnePinFacts
<1>3. PinTypes BY DEF ConfigInv
<1> DEFINE x == [pinSpec[p] EXCEPT ![f] = v]
<1>4. pinSpec[p] \in Specs BY <1>2, <1>3 DEF PinTypes
<1>5. x \in Specs /\ x[f] = v /\ \A g \in {"func", "pull", "dlevel", "out"} : g # f => x[g] = pinSpec[p][g]
  <2>1. f \in {"pull", "dlevel", "out"} OBVIOUS
  <2>2. x = [pinSpec[p] EXCEPT ![f] = v] OBVIOUS
  <2> HIDE DEF x
  <2> QED BY <1>4, <2>1, <2>2, SpecChanged
<1> HIDE DEF x
<1>6. f \in Three /\ \A g \in Three : g # f => x[g] = pinSpec[p][g] BY <1>5 DEF Three
<1>7. x.out = pinSpec[p].out /\ x.func = pinSpec[p].func BY <1>5
<1>8. x.out # Unknown => x.out = pinSpec[p].out /\ x.func = 1
  BY <1>2, <1>3, <1>7 DEF PinTypes, RegistersKept
<1>9. /\ SetField(pio, f, p, v) \in Regs /\ [pinSpec EXCEPT ![p] = x] \in [Pins -> Specs]
      /\ RegistersKept(SetField(pio, f, p, v), [pinSpec EXCEPT ![p] = x])
  BY <1>2, <1>3, <1>5, <1>6, <1>8, SetKept
<1>10. pinSpec' = [pinSpec EXCEPT ![p] = x] BY DEF x
<1> QED BY <1>9, <1>10, RegistersOnly

(* gpio_write_one_pin_value: the pin is an output.                         *)
LEMMA WriteKept ==
  ASSUME ConfigInv, NEW h \in DOMAIN pinHandles, NEW name, NEW value \in 0..1,
         gpio_write_one_pin_value(h, value, name)
  PROVE  ConfigInv'
<1>1. PICK p \in OnePin(h, name) :
        /\ pio.func[p] = 1 /\ pio' = SetField(pio, "data", p, value)
        /\ pinSpec' = [pinSpec EXCEPT ![p] = [pinSpec[p] EXCEPT !.out = value]]
        /\ OnlyRegisters
  BY Zenon DEF gpio_write_one_pin_value
<1>2. p \in Pins BY OnePinFacts
<1>3. PinTypes BY DEF ConfigInv
<1> DEFINE x == [pinSpec[p] EXCEPT !.out = value]
           to == [pinSpec EXCEPT ![p] = x]
           n == SetField(pio, "data", p, value)
<1>4. pinSpec[p] \in Specs /\ pinSpec \in [Pins -> Specs] BY <1>2, <1>3 DEF PinTypes
<1>5. value \in Int OBVIOUS
<1>6. x \in Specs /\ x.out = value /\ \A g \in {"func", "pull", "dlevel"} : x[g] = pinSpec[p][g]
  <2>1. "out" \in {"pull", "dlevel", "out"} OBVIOUS
  <2>2. /\ x \in Specs /\ x["out"] = value
        /\ \A g \in {"func", "pull", "dlevel", "out"} : g # "out" => x[g] = pinSpec[p][g]
    <3>1. x = [pinSpec[p] EXCEPT !["out"] = value] OBVIOUS
    <3> HIDE DEF x
    <3> QED BY <1>4, <1>5, <2>1, <3>1, SpecChanged
  <2> HIDE DEF x
  <2> QED BY <2>2
<1> HIDE DEF x
<1>7. to \in [Pins -> Specs] /\ to[p] = x /\ \A q \in Pins : q # p => to[q] = pinSpec[q]
  BY <1>2, <1>4, <1>6
<1>8. /\ n \in Regs /\ n["data"][p] = value /\ \A g \in Fields : g # "data" => n[g] = pio[g]
      /\ \A q \in Pins : q # p /\ pio["func"][q] = 1 => n["data"][q] = pio["data"][q]
  BY <1>2, <1>3, <1>5, FieldNames, SetFieldFacts DEF PinTypes
<1> HIDE DEF n, to
<1>9. ASSUME NEW f \in Three, NEW q \in Pins PROVE n[f][q] = to[q][f]
  <2>1. f \in Fields /\ f # "data" /\ f \in {"func", "pull", "dlevel"} BY <1>9, FieldNames DEF Three
  <2>2. n[f] = pio[f] /\ pio[f][q] = pinSpec[q][f] BY <1>3, <1>8, <2>1 DEF PinTypes, RegistersKept
  <2> QED BY <1>6, <1>7, <2>1, <2>2
<1>10. ASSUME NEW q \in Pins, to[q].out # Unknown PROVE to[q].func = 1 /\ n["data"][q] = to[q].out
  <2>1. pio["func"][q] = pinSpec[q].func BY <1>3 DEF PinTypes, RegistersKept, Three
  <2>2. CASE q = p BY <1>1, <1>6, <1>7, <1>8, <2>1, <2>2
  <2>3. CASE q # p
    <3>1. pinSpec[q].out # Unknown BY <1>7, <1>10, <2>3
    <3>2. pinSpec[q].func = 1 /\ pio["data"][q] = pinSpec[q].out
      BY <1>3, <3>1 DEF PinTypes, RegistersKept
    <3> QED BY <1>7, <1>8, <2>1, <2>3, <3>2
  <2> QED BY <2>2, <2>3
<1>11. RegistersKept(n, to) BY <1>9, <1>10 DEF RegistersKept
<1>12. pio' = n /\ pinSpec' = to BY <1>1, Zenon DEF n, to, x
<1> QED BY <1>1, <1>7, <1>8, <1>11, <1>12, RegistersOnly

-----------------------------------------------------------------------------
(* The invariant.                                                          *)

LEMMA InitKept ==
  ASSUME SysInit PROVE ConfigInv
<1> DEFINE regs == [f \in Fields |->
                      [p \in Pins |-> CASE f = "func" -> 7 [] f = "dlevel" -> 1 [] OTHER -> 0]]
           sp == [p \in Pins |-> ResetPin]
<1>1. /\ pio = regs /\ pinLevel = [p \in Pins |-> 0] /\ pinSpec = sp
      /\ pinHandles = <<>> /\ script = NoScript
      /\ patched = [k \in Keys |-> Board[k[1]][k[2]].body]
  BY DEF SysInit
<1>2. ASSUME NEW f \in Fields, NEW p \in Pins
      PROVE  /\ regs[f][p] \in Int
             /\ f = "func" => regs[f][p] = 7
             /\ f = "dlevel" => regs[f][p] = 1
             /\ f = "pull" => regs[f][p] = 0
  BY DEF Fields
<1>3. regs \in Regs
  <2>1. ASSUME NEW f \in Fields PROVE regs[f] \in [Pins -> Int] BY DEF Fields
  <2>2. regs = [f \in Fields |-> regs[f]] OBVIOUS
  <2> HIDE DEF regs
  <2> QED BY <2>1, <2>2 DEF Regs
<1>4. ASSUME NEW q \in Pins
      PROVE  /\ sp[q].func = 7 /\ sp[q].pull = 0 /\ sp[q].dlevel = 1 /\ sp[q].out = Unknown
             /\ sp[q] \in Specs
  <2>1. ResetPin \in Specs BY DEF ResetPin, Specs, Unknown
  <2>2. /\ ResetPin.func = 7 /\ ResetPin.pull = 0 /\ ResetPin.dlevel = 1 /\ ResetPin.out = Unknown
    BY DEF ResetPin
  <2> QED BY <2>1, <2>2
<1>5. sp \in [Pins -> Specs] BY <1>4
<1> HIDE DEF regs, sp
<1>6. ASSUME NEW f \in Three, NEW q \in Pins PROVE regs[f][q] = sp[q][f]
  <2>1. f \in Fields BY FieldNames
  <2>2. CASE f = "func" BY <1>2, <1>4, <2>1, <2>2
  <2>3. CASE f = "pull" BY <1>2, <1>4, <2>1, <2>3
  <2>4. CASE f = "dlevel" BY <1>2, <1>4, <2>1, <2>4
  <2> QED BY <2>2, <2>3, <2>4 DEF Three
<1>7. RegistersKept(regs, sp) BY <1>4, <1>6 DEF RegistersKept
<1>8. PinTypes BY <1>1, <1>3, <1>5, <1>7 DEF PinTypes
<1>9. pinHandles \in Seq(Handles) BY <1>1
<1>10. ScriptOk(script, patched) BY <1>1 DEF ScriptOk
<1> QED BY <1>8, <1>9, <1>10 DEF ConfigInv

(* The calls with a handle.                                                *)
LEMMA HandleKept ==
  ASSUME ConfigInv, NEW h \in DOMAIN pinHandles, OnHandle(h) PROVE ConfigInv'
<1>1. ASSUME NEW mode \in 0..2, gpio_release(h, mode) PROVE ConfigInv' BY <1>1, ReleaseKept
<1>2. ASSUME NEW name \in Names, NEW own \in BOOLEAN, NEW status \in Patches.gpio,
             gpio_set_one_pin_status(h, name, own, status)
      PROVE  ConfigInv'
  <2>1. status \in Settings BY PinAssumption
  <2> QED BY <1>2, <2>1, OneStatusKept
<1>3. ASSUME NEW name \in Names, NEW out \in 0..1, gpio_set_one_pin_io_status(h, out, name)
      PROVE  ConfigInv'
  BY <1>3, IoStatusKept
<1>4. ASSUME NEW name \in Names, NEW pull \in {1, 2}, gpio_set_one_pin_pull(h, pull, name)
      PROVE  ConfigInv'
  <2>1. PICK p \in OnePin(h, name) :
          /\ pio' = SetField(pio, "pull", p, pull)
          /\ pinSpec' = [pinSpec EXCEPT ![p] = [pinSpec[p] EXCEPT !["pull"] = pull]]
          /\ OnlyRegisters
    BY <1>4, Zenon DEF gpio_set_one_pin_pull
  <2>2. pull \in Int OBVIOUS
  <2> QED BY <2>1, <2>2, PullOrDriveKept
<1>5. ASSUME NEW name \in Names, NEW dlevel \in {3}, gpio_set_one_pin_driver_level(h, dlevel, name)
      PROVE  ConfigInv'
  <2>1. PICK p \in OnePin(h, name) :
          /\ pio' = SetField(pio, "dlevel", p, dlevel)
          /\ pinSpec' = [pinSpec EXCEPT ![p] = [pinSpec[p] EXCEPT !["dlevel"] = dlevel]]
          /\ OnlyRegisters
    BY <1>5, Zenon DEF gpio_set_one_pin_driver_level
  <2>2. dlevel \in Int OBVIOUS
  <2> QED BY <2>1, <2>2, PullOrDriveKept
<1>6. ASSUME NEW name \in Names, NEW value \in 0..1, gpio_write_one_pin_value(h, value, name)
      PROVE  ConfigInv'
  BY <1>6, WriteKept
<1> QED BY <1>1, <1>2, <1>3, <1>4, <1>5, <1>6 DEF OnHandle

(* Every step.                                                             *)
LEMMA StepKept ==
  ASSUME ConfigInv, [SysNext]_sysVars PROVE ConfigInv'
<1>0. PinTypes /\ pinHandles \in Seq(Handles) /\ ScriptOk(script, patched) BY DEF ConfigInv
<1>1. CASE UNCHANGED sysVars
  BY <1>0, <1>1 DEF ConfigInv, PinTypes, sysVars, scriptVars, pinVars
<1>2. CASE script_parser_init
  <2>1. ScriptOk(script', patched') BY <1>2, ScriptFirst
  <2>2. UNCHANGED pinVars BY <1>2 DEF script_parser_init
  <2> QED BY <1>0, <2>1, <2>2 DEF ConfigInv, PinTypes, pinVars
<1>3. CASE script_parser_exit
  <2>1. script' = NoScript /\ patched' = patched /\ UNCHANGED pinVars BY <1>3 DEF script_parser_exit
  <2>2. ScriptOk(script', patched') BY <1>0, <2>1 DEF ScriptOk
  <2> QED BY <1>0, <2>1, <2>2 DEF ConfigInv, PinTypes, pinVars
<1>4. ASSUME NEW k \in Keys, NEW body \in Patches[Board[k[1]][k[2]].type],
             script_parser_patch(k, body), PinsOnce(script'[k[1]])
      PROVE  ConfigInv'
  <2>1. ScriptOk(script', patched') BY <1>0, <1>4, PatchKept
  <2>2. UNCHANGED pinVars BY <1>4 DEF script_parser_patch
  <2> QED BY <1>0, <2>1, <2>2 DEF ConfigInv, PinTypes, pinVars
<1>5. ASSUME NEW main \in DOMAIN Board, NEW sub \in Names, gpio_request_ex(main, sub) PROVE ConfigInv'
  BY <1>5, RequestExKept
<1>6. ASSUME NEW h \in DOMAIN pinHandles, OnHandle(h) PROVE ConfigInv' BY <1>6, HandleKept
<1>7. ASSUME NEW p \in Pins, Toggle(p) PROVE ConfigInv'
  <2>1. /\ UNCHANGED <<script, patched, pio, pinHandles, pinSpec>>
        /\ pinLevel' = [pinLevel EXCEPT ![p] = 1 - pinLevel[p]]
    BY <1>7 DEF Toggle, scriptVars
  <2>2. pinLevel' \in [Pins -> Int] BY <1>0, <2>1 DEF PinTypes
  <2> QED BY <1>0, <2>1, <2>2 DEF ConfigInv, PinTypes
<1> QED BY <1>1, <1>2, <1>3, <1>4, <1>5, <1>6, <1>7 DEF SysNext

(* However many users the pins of a port have, and whatever they request,  *)
(* set and release: each pin keeps what was last asked of it, and the      *)
(* configuration gives what was last put there.                            *)
THEOREM ConfigIsKept == SysSpec => []ConfigKept
<1>1. SysInit => ConfigInv BY InitKept
<1>2. ConfigInv /\ [SysNext]_sysVars => ConfigInv' BY StepKept
<1>3. ConfigInv => ConfigKept BY InvKept
<1> QED BY <1>1, <1>2, <1>3, PTL DEF SysSpec
=============================================================================
