------------------------------ MODULE SysConfig ------------------------------
(***************************************************************************)
(* Library/SysConfigLib: the board configuration, and the pins that many   *)
(* drivers set up through it.                                              *)
(*                                                                         *)
(* Pins share registers: eight their function, sixteen pull and drive, a   *)
(* port its data.  A call reads a register, changes its own pins' bits and *)
(* writes it back; gpio_request and gpio_release keep four registers in    *)
(* local variables and exchange them where the next pin is in another one. *)
(* The data register shows the level of a pin that is no output, and       *)
(* writing it back makes that level the value the pin will drive.          *)
(*                                                                         *)
(* Main keys are unique, and a list of pins names each pin once and has    *)
(* its unused entries, port 0, at its end.                                 *)
(***************************************************************************)
EXTENDS Integers, Sequences

CONSTANTS Pins,          \* records of port and num
          NoPin,         \* port 0
          Board,         \* the configuration: main keys and their sub keys
          Patches,       \* bodies that script_parser_patch is given
          MaxPinCalls,   \* bound: calls that change something
          MaxHandles,    \* bound: requests that are not released
          MaxToggles     \* bound: changes of a level from outside

(* What is asked of a pin: a negative number asks nothing, another one     *)
(* fits its field.                                                         *)
Settings ==
  [name : STRING, pin : Pins \cup {NoPin}, mul_sel : {n \in Int : n < 8},
   pull : {n \in Int : n < 4}, drv_level : {n \in Int : n < 4}, data : Int]

Body(type, body) ==
  /\ type = "gpio" => body \in Settings
  /\ type = "string" => body \in Seq(Int)

(* No two pins of a main key are the same.                                 *)
PinsOnce(keys) ==
  \A i, j \in DOMAIN keys :
    (i # j /\ keys[i].type = "gpio" /\ keys[j].type = "gpio") =>
      keys[i].body.pin # keys[j].body.pin \/ keys[i].body.pin = NoPin

ASSUME PinAssumption ==
  /\ NoPin \notin Pins
  /\ \A p \in Pins : p.port \in Nat \ {0} /\ p.num \in 0..31
  /\ Board = [main \in DOMAIN Board |-> Board[main]]
  /\ \A main \in DOMAIN Board :
       /\ Board[main] \in Seq({Board[main][i] : i \in DOMAIN Board[main]})
       /\ \A i, j \in DOMAIN Board[main] : Board[main][i].name = Board[main][j].name => i = j
       /\ \A i \in DOMAIN Board[main] :
            LET key == Board[main][i]
            IN  /\ key = [name |-> key.name, type |-> key.type, body |-> key.body]
                /\ key.name \in STRING /\ Body(key.type, key.body)
                /\ \A body \in Patches[key.type] : Body(key.type, body)
       /\ PinsOnce(Board[main])
  /\ Patches.gpio \subseteq Settings

VARIABLES script,      \* script_mod_buf: the configuration, or none
          patched,     \* history: the body last given for a key, if any
          pio,         \* the registers, field by field, of each pin
          pinLevel,    \* the level outside of each pin
          pinHandles,  \* the buffers that gpio_request returned
          pinSpec,     \* history: what was last asked of each pin
          pinCalls, toggles

scriptVars == <<script, patched>>
pinVars == <<pio, pinLevel, pinHandles, pinSpec>>
sysVars == <<scriptVars, pinVars, pinCalls, toggles>>

NoScript == <<>>
Keep == -1           \* a negative number in a setting leaves the field alone
EGPIO_FAIL == -1

Keys == UNION {{<<main, i>> : i \in DOMAIN Board[main]} : main \in DOMAIN Board}

-----------------------------------------------------------------------------
(* The configuration.  A sub key is its name, its type and its body.       *)

script_parser_init ==
  /\ script' = Board
  /\ patched' = [k \in Keys |-> Board[k[1]][k[2]].body]
  /\ UNCHANGED pinVars

script_parser_exit ==
  /\ script' = NoScript
  /\ UNCHANGED <<patched, pinVars>>

(* The sub keys of a main key: none, if there is no such key.              *)
SubKeys(main) == IF main \in DOMAIN script THEN script[main] ELSE <<>>
Found(main, sub) == {i \in DOMAIN SubKeys(main) : SubKeys(main)[i].name = sub}

Fetched(status, type, value) == [status |-> status, type |-> type, value |-> value]

(* script_parser_fetch_ex, and script_parser_fetch, for which a key that   *)
(* is "empty" is an error.  A list of words is found, but not copied.      *)
script_parser_fetch_ex(main, sub, count) ==
  IF script = NoScript THEN Fetched("empty_buffer", "", <<>>)
  ELSE IF Found(main, sub) = {} THEN Fetched("not_find", "", <<>>)
  ELSE LET key == SubKeys(main)[CHOOSE i \in Found(main, sub) : TRUE]
       IN  CASE key.type = "word" -> Fetched("ok", "word", key.body)
             [] key.type = "string" ->
                  Fetched("ok", "string", SubSeq(key.body, 1, IF count < Len(key.body) THEN count ELSE Len(key.body)))
             [] key.type = "multi" -> Fetched("ok", "multi", <<>>)
             [] key.type = "gpio" -> IF count < 14 THEN Fetched("not_enough", "", <<>>)
                                                   ELSE Fetched("ok", "gpio", [key.body EXCEPT !.name = sub])
             [] OTHER -> Fetched("ok", "", <<>>)

script_parser_fetch(main, sub, count) ==
  LET f == script_parser_fetch_ex(main, sub, count)
      empty == \E i \in Found(main, sub) : SubKeys(main)[i].type = "empty"
  IN  IF empty THEN Fetched("value_null", "", <<>>) ELSE f

(* The next word or string at or after an index, from 0.                   *)
script_parser_fetch_subkey_next(main, index) ==
  LET hits == {j \in DOMAIN SubKeys(main) : j > index /\ SubKeys(main)[j].type \in {"word", "string"}}
  IN  {j \in hits : \A k \in hits : j <= k}

script_parser_subkey_count(main) == IF main \in DOMAIN script THEN Len(script[main]) ELSE -1

(* A string is overwritten as far as the new one reaches; the SetMem       *)
(* before the copy has a length of zero.                                   *)
Overwritten(key, body) ==
  CASE key.type = "string" ->
         LET n == IF Len(body) > Len(key.body) THEN Len(key.body) ELSE Len(body)
         IN  SubSeq(body, 1, n) \o SubSeq(key.body, n + 1, Len(key.body))
    [] key.type \in {"word", "gpio"} -> body
    [] OTHER -> key.body

script_parser_patch(k, body) ==
  /\ script # NoScript
  /\ LET keys == script[k[1]]
         key == keys[k[2]]
     IN  /\ script' = [script EXCEPT ![k[1]] =
                         [keys EXCEPT ![k[2]] = [key EXCEPT !.body = Overwritten(key, body)]]]
         /\ patched' = [patched EXCEPT ![k] =
                          IF key.type \in {"word", "gpio", "string"} THEN body ELSE @]
  /\ UNCHANGED pinVars

(* script_parser_mainkey_get_gpio_count and _cfg: the pins of a main key.  *)
script_parser_mainkey_get_gpio_cfg(main) ==
  LET keys == SubKeys(main)
      cfg[i \in 0..Len(keys)] ==
        IF i = 0 THEN <<>>
        ELSE IF keys[i].type # "gpio" THEN cfg[i - 1]
        ELSE Append(cfg[i - 1], [keys[i].body EXCEPT !.name = keys[i].name])
  IN  cfg[Len(keys)]
script_parser_mainkey_get_gpio_count(main) == Len(script_parser_mainkey_get_gpio_cfg(main))

-----------------------------------------------------------------------------
(* Registers.                                                              *)

Fields == {"func", "pull", "dlevel", "data"}

(* GetGroupFuncAddrByPort and the others: which register a field is in.    *)
Group(f, p) ==
  <<p.port, CASE f = "func" -> p.num \div 8 [] f = "data" -> 0 [] OTHER -> p.num \div 16>>

(* External: what a register shows, and what writing it does.              *)
ReadReg(r, f, g) ==
  [p \in {q \in Pins : Group(f, q) = g} |->
     IF f = "data" /\ r.func[p] # 1 THEN pinLevel[p] ELSE r[f][p]]
WriteReg(r, f, g, val) ==
  [r EXCEPT ![f] = [p \in Pins |-> IF Group(f, p) = g THEN val[p] ELSE r[f][p]]]

(* A register is read, the field of one pin changed, and written back.     *)
SetField(r, f, p, v) ==
  WriteReg(r, f, Group(f, p), [ReadReg(r, f, Group(f, p)) EXCEPT ![p] = v])

(* The local variables of gpio_request and gpio_release.                   *)
Locals(r) == [r |-> r, pre |-> NoPin, group |-> <<>>, val |-> <<>>, changed |-> {}, entries |-> <<>>]

Flush(s, fields) ==
  [f \in Fields |-> IF f \in fields THEN WriteReg(s.r, f, s.group[f], s.val[f])[f] ELSE s.r[f]]

Load(s, p) ==
  [s EXCEPT !.group = [f \in Fields |-> Group(f, p)],
            !.val = [f \in Fields |-> ReadReg(s.r, f, Group(f, p))],
            !.pre = p]

(* Another function register only: the other three stay.                   *)
LoadFunc(s, p) ==
  LET r == Flush(s, {"func"})
  IN  [s EXCEPT !.r = r, !.pre = p, !.group = [@ EXCEPT !["func"] = Group("func", p)],
                !.val = [@ EXCEPT !["func"] = ReadReg(r, "func", Group("func", p))]]

(* Mutant: the function register of the pins before is not written.        *)
MutMove(s, p, fields) ==
  CASE s.pre = NoPin -> Load(s, p)
    [] s.pre # NoPin /\ Group("pull", p) # Group("pull", s.pre) ->
         Load([s EXCEPT !.r = Flush(s, fields), !.changed = {}], p)
    [] OTHER -> [s EXCEPT !.pre = p, !.group = [@ EXCEPT !["func"] = Group("func", p)],
                          !.val = [@ EXCEPT !["func"] = ReadReg(s.r, "func", Group("func", p))]]

(* Before pin p: what has changed is written back if p is elsewhere.       *)
Move(s, p, fields) ==
  CASE s.pre = NoPin -> Load(s, p)
    [] s.pre # NoPin /\ Group("pull", p) # Group("pull", s.pre) ->
         Load([s EXCEPT !.r = Flush(s, fields), !.changed = {}], p)
    [] s.pre # NoPin /\ Group("pull", p) = Group("pull", s.pre)
         /\ Group("func", p) # Group("func", s.pre) -> LoadFunc(s, p)
    [] OTHER -> [s EXCEPT !.pre = p]

Asks(u, f) ==
  CASE f = "func" -> u.mul_sel >= 0 [] f = "pull" -> u.pull >= 0
    [] f = "dlevel" -> u.drv_level >= 0 [] OTHER -> u.mul_sel = 1 /\ u.data >= 0
FieldValue(u, f) ==
  CASE f = "func" -> u.mul_sel % 8 [] f = "pull" -> u.pull % 4
    [] f = "dlevel" -> u.drv_level % 4 [] OTHER -> u.data % 2

(* One turn of the loop in gpio_request; the status that the pin had is    *)
(* kept where the request changes it, and is 0 otherwise.                  *)
RequestPin(s, u) ==
  LET m == Move(s, u.pin, s.changed)
      was(f) == IF Asks(u, f) THEN m.val[f][u.pin] ELSE 0
  IN  IF u.pin = NoPin THEN s
      ELSE [m EXCEPT
              !.val = [f \in Fields |-> IF Asks(u, f) THEN [m.val[f] EXCEPT ![u.pin] = FieldValue(u, f)] ELSE m.val[f]],
              !.changed = @ \cup {f \in Fields : Asks(u, f)},
              !.entries = Append(@, [user |-> u, pull |-> was("pull"), dlevel |-> was("dlevel"),
                                     before |-> pinSpec[u.pin]])]

(* One turn of the loop in gpio_release: the pin becomes an input.         *)
ReleasePin(s, e) ==
  LET m == Move(s, e.user.pin, {"func", "pull", "dlevel"})
      to(f) == CASE f = "func" -> 0 [] f = "pull" -> e.pull [] OTHER -> e.dlevel
  IN  [m EXCEPT !.val = [f \in Fields |-> IF f = "data" THEN m.val[f]
                                          ELSE [m.val[f] EXCEPT ![e.user.pin] = to(f)]]]

-----------------------------------------------------------------------------
(* What a call asks of a pin, by itself: the reference.                    *)

Unknown == 2
Drive(sp, func, value) ==
  IF func # 1 THEN Unknown ELSE IF value >= 0 THEN value % 2 ELSE IF sp.func = 1 THEN sp.out ELSE Unknown

AskedOf(sp, u) ==
  [func |-> IF u.mul_sel >= 0 THEN u.mul_sel ELSE sp.func,
   pull |-> IF u.pull >= 0 THEN u.pull ELSE sp.pull,
   dlevel |-> IF u.drv_level >= 0 THEN u.drv_level ELSE sp.dlevel,
   out |-> IF u.mul_sel >= 0 THEN Drive(sp, u.mul_sel, u.data) ELSE sp.out]

-----------------------------------------------------------------------------
(* The calls.                                                              *)

ResetPin == [func |-> 7, pull |-> 0, dlevel |-> 1, out |-> Unknown]

SysInit ==
  /\ script = NoScript
  /\ patched = [k \in Keys |-> Board[k[1]][k[2]].body]
  /\ pio = [f \in Fields |-> [p \in Pins |-> CASE f = "func" -> 7 [] f = "dlevel" -> 1 [] OTHER -> 0]]
  /\ pinLevel = [p \in Pins |-> 0]
  /\ pinHandles = <<>>
  /\ pinSpec = [p \in Pins |-> ResetPin]
  /\ pinCalls = 0 /\ toggles = 0

(* The loops over the pins of a list and of a handle.                      *)
RequestPins(list) ==
  LET turn[i \in 0..Len(list)] ==
        IF i = 0 THEN Locals(pio) ELSE RequestPin(turn[i - 1], list[i])
  IN  turn[Len(list)]

ReleasePins(entries) ==
  LET turn[i \in 0..Len(entries)] ==
        IF i = 0 THEN Locals(pio) ELSE ReleasePin(turn[i - 1], entries[i])
  IN  turn[Len(entries)]

(* A list without pins gives no handle, and loses its buffer.              *)
gpio_request(list) ==
  /\ Len(pinHandles) < MaxHandles
  /\ IF \A i \in DOMAIN list : list[i].pin = NoPin THEN UNCHANGED <<pio, pinHandles, pinSpec>>
     ELSE LET s == RequestPins(list)
          IN  /\ pio' = Flush(s, s.changed \cup {"func"})
              /\ pinHandles' = Append(pinHandles, s.entries)
              /\ pinSpec' = [p \in Pins |->
                   IF \E i \in DOMAIN list : list[i].pin = p
                     THEN AskedOf(pinSpec[p], list[CHOOSE i \in DOMAIN list : list[i].pin = p])
                     ELSE pinSpec[p]]
  /\ UNCHANGED <<scriptVars, pinLevel>>

(* With the pins of a main key, or one sub key.                            *)
gpio_request_ex(main, sub) ==
  IF sub = "" THEN /\ script_parser_mainkey_get_gpio_count(main) > 0
                   /\ gpio_request(script_parser_mainkey_get_gpio_cfg(main))
  ELSE LET f == script_parser_fetch(main, sub, 14)
       IN  f.status = "ok" /\ f.type = "gpio" /\ gpio_request(<<f.value>>)

Freed(h) == SubSeq(pinHandles, 1, h - 1) \o SubSeq(pinHandles, h + 1, Len(pinHandles))

(* 2 frees the buffer only; 0 and 1 are the same.                          *)
gpio_release(h, if_release_to_default_status) ==
  /\ pinHandles' = Freed(h)
  /\ IF if_release_to_default_status = 2 THEN UNCHANGED <<pio, pinSpec>>
     ELSE LET s == ReleasePins(pinHandles[h])
              e(p) == pinHandles[h][CHOOSE i \in DOMAIN pinHandles[h] : pinHandles[h][i].user.pin = p]
          IN  /\ pio' = Flush(s, {"func", "pull", "dlevel"})
              /\ pinSpec' = [p \in Pins |->
                   IF \E i \in DOMAIN pinHandles[h] : pinHandles[h][i].user.pin = p
                     THEN [func |-> 0, out |-> Unknown,
                           pull |-> IF e(p).user.pull >= 0 THEN e(p).before.pull ELSE 0,
                           dlevel |-> IF e(p).user.drv_level >= 0 THEN e(p).before.dlevel ELSE 0]
                     ELSE pinSpec[p]]
  /\ UNCHANGED <<scriptVars, pinLevel>>

(* The entry that a name, or no name for a single pin, stands for.         *)
ByName(h, name) == {i \in DOMAIN pinHandles[h] : pinHandles[h][i].user.name = name}
OnePin(h, name) ==
  LET hits == IF Len(pinHandles[h]) = 1 THEN {1} ELSE ByName(h, name)
  IN  {pinHandles[h][i].user.pin : i \in {j \in hits : \A k \in hits : j <= k}}

OnlyRegisters == UNCHANGED <<scriptVars, pinLevel, pinHandles>>

(* The caller's setting, or the one of the request; not by position.       *)
gpio_set_one_pin_status(h, name, own, status) ==
  \E i \in ByName(h, name) :
    LET e == pinHandles[h][i]
        u == IF own THEN e.user ELSE [status EXCEPT !.pin = e.user.pin]
        one(r, f) == IF Asks(u, f) THEN SetField(r, f, u.pin, FieldValue(u, f)) ELSE r
    IN  /\ pio' = one(one(one(one(pio, "func"), "pull"), "dlevel"), "data")
        /\ pinSpec' = [pinSpec EXCEPT ![u.pin] = AskedOf(@, u)]
        /\ OnlyRegisters

gpio_set_one_pin_io_status(h, out, name) ==
  \E p \in OnePin(h, name) :
    /\ pio' = SetField(pio, "func", p, out)
    /\ pinSpec' = [pinSpec EXCEPT ![p] = [@ EXCEPT !.func = out, !.out = Drive(pinSpec[p], out, Keep)]]
    /\ OnlyRegisters

gpio_set_one_pin_pull(h, pull, name) ==
  \E p \in OnePin(h, name) :
    /\ pio' = SetField(pio, "pull", p, pull)
    /\ pinSpec' = [pinSpec EXCEPT ![p] = [@ EXCEPT !.pull = pull]]
    /\ OnlyRegisters

gpio_set_one_pin_driver_level(h, dlevel, name) ==
  \E p \in OnePin(h, name) :
    /\ pio' = SetField(pio, "dlevel", p, dlevel)
    /\ pinSpec' = [pinSpec EXCEPT ![p] = [@ EXCEPT !.dlevel = dlevel]]
    /\ OnlyRegisters

(* Refused unless the pin is an output.                                    *)
gpio_write_one_pin_value(h, value, name) ==
  \E p \in OnePin(h, name) :
    /\ pio.func[p] = 1
    /\ pio' = SetField(pio, "data", p, value)
    /\ pinSpec' = [pinSpec EXCEPT ![p] = [@ EXCEPT !.out = value]]
    /\ OnlyRegisters

(* Refused unless the pin is an input.                                     *)
gpio_read_one_pin_value(h, name) ==
  {IF pio.func[p] = 0 THEN ReadReg(pio, "data", Group("data", p))[p] ELSE EGPIO_FAIL : p \in OnePin(h, name)}

(* gpio_get_one_pin_status and gpio_get_all_pin_status, from the hardware. *)
HardwareStatus(p) ==
  [func |-> pio.func[p], pull |-> pio.pull[p], dlevel |-> pio.dlevel[p],
   data |-> IF pio.func[p] <= 1 THEN ReadReg(pio, "data", Group("data", p))[p] ELSE -1]
gpio_get_one_pin_status(h, name) == {HardwareStatus(pinHandles[h][i].user.pin) : i \in ByName(h, name)}
gpio_get_all_pin_status(h) == [i \in DOMAIN pinHandles[h] |-> HardwareStatus(pinHandles[h][i].user.pin)]

(* External: someone drives a pin from outside.                            *)
Toggle(p) ==
  /\ toggles < MaxToggles
  /\ toggles' = toggles + 1
  /\ pinLevel' = [pinLevel EXCEPT ![p] = 1 - @]
  /\ UNCHANGED <<scriptVars, pio, pinHandles, pinSpec, pinCalls>>

Names == {"", "none"} \cup UNION {{Board[main][i].name : i \in DOMAIN Board[main]} : main \in DOMAIN Board}

OnHandle(h) ==
  \/ \E mode \in 0..2 : gpio_release(h, mode)
  \/ \E name \in Names :
       \/ \E own \in BOOLEAN, status \in Patches.gpio : gpio_set_one_pin_status(h, name, own, status)
       \/ \E out \in 0..1 : gpio_set_one_pin_io_status(h, out, name)
       \/ \E pull \in {1, 2} : gpio_set_one_pin_pull(h, pull, name)
       \/ \E dlevel \in {3} : gpio_set_one_pin_driver_level(h, dlevel, name)
       \/ \E value \in 0..1 : gpio_write_one_pin_value(h, value, name)

SysNext ==
  \/ /\ pinCalls < MaxPinCalls
     /\ pinCalls' = pinCalls + 1
     /\ UNCHANGED toggles
     /\ \/ script = NoScript /\ script_parser_init
        \/ script # NoScript /\ script_parser_exit
        \/ \E k \in Keys :
             LET type == Board[k[1]][k[2]].type
             IN  \E body \in Patches[type] : script_parser_patch(k, body) /\ PinsOnce(script'[k[1]])
        \/ \E main \in DOMAIN Board : \E sub \in Names : gpio_request_ex(main, sub)
        \/ \E h \in DOMAIN pinHandles : OnHandle(h)
  \/ \E p \in Pins : Toggle(p)

SysSpec == SysInit /\ [][SysNext]_sysVars

-----------------------------------------------------------------------------
(* Whatever pins share a register, and whatever calls, of however many     *)
(* users, requested, set and released them: each pin has the function,     *)
(* pull and drive that were last asked of it, and an output drives what    *)
(* was last asked since it is one.  The status that a handle reads from    *)
(* the hardware is that of its pins.                                       *)
PinsKept ==
  /\ \A p \in Pins :
       /\ <<pio.func[p], pio.pull[p], pio.dlevel[p]>> = <<pinSpec[p].func, pinSpec[p].pull, pinSpec[p].dlevel>>
       /\ pinSpec[p].out # Unknown => pio.func[p] = 1 /\ pio.data[p] = pinSpec[p].out
  /\ \A h \in DOMAIN pinHandles : \A i \in DOMAIN pinHandles[h] :
       LET u == pinHandles[h][i].user
           read == IF pinSpec[u.pin].func = 0 THEN pinLevel[u.pin] ELSE EGPIO_FAIL
       IN  /\ gpio_get_one_pin_status(h, u.name) = {gpio_get_all_pin_status(h)[i]}
           /\ gpio_get_all_pin_status(h)[i].func = pinSpec[u.pin].func
           /\ gpio_read_one_pin_value(h, u.name) = {read}

Walk(main) ==
  LET walk[index \in 0..script_parser_subkey_count(main)] ==
        LET j == script_parser_fetch_subkey_next(main, index)
        IN  IF j = {} THEN {} ELSE j \cup walk[CHOOSE k \in j : TRUE]
  IN  walk[0]

StartsWith(text, start) == Len(start) <= Len(text) /\ SubSeq(text, 1, Len(start)) = start

(* The configuration gives each key what was last put there, as far as the *)
(* caller's buffer reaches, and going through a main key with              *)
(* script_parser_fetch_subkey_next meets its words and strings in turn.    *)
ScriptKept ==
  script # NoScript =>
    /\ \A k \in Keys :
         LET key == script[k[1]][k[2]]
             got == script_parser_fetch(k[1], key.name, 14)
         IN  CASE key.type = "word" -> got.value = patched[k]
               [] key.type = "gpio" -> got.value = [patched[k] EXCEPT !.name = key.name]
               [] key.type = "string" -> \/ StartsWith(got.value, patched[k])
                                         \/ StartsWith(patched[k], got.value)
               [] OTHER -> got.value = <<>>
    /\ \A main \in DOMAIN Board :
         Walk(main) = {i \in DOMAIN Board[main] : Board[main][i].type \in {"word", "string"}}

(* Both: what the board's configuration says of a key, and what a call     *)
(* asked of a pin, stays until someone says otherwise of the same one.     *)
ConfigKept == PinsKept /\ ScriptKept
=============================================================================
