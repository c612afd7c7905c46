---------------------------- MODULE MCCardDetect ----------------------------
(***************************************************************************)
(* The card slot, what is written to a card through FlashIo, the vendor's  *)
(* partition table, and the board's configuration and pins, for TLC: two   *)
(* good cards of different capacity and one that cannot be initialised, a  *)
(* LastBlock of three bits; tables that reach each branch of the erase.    *)
(* The four share no variable: a behaviour is about one part while the     *)
(* others stand still.                                                     *)
(***************************************************************************)
EXTENDS CardDetect, FlashIo, SysConfig

CONSTANTS small, large, bad

VARIABLE part

MCCards == {small, large, bad}
MCCapacity == [c \in MCCards |-> IF c = small THEN 2 ELSE 4]

Part(name, addr, len) == [name |-> name, addr |-> addr, len |-> len]

MCImages ==
  {<<Part("boot", 40960, 5000), Part("udisk", 45960, 0)>>,
   <<Part("env", 40960, 8192), Part("boot", 49152, 16384), Part("data", 65536, 32768),
     Part("system", 98304, 32769), Part("udisk", 131073, 0)>>}

(* Pins that share all registers, all but the function, the data only, and *)
(* none.                                                                   *)
Pin(port, num) == [port |-> port, num |-> num]
PinSetting(pin, func, pull, dlevel, data) ==
  [name |-> "", pin |-> pin, mul_sel |-> func, pull |-> pull, drv_level |-> dlevel, data |-> data]
Key(name, type, body) == [name |-> name, type |-> type, body |-> body]

MCNoPin == Pin(0, 0)
MCPins == {Pin(1, 6), Pin(1, 7), Pin(1, 8), Pin(1, 16), Pin(2, 7)}
MCBoard ==
  [lcd |-> <<Key("used", "word", 1),
             Key("a", "gpio", PinSetting(Pin(1, 6), 1, 1, Keep, 1)),
             Key("c", "gpio", PinSetting(Pin(1, 8), 1, Keep, 2, 0)),
             Key("name", "string", <<1, 2>>),
             Key("d", "gpio", PinSetting(Pin(1, 16), 1, 2, Keep, 1)),
             Key("z", "gpio", PinSetting(MCNoPin, Keep, Keep, Keep, Keep)),
             Key("e", "empty", <<>>)>>,
   twi |-> <<Key("b", "gpio", PinSetting(Pin(1, 7), 2, 1, 1, Keep)),
             Key("e", "gpio", PinSetting(Pin(2, 7), Keep, Keep, Keep, Keep)),
             Key("m", "multi", <<1>>)>>]
MCPatches ==
  [word |-> {2}, string |-> {<<3>>, <<4, 5, 6>>}, empty |-> {<<>>}, multi |-> {},
   gpio |-> {PinSetting(Pin(1, 7), 1, Keep, 0, 1), PinSetting(Pin(1, 8), 0, 1, Keep, Keep)}]

MCInit ==
  /\ Init /\ FlashInit /\ SysInit
  /\ part \in {"card", "flash", "vendor", "pins"}
  /\ part # "card" => slot = NoCard /\ ~flashElsewhere

CardPart(A) == part = "card" /\ A /\ UNCHANGED <<part, flashVars, sysVars>>

MCNext ==
  \/ part = "card" /\ Next /\ UNCHANGED <<part, flashVars, sysVars>>
  \/ part = "flash" /\ FlashNext /\ UNCHANGED <<part, vars, sysVars>>
  \/ part = "vendor" /\ VendorNext /\ UNCHANGED <<part, vars, sysVars>>
  \/ part = "pins" /\ SysNext /\ UNCHANGED <<part, vars, flashVars>>

mcVars == <<part, vars, flashVars, sysVars>>

(* FairSpec, where it is the slot that moves.                              *)
MCSpec ==
  /\ MCInit /\ [][MCNext]_mcVars
  /\ WF_mcVars(CardPart(InitSteps)) /\ WF_mcVars(CardPart(Callback))
=============================================================================
