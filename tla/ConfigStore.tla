---------------------------- MODULE ConfigStore ----------------------------
(***************************************************************************)
(* The configuration store of esp32MistingController: key-value pairs in   *)
(* one area of the EEPROM with a copy in memory (platformConfig.ino), the  *)
(* presence bytes beside it (bootConfiguration.ino), and the handlers that *)
(* write them.  Every write is committed by itself: the flash library      *)
(* erases the sector with the area and the presence bytes, and then writes *)
(* it anew.  Power may go between any two writes, and between the erasing  *)
(* and the writing of one, but not within either.  The order of the pairs  *)
(* is left out, and so are allocations that fail: the store takes about a  *)
(* kilobyte of the heap.                                                   *)
(***************************************************************************)
EXTENDS Naturals, Sequences, FiniteSets, FiniteSetsExt

CONSTANTS
  MotorOrder,    (* the keys of the motor configuration in the order written  *)
  Value,         (* values                                                    *)
  KeyLen,        (* strlen of each key ...                                    *)
  ValueLen,      (* ... and of each value                                     *)
  Reloaded,      (* what strtok makes of a value in the EEPROM                *)
  NULL,          (* strtok found nothing                                      *)
  DefaultName,   (* the device name made from the MAC address                 *)
  gEpCfgLength   (* bytes of the EEPROM area                                  *)

MotorKeys   == {MotorOrder[i] : i \in DOMAIN MotorOrder}
NetworkKeys == {"ssid", "password"}
Key         == {"dN", "dS", "dId"} \cup NetworkKeys \cup MotorKeys
Flag        == {"network", "motor", "deviceId"}

ASSUME StoreAssumption ==
  /\ MotorOrder \in Seq(STRING)
  /\ MotorKeys \cap ({"dN", "dS", "dId"} \cup NetworkKeys) = {}
  /\ KeyLen \in [Key -> Nat]
  /\ ValueLen \in [Value -> Nat]
  /\ NULL \notin Value
  /\ Reloaded \in [Value -> Value \cup {NULL}]
  /\ \A v \in Value : Reloaded[v] = NULL \/ ValueLen[Reloaded[v]] <= ValueLen[v]
  /\ DefaultName \in Value
  /\ gEpCfgLength \in Nat
  /\ KeyLen["dN"] + ValueLen[DefaultName] + 3 <= gEpCfgLength

Configurations == UNION {[S -> Value] : S \in SUBSET Key}
NoConfiguration == [k \in {} |-> NULL]

VARIABLES
  pc,             (* "off", then the calls of setup, then "loop"              *)
  eeprom,         (* the pairs in the EEPROM, or about to be written there    *)
  flags,          (* the presence bytes that are set, likewise                *)
  flash,          (* "written", or "erased" and nothing written there yet     *)
  gCfg,           (* the pairs in memory                                      *)
  gConfigBytes,
  todo,           (* the writes the running handler has still to make         *)
  refused,        (* history: keys there was no room for when last set        *)
  torn            (* history: power went while the network was being forgotten*)

vars == <<pc, eeprom, flags, flash, gCfg, gConfigBytes, todo, refused, torn>>

memory  == <<gCfg, gConfigBytes>>
history == <<refused, torn>>

(* The writes of a handler. *)
Set(k, v) == [op |-> "set", key |-> k, value |-> v]
Del(k)    == [op |-> "del", key |-> k]
Mark(f)   == [op |-> "mark", flag |-> f]
Clear(f)  == [op |-> "clear", flag |-> f]

Init ==
  /\ pc = "off"
  /\ eeprom = NoConfiguration
  /\ flags = {}
  /\ flash = "written"
  /\ gCfg = NoConfiguration
  /\ gConfigBytes = 0
  /\ todo = <<>>
  /\ refused = {}
  /\ torn = FALSE

-----------------------------------------------------------------------------
(* The text area: "key:value\0" for each pair and one more '\0'. *)

keyValuePairEpConfigBytes(k, v) == KeyLen[k] + ValueLen[v] + 2
Bytes(c) == 1 + MapThenSumSet(LAMBDA k : keyValuePairEpConfigBytes(k, c[k]), DOMAIN c)

With(c, k, v) == [x \in DOMAIN c \cup {k} |-> IF x = k THEN v ELSE c[x]]
Without(c, k) == [x \in DOMAIN c \ {k} |-> c[x]]

(* createEpCfg and writeEpCfg: the whole area is made anew from memory. *)
SavedUncounted(c) ==   (* Mutant: gConfigBytes is left as it was. *)
  /\ gCfg' = c
  /\ eeprom' = c
  /\ UNCHANGED gConfigBytes

Saved(c) ==
  /\ gCfg' = c
  /\ eeprom' = c
  /\ gConfigBytes' = Bytes(c)

StoredInMemory(k, v) ==   (* Mutant: the EEPROM is not written. *)
  /\ gCfg' = With(gCfg, k, v)
  /\ gConfigBytes' = Bytes(gCfg')
  /\ refused' = refused \ {k}
  /\ UNCHANGED eeprom

Stored(k, v) ==
  /\ Saved(With(gCfg, k, v))
  /\ refused' = refused \ {k}

checkBytesLimitIfKeyNotFound(k, v) ==
  gConfigBytes + keyValuePairEpConfigBytes(k, v) <= gEpCfgLength

addConfig(k, v) ==
  /\ k \notin DOMAIN gCfg
  /\ checkBytesLimitIfKeyNotFound(k, v)
  /\ Stored(k, v)

RefuseNew(k, v) ==
  /\ k \notin DOMAIN gCfg
  /\ ~checkBytesLimitIfKeyNotFound(k, v)
  /\ refused' = refused \cup {k}
  /\ UNCHANGED <<eeprom, memory>>

checkBytesLimitIfKeyFound(k, v) ==
  \/ ValueLen[v] <= ValueLen[gCfg[k]]
  \/ gConfigBytes + ValueLen[v] - ValueLen[gCfg[k]] <= gEpCfgLength

updateConfig(k, v) ==
  /\ k \in DOMAIN gCfg
  /\ checkBytesLimitIfKeyFound(k, v)
  /\ Stored(k, v)

(* updateConfig answers 0 here and setConfig goes on to write. *)
RefuseLonger(k, v) ==
  /\ k \in DOMAIN gCfg
  /\ ~checkBytesLimitIfKeyFound(k, v)
  /\ Saved(gCfg)
  /\ UNCHANGED refused

setConfig(k, v) ==
  /\ addConfig(k, v) \/ RefuseNew(k, v) \/ updateConfig(k, v) \/ RefuseLonger(k, v)
  /\ UNCHANGED <<pc, flags, torn>>
  /\ todo' = Tail(todo)

(* A power loss, or a panic of the processor, which then starts again.  Of a sector that
   has been erased nothing is left. *)
ForgettingNetwork ==
  /\ \E i \in DOMAIN todo : todo[i] = Clear("network")
  /\ ~(NetworkKeys \subseteq DOMAIN eeprom)

Restart ==
  /\ pc' = "off"
  /\ gCfg' = NoConfiguration
  /\ gConfigBytes' = 0
  /\ todo' = <<>>
  /\ torn' = (torn \/ ForgettingNetwork)
  /\ \/ flash = "written" /\ UNCHANGED <<eeprom, flags>>
     \/ flash = "erased" /\ eeprom' = NoConfiguration /\ flags' = {}
  /\ UNCHANGED <<flash, refused>>

(* delConfig: when the only pair is deleted realloc frees gCfg and answers NULL,
   gConfigCount stays 1, and the next look-up panics. *)
LastPair(k) == DOMAIN gCfg = {k}

delConfig(k) ==
  IF LastPair(k) THEN Restart
  ELSE /\ IF k \in DOMAIN gCfg THEN Saved(Without(gCfg, k))
          ELSE UNCHANGED <<eeprom, memory>>
       /\ todo' = Tail(todo)
       /\ UNCHANGED <<pc, flags, history>>

(* set...Presence and clear...Presence. *)
SetPresence(f) ==
  /\ flags' = flags \cup {f}
  /\ torn' = (torn /\ f # "network")
  /\ todo' = Tail(todo)
  /\ UNCHANGED <<pc, eeprom, memory, refused>>

ClearPresence(f) ==
  /\ flags' = flags \ {f}
  /\ torn' = (torn /\ f # "network")
  /\ todo' = Tail(todo)
  /\ UNCHANGED <<pc, eeprom, memory, refused>>

(* EEPROMClass::commit erases the sector if a byte differs from what it holds ... *)
commitErases ==
  flash' = IF eeprom' = eeprom /\ flags' = flags THEN "written" ELSE "erased"

(* ... and then writes all of it. *)
commitWrites ==
  /\ pc # "off"
  /\ flash = "erased"
  /\ flash' = "written"
  /\ UNCHANGED <<pc, eeprom, flags, memory, todo, history>>

Write ==
  /\ todo # <<>>
  /\ flash = "written"
  /\ LET w == Head(todo) IN
     \/ w.op = "set" /\ setConfig(w.key, w.value)
     \/ w.op = "del" /\ delConfig(w.key)
     \/ w.op = "mark" /\ SetPresence(w.flag)
     \/ w.op = "clear" /\ ClearPresence(w.flag)
  /\ commitErases

-----------------------------------------------------------------------------
(* setup. *)

(* initSetUp: strtok ends a value at a separator and finds none in an empty one, nor in
   the bytes 0xFF of a sector that was erased; strdup of that NULL panics, at this boot
   and at every other. *)
initSetUp ==
  /\ pc = "off"
  /\ flash = "written"
  /\ \A k \in DOMAIN eeprom : Reloaded[eeprom[k]] # NULL
  /\ gCfg' = [k \in DOMAIN eeprom |-> Reloaded[eeprom[k]]]
  /\ gConfigBytes' = Bytes(eeprom)
  /\ pc' = "name"
  /\ UNCHANGED <<eeprom, flags, flash, todo, history>>

Handler(from, to, writes) ==
  /\ pc = from
  /\ todo = <<>>
  /\ flash = "written"
  /\ pc' = to
  /\ todo' = writes
  /\ UNCHANGED <<eeprom, flags, flash, memory, history>>

(* Mutant: the network is tried before the device has its name. *)
NamelessBoot == Handler("name", "network", <<>>)

setDeviceNameEEPROM ==
  Handler("name", "network",
          IF "dN" \in DOMAIN gCfg THEN <<>> ELSE <<Set("dN", DefaultName)>>)

(* The saved network is forgotten when it cannot be reached. *)
ForgetNetwork == <<Del("ssid"), Del("password"), Clear("network")>>

initNetworkConnection ==
  \/ Handler("network", "loop", <<>>)    (* none saved, or connected *)
  \/ "network" \in flags /\ Handler("network", "loop", ForgetNetwork)

-----------------------------------------------------------------------------
(* The handlers of the main loop. *)

MainLoop(writes) == Handler("loop", "loop", writes)

(* Once connectWithAp has succeeded, which takes a name of a router. *)
evtApConnect(ssid, password) ==
  /\ ValueLen[ssid] > 0
  /\ MainLoop(<<Set("ssid", ssid), Set("password", password), Mark("network")>>)

evtApDisconnect == MainLoop(<<Clear("network")>>)

changeDeviceName(v) == MainLoop(<<Set("dN", v)>>)

(* handleDeviceState and evtHandleAlert. *)
StoreState(v) == MainLoop(<<Set("dS", v)>>)

(* Cases 1 and 3 of handleConfigUpdateJson; c is the configuration sent. *)
MotorWritesMarkedFirst(c) ==   (* Mutant: the presence byte is written first. *)
  <<Mark("motor")>> \o [i \in DOMAIN MotorOrder |-> Set(MotorOrder[i], c[MotorOrder[i]])]

MotorWrites(c) ==
  [i \in DOMAIN MotorOrder |-> Set(MotorOrder[i], c[MotorOrder[i]])] \o <<Mark("motor")>>

handleConfigUpdateJson(c) == MainLoop(MotorWrites(c))

(* The cloud has registered the device. *)
AlreadyRegistered(v) ==
  /\ "deviceId" \notin flags
  /\ "dId" \in DOMAIN gCfg
  /\ gCfg["dId"] = v

storeDeviceId(v) ==
  /\ ~AlreadyRegistered(v)
  /\ MainLoop(<<Set("dId", v), Mark("deviceId")>>)

-----------------------------------------------------------------------------

PowerLoss == pc # "off" /\ Restart

Next ==
  \/ initSetUp
  \/ setDeviceNameEEPROM
  \/ initNetworkConnection
  \/ Write
  \/ commitWrites
  \/ \E s, p \in Value : evtApConnect(s, p)
  \/ evtApDisconnect
  \/ \E v \in Value : changeDeviceName(v) \/ StoreState(v) \/ storeDeviceId(v)
  \/ \E c \in [MotorKeys -> Value] : handleConfigUpdateJson(c)
  \/ PowerLoss

Spec == Init /\ [][Next]_vars

-----------------------------------------------------------------------------
(* Properties. *)

Writes == [op : {"set"}, key : Key, value : Value] \cup [op : {"del"}, key : NetworkKeys]
          \cup [op : {"mark", "clear"}, flag : Flag]

(* Types of the store, of its copy in memory and of the pending writes. *)
TypeOK ==
  /\ pc \in {"off", "name", "network", "loop"}
  /\ eeprom \in Configurations
  /\ flags \subseteq Flag
  /\ flash \in {"written", "erased"}
  /\ gCfg \in Configurations
  /\ gConfigBytes \in Nat
  /\ todo \in Seq(Writes)
  /\ refused \subseteq Key
  /\ torn \in BOOLEAN

(* The area never holds more than its gEpCfgLength bytes, and the count the space
   tests of setConfig rely on is never below what memory would write, although it
   is taken from the EEPROM at boot and strtok may have shortened values since. *)
AreaNotOverrun ==
  /\ Bytes(eeprom) <= gEpCfgLength
  /\ pc # "off" => Bytes(gCfg) <= gConfigBytes /\ gConfigBytes <= gEpCfgLength

(* What getConfiguration answers outside a commit it answers after a restart. *)
Durable ==
  pc # "off" /\ flash = "written" =>
    /\ DOMAIN gCfg = DOMAIN eeprom
    /\ \A k \in DOMAIN gCfg : Reloaded[eeprom[k]] = gCfg[k]

(* The same for the values strtok leaves alone, whatever the others are. *)
PlainDurable ==
  pc # "off" /\ flash = "written" =>
    /\ DOMAIN gCfg = DOMAIN eeprom
    /\ \A k \in DOMAIN gCfg : Reloaded[gCfg[k]] = gCfg[k] => Reloaded[eeprom[k]] = gCfg[k]

(* A device that is off finds a written area when it starts: configuration.h:44,
   "initialize the memory after power on", platform.h:4, "Persistent Memory APIs". *)
AreaPersists == pc = "off" => flash = "written"

(* A presence byte tells the truth wherever power goes, a commit included: its keys are
   stored, except those that setConfig had no room for, whose answer no handler looks
   at, and for the network those that were being deleted. *)
FlagsHonest ==
  /\ "motor" \in flags => MotorKeys \subseteq DOMAIN eeprom \cup refused
  /\ "deviceId" \in flags => "dId" \in DOMAIN eeprom \cup refused
  /\ "network" \in flags =>
       NetworkKeys \subseteq DOMAIN eeprom \cup refused \/ ForgettingNetwork \/ torn

(* delConfig never deletes the only pair, whose memory would be freed and then used. *)
AnotherPairStays ==
  todo # <<>> /\ Head(todo).op = "del" => ~LastPair(Head(todo).key)
=============================================================================
