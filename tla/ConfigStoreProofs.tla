------------------------- MODULE ConfigStoreProofs -------------------------
(***************************************************************************)
(* For every set of motor keys and values, every length of the EEPROM area *)
(* and whatever strtok makes of a value: the presence bytes are honest     *)
(* wherever power goes, plain values survive it outside a commit, the area *)
(* is never overrun and its last pair is never deleted.                    *)
(***************************************************************************)
EXTENDS ConfigStore, TLAPS, FiniteSetTheorems, WellFoundedInduction

(* The keys a presence byte speaks of. *)
KeysOf(f) == IF f = "motor" THEN MotorKeys
             ELSE IF f = "network" THEN NetworkKeys ELSE {"dId"}

Kept(k) == k \in DOMAIN eeprom \cup refused

(* Pending writes: what each may be. *)
Pending ==
  /\ todo \in Seq(Writes)
  /\ pc = "off" => todo = <<>>

(* In memory and in the EEPROM the same keys. *)
SameKeys == pc # "off" => DOMAIN gCfg = DOMAIN eeprom

(* A pending mark comes after what it promises. *)
Promised ==
  \A i \in DOMAIN todo : todo[i].op = "mark" =>
    \A k \in KeysOf(todo[i].flag) :
      Kept(k) \/ \E j \in 1..(i - 1) : todo[j].op = "set" /\ todo[j].key = k

(* Deletions are followed by the clearing of the network's byte. *)
Forgotten ==
  \A i \in DOMAIN todo : todo[i].op = "del" =>
    /\ \A j \in DOMAIN todo : todo[j].op # "mark"
    /\ \E j \in DOMAIN todo : j > i /\ todo[j] = Clear("network")

(* FlagsHonest, byte by byte. *)
Honest ==
  \A f \in flags : \A k \in KeysOf(f) :
    Kept(k) \/ (f = "network" /\ (ForgettingNetwork \/ torn))

Inv ==
  /\ flags \subseteq Flag
  /\ Pending
  /\ SameKeys
  /\ Promised
  /\ Forgotten
  /\ Honest

-----------------------------------------------------------------------------

(* The sequence left after the first write. *)
LEMMA TailOf ==
  ASSUME NEW S, NEW s \in Seq(S), s # <<>>
  PROVE  /\ Tail(s) \in Seq(S)
         /\ 1 \in DOMAIN s /\ Head(s) = s[1] /\ s[1] \in S
         /\ \A i \in DOMAIN Tail(s) : i + 1 \in DOMAIN s /\ Tail(s)[i] = s[i + 1]
         /\ \A i \in DOMAIN s : i # 1 => i - 1 \in DOMAIN Tail(s) /\ Tail(s)[i - 1] = s[i]
         /\ DOMAIN s \subseteq Nat \ {0} /\ DOMAIN Tail(s) \subseteq Nat \ {0}
OBVIOUS

(* What is left promises no less, if a key that was to be set first is now kept and
   no other key is lost. *)
LEMMA PromisesLeft ==
  ASSUME Inv, todo # <<>>, todo' = Tail(todo),
         \A k : Kept(k) => Kept(k)',
         NEW h, Head(todo).op = "set" => Head(todo).key = h /\ Kept(h)'
  PROVE  Promised'
<1> SUFFICES ASSUME NEW i \in DOMAIN todo', todo'[i].op = "mark",
                    NEW k \in KeysOf(todo'[i].flag)
             PROVE  Kept(k)' \/ \E j \in 1..(i - 1) : todo'[j].op = "set" /\ todo'[j].key = k
  BY DEF Promised, KeysOf
<1>1. /\ i \in Nat \ {0} /\ i + 1 \in DOMAIN todo /\ todo'[i] = todo[i + 1]
      /\ Head(todo) = todo[1] /\ DOMAIN todo \subseteq Nat \ {0}
      /\ \A j \in DOMAIN todo : j # 1 => j - 1 \in DOMAIN todo' /\ todo'[j - 1] = todo[j]
  BY TailOf DEF Inv, Pending
<1>2. Kept(k) \/ \E j \in 1..i : todo[j].op = "set" /\ todo[j].key = k
  BY <1>1 DEF Inv, Promised
<1>3. CASE Kept(k)
  BY <1>3
<1>4. CASE \E j \in 1..i : todo[j].op = "set" /\ todo[j].key = k
  <2>1. PICK j \in 1..i : todo[j].op = "set" /\ todo[j].key = k
    BY <1>4
  <2>2. CASE j = 1
    BY <2>1, <2>2, <1>1
  <2>3. CASE j # 1
    <3>1. j \in DOMAIN todo
      BY <1>1, todo \in Seq(Writes) DEF Inv, Pending
    <3>2. j - 1 \in 1..(i - 1) /\ todo'[j - 1] = todo[j]
      BY <3>1, <2>3, <1>1
    <3> QED BY <3>2, <2>1
  <2> QED BY <2>2, <2>3
<1> QED BY <1>2, <1>3, <1>4

(* Deletions that are left are still followed by the clearing. *)
LEMMA DeletionsLeft ==
  ASSUME Inv, todo # <<>>, todo' = Tail(todo)
  PROVE  Forgotten'
<1> SUFFICES ASSUME NEW i \in DOMAIN todo', todo'[i].op = "del"
             PROVE  /\ \A j \in DOMAIN todo' : todo'[j].op # "mark"
                    /\ \E j \in DOMAIN todo' : j > i /\ todo'[j] = Clear("network")
  BY DEF Forgotten, Clear
<1>1. /\ \A j \in DOMAIN todo' : j + 1 \in DOMAIN todo /\ todo'[j] = todo[j + 1]
      /\ \A j \in DOMAIN todo : j # 1 => j - 1 \in DOMAIN todo' /\ todo'[j - 1] = todo[j]
      /\ DOMAIN todo \subseteq Nat \ {0} /\ DOMAIN todo' \subseteq Nat \ {0}
  BY TailOf DEF Inv, Pending
<1>2. PICK c \in DOMAIN todo : c > i + 1 /\ todo[c] = Clear("network")
  BY <1>1 DEF Inv, Forgotten
<1>3. c - 1 \in DOMAIN todo' /\ todo'[c - 1] = Clear("network") /\ c - 1 > i
  BY <1>1, <1>2
<1>4. \A j \in DOMAIN todo' : todo'[j].op # "mark"
  BY <1>1 DEF Inv, Forgotten
<1> QED BY <1>3, <1>4

(* A clearing that is not the first write is still to come. *)
LEMMA ClearingLeft ==
  ASSUME Inv, todo # <<>>, todo' = Tail(todo), Head(todo) # Clear("network"),
         NEW i \in DOMAIN todo, todo[i] = Clear("network")
  PROVE  \E j \in DOMAIN todo' : todo'[j] = Clear("network")
<1>1. Head(todo) = todo[1] /\ \A j \in DOMAIN todo : j # 1 =>
         j - 1 \in DOMAIN todo' /\ todo'[j - 1] = todo[j]
  BY TailOf DEF Inv, Pending
<1>2. i # 1
  BY <1>1
<1> QED BY <1>1, <1>2

-----------------------------------------------------------------------------
(* The writes. *)

(* setConfig never removes a key, and its own is stored or refused. *)
LEMMA SetKeeps ==
  ASSUME Inv, pc # "off", NEW k, NEW v,
         addConfig(k, v) \/ RefuseNew(k, v) \/ updateConfig(k, v) \/ RefuseLonger(k, v),
         pc' = pc
  PROVE  /\ SameKeys' /\ Kept(k)'
         /\ DOMAIN eeprom \subseteq DOMAIN eeprom'
         /\ \A x : Kept(x) => Kept(x)'
<1>1. DOMAIN gCfg = DOMAIN eeprom
  BY DEF Inv, SameKeys
<1>2. CASE addConfig(k, v)
  BY <1>1, <1>2 DEF addConfig, Stored, Saved, With, SameKeys, Kept
<1>3. CASE RefuseNew(k, v)
  BY <1>1, <1>3 DEF RefuseNew, memory, SameKeys, Kept
<1>4. CASE updateConfig(k, v)
  BY <1>1, <1>4 DEF updateConfig, Stored, Saved, With, SameKeys, Kept
<1>5. CASE RefuseLonger(k, v)
  BY <1>1, <1>5 DEF RefuseLonger, Saved, SameKeys, Kept
<1> QED BY <1>2, <1>3, <1>4, <1>5

LEMMA SetPreserves ==
  ASSUME Inv, todo # <<>>, Head(todo).op = "set",
         NEW k, NEW v, Head(todo).key = k, setConfig(k, v)
  PROVE  Inv'
<1>0. pc # "off" /\ todo' = Tail(todo) /\ pc' = pc /\ flags' = flags /\ torn' = torn
  BY DEF Inv, Pending, setConfig
<1>1. /\ SameKeys' /\ Kept(k)' /\ DOMAIN eeprom \subseteq DOMAIN eeprom'
      /\ \A x : Kept(x) => Kept(x)'
  BY <1>0, SetKeeps DEF setConfig
<1>2. Promised'
  BY <1>0, <1>1, PromisesLeft
<1>3. Forgotten'
  BY <1>0, DeletionsLeft
<1>4. Pending'
  BY <1>0, TailOf DEF Inv, Pending
<1>5. Honest'
  <2> SUFFICES ASSUME NEW f \in flags, NEW x \in KeysOf(f), ~Kept(x)', f = "network", ~torn
               PROVE  ForgettingNetwork'
    BY <1>0, <1>1 DEF Honest, KeysOf, Inv
  <2>1. ~Kept(x) /\ ForgettingNetwork
    BY <1>1 DEF Inv, Honest
  <2>2. \E j \in DOMAIN todo' : todo'[j] = Clear("network")
    <3>1. Head(todo) # Clear("network")
      BY DEF Clear
    <3> QED BY <2>1, <3>1, <1>0, ClearingLeft DEF ForgettingNetwork
  <2>3. ~(NetworkKeys \subseteq DOMAIN eeprom')
    BY DEF Kept, KeysOf
  <2> QED BY <2>2, <2>3 DEF ForgettingNetwork, Clear
<1> QED BY <1>0, <1>1, <1>2, <1>3, <1>4, <1>5 DEF Inv

(* Power loss and panic. *)
LEMMA RestartPreserves ==
  ASSUME Inv, Restart
  PROVE  Inv'
<1>1. /\ pc' = "off" /\ todo' = <<>>
      /\ refused' = refused /\ torn' = (torn \/ ForgettingNetwork)
      /\ (eeprom' = eeprom /\ flags' = flags) \/ flags' = {}
  BY DEF Restart
<1>2. Pending' /\ SameKeys' /\ Promised' /\ Forgotten'
  BY <1>1 DEF Pending, SameKeys, Promised, Forgotten
<1>3. Honest' /\ flags' \subseteq Flag
  <2>1. CASE eeprom' = eeprom /\ flags' = flags
    BY <1>1, <2>1 DEF Inv, Honest, Kept, KeysOf
  <2>2. CASE flags' = {}
    BY <2>2 DEF Honest
  <2> QED BY <1>1, <2>1, <2>2
<1> QED BY <1>2, <1>3 DEF Inv

LEMMA DelPreserves ==
  ASSUME StoreAssumption, Inv, todo # <<>>, Head(todo).op = "del",
         NEW k, Head(todo).key = k, delConfig(k)
  PROVE  Inv'
<1>1. CASE LastPair(k)
  BY <1>1, RestartPreserves DEF delConfig
<1>2. CASE ~LastPair(k)
  <2>1. /\ pc # "off" /\ todo' = Tail(todo) /\ pc' = pc /\ flags' = flags
        /\ torn' = torn /\ refused' = refused
    BY <1>2 DEF delConfig, Inv, Pending, history
  <2>2. DOMAIN gCfg = DOMAIN eeprom
    BY <2>1 DEF Inv, SameKeys
  <2>3. SameKeys' /\ DOMAIN eeprom' = DOMAIN eeprom \ {k}
    BY <1>2, <2>1, <2>2 DEF delConfig, Saved, Without, memory, SameKeys
  <2>4. k \in NetworkKeys
    BY TailOf DEF Inv, Pending, Writes
  <2>5. /\ \A j \in DOMAIN todo : todo[j].op # "mark"
        /\ \E j \in DOMAIN todo : todo[j] = Clear("network")
    BY TailOf DEF Inv, Pending, Forgotten
  <2>6. \E j \in DOMAIN todo' : todo'[j] = Clear("network")
    <3>1. Head(todo) # Clear("network")
      BY DEF Clear
    <3> QED BY <2>1, <2>5, <3>1, ClearingLeft
  <2>7. Pending' /\ Promised'
    BY <2>1, <2>5, TailOf DEF Inv, Pending, Promised
  <2>8. Forgotten'
    BY <2>1, DeletionsLeft
  <2>9. Honest'
    <3> SUFFICES ASSUME NEW f \in flags, NEW x \in KeysOf(f), ~Kept(x)'
                 PROVE  f = "network" /\ (ForgettingNetwork' \/ torn)
      BY <2>1 DEF Honest, KeysOf
    <3>1. CASE Kept(x)
      <4>1. x = k
        BY <3>1, <2>1, <2>3 DEF Kept
      <4>2. f = "network"
        BY <4>1, <2>4 DEF Inv, Flag, KeysOf, StoreAssumption, NetworkKeys
      <4>3. ForgettingNetwork'
        BY <4>1, <2>3, <2>4, <2>6 DEF ForgettingNetwork, Clear
      <4> QED BY <4>2, <4>3
    <3>2. CASE ~Kept(x)
      <4>1. f = "network" /\ (ForgettingNetwork \/ torn)
        BY <3>2 DEF Inv, Honest
      <4>2. ForgettingNetwork => ForgettingNetwork'
        BY <2>3, <2>6 DEF ForgettingNetwork, Clear
      <4> QED BY <4>1, <4>2
    <3> QED BY <3>1, <3>2
  <2> QED BY <2>1, <2>3, <2>7, <2>8, <2>9 DEF Inv
<1> QED BY <1>1, <1>2

(* The presence bytes. *)
LEMMA MarkPreserves ==
  ASSUME Inv, todo # <<>>, Head(todo).op = "mark",
         NEW f, Head(todo).flag = f, SetPresence(f)
  PROVE  Inv'
<1>1. /\ pc' = pc /\ todo' = Tail(todo) /\ flags' = flags \cup {f} /\ eeprom' = eeprom
      /\ gCfg' = gCfg /\ refused' = refused /\ torn' = (torn /\ f # "network")
  BY DEF SetPresence, memory
<1>2. Pending' /\ SameKeys' /\ f \in Flag
  BY <1>1, TailOf DEF Inv, Pending, SameKeys, Writes
<1>3. Promised'
  <2>1. /\ \A k : Kept(k) => Kept(k)'
        /\ Head(todo).op = "set" => Head(todo).key = "dN" /\ Kept("dN")'
    BY <1>1 DEF Kept
  <2> QED BY <1>1, <2>1, PromisesLeft
<1>4. Forgotten'
  BY <1>1, DeletionsLeft
<1>5. \A k \in KeysOf(f) : Kept(k)
  <2>1. 1 \in DOMAIN todo /\ Head(todo) = todo[1]
    BY TailOf DEF Inv, Pending
  <2>2. \A k \in KeysOf(f) : Kept(k) \/ \E j \in 1..(1 - 1) : todo[j].op = "set" /\ todo[j].key = k
    BY <2>1 DEF Inv, Promised
  <2> QED BY <2>2
<1>6. Honest'
  <2> SUFFICES ASSUME NEW g \in flags \cup {f}, NEW x \in KeysOf(g), ~Kept(x)
               PROVE  g = "network" /\ (ForgettingNetwork' \/ torn')
    BY <1>1 DEF Honest, KeysOf, Kept
  <2>1. g \in flags /\ g # f
    BY <1>5
  <2>2. g = "network" /\ (ForgettingNetwork \/ torn)
    BY <2>1 DEF Inv, Honest
  <2>3. ForgettingNetwork => ForgettingNetwork'
    <3>1. Head(todo) # Clear("network")
      BY DEF Clear
    <3> QED BY <1>1, <3>1, ClearingLeft DEF ForgettingNetwork, Clear
  <2> QED BY <1>1, <2>1, <2>2, <2>3
<1> QED BY <1>1, <1>2, <1>3, <1>4, <1>6 DEF Inv

LEMMA ClearPreserves ==
  ASSUME Inv, todo # <<>>, Head(todo).op = "clear",
         NEW f, Head(todo).flag = f, ClearPresence(f)
  PROVE  Inv'
<1>1. /\ pc' = pc /\ todo' = Tail(todo) /\ flags' = flags \ {f} /\ eeprom' = eeprom
      /\ gCfg' = gCfg /\ refused' = refused /\ torn' = (torn /\ f # "network")
  BY DEF ClearPresence, memory
<1>2. Pending' /\ SameKeys'
  BY <1>1, TailOf DEF Inv, Pending, SameKeys
<1>3. Promised'
  <2>1. /\ \A k : Kept(k) => Kept(k)'
        /\ Head(todo).op = "set" => Head(todo).key = "dN" /\ Kept("dN")'
    BY <1>1 DEF Kept
  <2> QED BY <1>1, <2>1, PromisesLeft
<1>4. Forgotten'
  BY <1>1, DeletionsLeft
<1>5. Honest'
  <2> SUFFICES ASSUME NEW g \in flags, g # f, NEW x \in KeysOf(g), ~Kept(x)
               PROVE  g = "network" /\ (ForgettingNetwork' \/ torn')
    BY <1>1 DEF Honest, KeysOf, Kept
  <2>1. g = "network" /\ (ForgettingNetwork \/ torn)
    BY DEF Inv, Honest
  <2>2. ForgettingNetwork => ForgettingNetwork'
    <3>1. Head(todo) # Clear("network")
      BY <2>1 DEF Clear
    <3> QED BY <1>1, <3>1, ClearingLeft DEF ForgettingNetwork, Clear
  <2> QED BY <1>1, <2>1, <2>2
<1> QED BY <1>1, <1>2, <1>3, <1>4, <1>5 DEF Inv

LEMMA WritePreserves ==
  ASSUME StoreAssumption, Inv, Write
  PROVE  Inv'
<1>1. todo # <<>>
  BY DEF Write
<1>2. CASE Head(todo).op = "set" /\ setConfig(Head(todo).key, Head(todo).value)
  <2>1. PICK k, v : Head(todo).key = k /\ Head(todo).value = v
    OBVIOUS
  <2>2. setConfig(k, v)
    BY <1>2, <2>1
  <2> QED BY <1>1, <1>2, <2>1, <2>2, SetPreserves
<1>3. CASE Head(todo).op = "del" /\ delConfig(Head(todo).key)
  <2>1. PICK k : Head(todo).key = k
    OBVIOUS
  <2>2. delConfig(k)
    BY <1>3, <2>1
  <2> QED BY <1>1, <1>3, <2>1, <2>2, DelPreserves
<1>4. CASE Head(todo).op = "mark" /\ SetPresence(Head(todo).flag)
  <2>1. PICK f : Head(todo).flag = f
    OBVIOUS
  <2>2. SetPresence(f)
    BY <1>4, <2>1
  <2> QED BY <1>1, <1>4, <2>1, <2>2, MarkPreserves
<1>5. CASE Head(todo).op = "clear" /\ ClearPresence(Head(todo).flag)
  <2>1. PICK f : Head(todo).flag = f
    OBVIOUS
  <2>2. ClearPresence(f)
    BY <1>5, <2>1
  <2> QED BY <1>1, <1>5, <2>1, <2>2, ClearPreserves
<1> QED BY <1>2, <1>3, <1>4, <1>5 DEF Write

-----------------------------------------------------------------------------
(* The handlers: what each leaves to be written. *)

Writable(writes) ==
  /\ writes \in Seq(Writes)
  /\ \A i \in DOMAIN writes : writes[i].op = "mark" =>
       \A k \in KeysOf(writes[i].flag) :
         \E j \in 1..(i - 1) : writes[j].op = "set" /\ writes[j].key = k
  /\ \A i \in DOMAIN writes : writes[i].op = "del" =>
       /\ \A j \in DOMAIN writes : writes[j].op # "mark"
       /\ \E j \in DOMAIN writes : j > i /\ writes[j] = Clear("network")

LEMMA HandlerPreserves ==
  ASSUME Inv, NEW from, NEW to, from # "off", to # "off", NEW writes, Writable(writes),
         Handler(from, to, writes)
  PROVE  Inv'
<1>1. /\ pc # "off" /\ pc' # "off" /\ todo = <<>> /\ todo' = writes /\ eeprom' = eeprom
      /\ flags' = flags /\ gCfg' = gCfg /\ refused' = refused /\ torn' = torn
  BY DEF Handler, memory, history
<1>2. Pending' /\ SameKeys' /\ Promised' /\ Forgotten'
  BY <1>1 DEF Inv, Pending, SameKeys, Promised, Forgotten, Writable
<1>3. ~ForgettingNetwork
  BY <1>1 DEF ForgettingNetwork
<1>4. Honest'
  BY <1>1, <1>3 DEF Inv, Honest, Kept
<1> QED BY <1>1, <1>2, <1>4 DEF Inv

LEMMA NothingWritable == Writable(<<>>)
BY DEF Writable

LEMMA OneWritable ==
  ASSUME NEW w \in Writes, w.op \in {"set", "clear"}
  PROVE  Writable(<<w>>)
BY DEF Writable

LEMMA ForgetWritable == Writable(ForgetNetwork)
BY DEF Writable, ForgetNetwork, Writes, Del, Clear, NetworkKeys, Flag

LEMMA NetworkWritable ==
  ASSUME NEW s \in Value, NEW p \in Value
  PROVE  Writable(<<Set("ssid", s), Set("password", p), Mark("network")>>)
BY DEF Writable, Writes, Set, Mark, NetworkKeys, Flag, Key, KeysOf

LEMMA DeviceIdWritable ==
  ASSUME NEW v \in Value
  PROVE  Writable(<<Set("dId", v), Mark("deviceId")>>)
BY DEF Writable, Writes, Set, Mark, Flag, Key, KeysOf

LEMMA MotorWritable ==
  ASSUME StoreAssumption, NEW c \in [MotorKeys -> Value]
  PROVE  Writable(MotorWrites(c))
<1> DEFINE n == Len(MotorOrder)
           sets == [i \in DOMAIN MotorOrder |-> Set(MotorOrder[i], c[MotorOrder[i]])]
<1>1. n \in Nat /\ DOMAIN MotorOrder = 1..n
  BY DEF StoreAssumption
<1>2. \A i \in 1..n : sets[i] \in Writes /\ sets[i].op = "set" /\ sets[i].key = MotorOrder[i]
  BY <1>1 DEF Set, Writes, Key, MotorKeys
<1>3. sets \in Seq(Writes) /\ Len(sets) = n
  BY <1>1, <1>2
<1>4. Mark("motor") \in Writes /\ Mark("motor").op = "mark" /\ Mark("motor").flag = "motor"
  BY DEF Mark, Writes, Flag
<1>5. /\ MotorWrites(c) \in Seq(Writes) /\ DOMAIN MotorWrites(c) = 1..(n + 1)
      /\ \A i \in 1..n : MotorWrites(c)[i] = sets[i]
      /\ MotorWrites(c)[n + 1] = Mark("motor")
  BY <1>1, <1>3, <1>4 DEF MotorWrites
<1> HIDE DEF sets, n
<1>6. \A i \in DOMAIN MotorWrites(c) : i # n + 1 => MotorWrites(c)[i].op = "set"
  BY <1>1, <1>2, <1>5
<1>7. \A k \in MotorKeys : \E j \in 1..n : MotorOrder[j] = k
  BY <1>1 DEF MotorKeys
<1>8. KeysOf("motor") = MotorKeys
  BY DEF KeysOf
<1>9. \A i \in DOMAIN MotorWrites(c) : MotorWrites(c)[i].op = "mark" =>
        /\ i - 1 = n
        /\ MotorWrites(c)[i].flag = "motor"
  BY <1>1, <1>4, <1>5, <1>6
<1>10. \A k \in MotorKeys : \E j \in 1..n :
         MotorWrites(c)[j].op = "set" /\ MotorWrites(c)[j].key = k
  BY <1>2, <1>5, <1>7
<1>11. \A i \in DOMAIN MotorWrites(c) : MotorWrites(c)[i].op # "del"
  BY <1>4, <1>5, <1>6
<1> QED BY <1>5, <1>8, <1>9, <1>10, <1>11 DEF Writable

-----------------------------------------------------------------------------
(* Every step. *)

LEMMA BootPreserves ==
  ASSUME Inv, initSetUp
  PROVE  Inv'
<1>1. /\ pc = "off" /\ DOMAIN gCfg' = DOMAIN eeprom /\ eeprom' = eeprom /\ flags' = flags
      /\ todo' = todo /\ refused' = refused /\ torn' = torn
  BY DEF initSetUp, history
<1>2. Pending' /\ SameKeys' /\ Promised' /\ Forgotten' /\ Honest'
  BY <1>1 DEF Inv, Pending, SameKeys, Promised, Forgotten, Honest, Kept, ForgettingNetwork
<1> QED BY <1>1, <1>2 DEF Inv

LEMMA StepPreserves == StoreAssumption /\ Inv /\ [Next]_vars => Inv'
<1> SUFFICES ASSUME StoreAssumption, Inv, [Next]_vars PROVE Inv'
  OBVIOUS
<1>1. CASE initSetUp
  BY <1>1, BootPreserves
<1>2. CASE setDeviceNameEEPROM
  <2>1. Set("dN", DefaultName) \in Writes /\ Set("dN", DefaultName).op = "set"
    BY DEF Set, Writes, Key, StoreAssumption
  <2>2. Writable(<<Set("dN", DefaultName)>>)
    BY <2>1, OneWritable
  <2>3. \/ Handler("name", "network", <<>>)
        \/ Handler("name", "network", <<Set("dN", DefaultName)>>)
    BY <1>2 DEF setDeviceNameEEPROM
  <2> QED BY <2>2, <2>3, NothingWritable, HandlerPreserves
<1>3. CASE initNetworkConnection
  BY <1>3, NothingWritable, ForgetWritable, HandlerPreserves DEF initNetworkConnection
<1>4. CASE Write
  BY <1>4, WritePreserves
<1>5. ASSUME NEW s \in Value, NEW p \in Value, evtApConnect(s, p)
      PROVE  Inv'
  BY <1>5, NetworkWritable, HandlerPreserves DEF evtApConnect, MainLoop
<1>6. CASE evtApDisconnect
  <2>1. Clear("network") \in Writes /\ Clear("network").op = "clear"
    BY DEF Clear, Writes, Flag
  <2> QED BY <1>6, <2>1, OneWritable, HandlerPreserves DEF evtApDisconnect, MainLoop
<1>7. ASSUME NEW v \in Value, changeDeviceName(v) \/ StoreState(v)
      PROVE  Inv'
  <2>1. \A k \in {"dN", "dS"} : Set(k, v) \in Writes /\ Set(k, v).op = "set"
    BY DEF Set, Writes, Key
  <2>2. Writable(<<Set("dN", v)>>) /\ Writable(<<Set("dS", v)>>)
    BY <2>1, OneWritable
  <2> QED BY <1>7, <2>2, HandlerPreserves DEF changeDeviceName, StoreState, MainLoop
<1>8. ASSUME NEW v \in Value, storeDeviceId(v)
      PROVE  Inv'
  BY <1>8, DeviceIdWritable, HandlerPreserves DEF storeDeviceId, MainLoop
<1>9. ASSUME NEW c \in [MotorKeys -> Value], handleConfigUpdateJson(c)
      PROVE  Inv'
  BY <1>9, MotorWritable, HandlerPreserves DEF handleConfigUpdateJson, MainLoop
<1>10. CASE PowerLoss
  BY <1>10, RestartPreserves DEF PowerLoss
<1>11. CASE commitWrites \/ UNCHANGED vars
  <2>1. /\ pc' = pc /\ eeprom' = eeprom /\ flags' = flags /\ gCfg' = gCfg /\ todo' = todo
        /\ refused' = refused /\ torn' = torn
    BY <1>11 DEF commitWrites, vars, memory, history
  <2>2. Pending' /\ SameKeys' /\ Promised' /\ Forgotten'
    BY <2>1 DEF Inv, Pending, SameKeys, Promised, Forgotten, Kept
  <2>3. Honest'
    BY <2>1 DEF Inv, Honest, Kept, ForgettingNetwork
  <2> QED BY <2>1, <2>2, <2>3 DEF Inv
<1> QED BY <1>1, <1>2, <1>3, <1>4, <1>5, <1>6, <1>7, <1>8, <1>9, <1>10, <1>11 DEF Next

LEMMA InitEstablishes == Init => Inv
BY DEF Init, Inv, Pending, SameKeys, Promised, Forgotten, Honest

LEMMA InvIsHonest == StoreAssumption /\ Inv => FlagsHonest
<1> SUFFICES ASSUME Inv PROVE FlagsHonest
  OBVIOUS
<1>1. \A f \in flags : \A k \in KeysOf(f) :
        Kept(k) \/ (f = "network" /\ (ForgettingNetwork \/ torn))
  BY DEF Inv, Honest
<1>2. "motor" \in flags => MotorKeys \subseteq DOMAIN eeprom \cup refused
  BY <1>1 DEF KeysOf, Kept
<1>3. "deviceId" \in flags => "dId" \in DOMAIN eeprom \cup refused
  BY <1>1 DEF KeysOf, Kept
<1>4. "network" \in flags =>
        NetworkKeys \subseteq DOMAIN eeprom \cup refused \/ ForgettingNetwork \/ torn
  BY <1>1 DEF KeysOf, Kept
<1> QED BY <1>2, <1>3, <1>4 DEF FlagsHonest

(* A presence byte of bootConfiguration.ino never promises keys that are not in the
   EEPROM, wherever power goes: between the writes of a handler, and between the erasing
   and the writing of the sector, which leaves no byte set.  The exceptions are keys there
   was no room for and a network that was being forgotten. *)
THEOREM FlagsAreHonest == Spec => []FlagsHonest
<1>1. StoreAssumption
  BY StoreAssumption
<1>2. Inv /\ [Next]_vars => Inv'
  BY <1>1, StepPreserves
<1>3. Inv => FlagsHonest
  BY <1>1, InvIsHonest
<1> QED BY InitEstablishes, <1>2, <1>3, PTL DEF Spec

-----------------------------------------------------------------------------

(* Memory and what is in the EEPROM, or about to be written there. *)
Mirrored ==
  pc # "off" =>
    /\ DOMAIN gCfg = DOMAIN eeprom
    /\ \A k \in DOMAIN gCfg : Reloaded[gCfg[k]] = gCfg[k] => Reloaded[eeprom[k]] = gCfg[k]

(* Everything setConfig and delConfig do to memory they do to the EEPROM as well. *)
LEMMA SavedDurable ==
  ASSUME NEW c, Saved(c)
  PROVE  Mirrored'
BY DEF Saved, Mirrored

LEMMA RestartDurable ==
  ASSUME Restart
  PROVE  Mirrored'
BY DEF Restart, Mirrored

LEMMA StepDurable == Mirrored /\ [Next]_vars => Mirrored'
<1> SUFFICES ASSUME Mirrored, [Next]_vars PROVE Mirrored'
  OBVIOUS
<1>1. ASSUME pc' = pc \/ pc # "off", UNCHANGED <<eeprom, gCfg>>
      PROVE  Mirrored'
  BY <1>1 DEF Mirrored
<1>2. CASE initSetUp
  BY <1>2 DEF initSetUp, Mirrored
<1>3. ASSUME NEW from, NEW to, NEW writes, from # "off", Handler(from, to, writes)
      PROVE  Mirrored'
  BY <1>1, <1>3 DEF Handler, memory
<1>4. ASSUME NEW k, NEW v, setConfig(k, v)
      PROVE  Mirrored'
  BY <1>1, <1>4, SavedDurable
     DEF setConfig, addConfig, RefuseNew, updateConfig, RefuseLonger, Stored, memory
<1>5. ASSUME NEW k, delConfig(k)
      PROVE  Mirrored'
  BY <1>1, <1>5, SavedDurable, RestartDurable DEF delConfig, memory
<1>6. ASSUME NEW f, SetPresence(f) \/ ClearPresence(f)
      PROVE  Mirrored'
  BY <1>1, <1>6 DEF SetPresence, ClearPresence, memory
<1>7. CASE Write
  BY <1>4, <1>5, <1>6, <1>7 DEF Write
<1>8. CASE \/ setDeviceNameEEPROM \/ initNetworkConnection \/ evtApDisconnect
           \/ \E s, p \in Value : evtApConnect(s, p)
           \/ \E v \in Value : changeDeviceName(v) \/ StoreState(v) \/ storeDeviceId(v)
           \/ \E c \in [MotorKeys -> Value] : handleConfigUpdateJson(c)
  BY <1>3, <1>8 DEF setDeviceNameEEPROM, initNetworkConnection, evtApDisconnect, evtApConnect,
       changeDeviceName, StoreState, storeDeviceId, handleConfigUpdateJson, MainLoop
<1>9. CASE PowerLoss
  BY <1>9, RestartDurable DEF PowerLoss
<1>10. CASE commitWrites \/ UNCHANGED vars
  BY <1>1, <1>10 DEF commitWrites, vars, memory
<1> QED BY <1>2, <1>7, <1>8, <1>9, <1>10 DEF Next

(* What getConfiguration answers outside a commit it answers again after a restart, for
   every value that strtok in loadCfg leaves alone, and whatever other values the area
   holds.  Inside a commit everything may be lost: the run ConfigStoreErased. *)
THEOREM PlainValuesSurvive == Spec => []PlainDurable
<1>1. Init => Mirrored
  BY DEF Init, Mirrored
<1>2. Mirrored => PlainDurable
  BY DEF Mirrored, PlainDurable
<1> QED BY <1>1, <1>2, StepDurable, PTL DEF Spec

-----------------------------------------------------------------------------
(* The bytes of the area. *)

(* Of the subsets of a finite set a smallest one can be chosen: with it a statement about
   all of them is proved by looking at the smallest that it fails for. *)
LEMMA SmallestSet ==
  ASSUME NEW S, IsFiniteSet(S), NEW T, T \subseteq SUBSET S, T # {}
  PROVE  \E x \in T : \A y \in T : y \subseteq x => y = x
<1>1. IsWellFoundedOn(StrictSubsetOrdering(S), SUBSET S)
  BY FS_StrictSubsetOrderingWellFounded, FS_FiniteSubsetsOfFinite
<1>2. PICK x \in T : \A y \in T : <<y, x>> \notin StrictSubsetOrdering(S)
  BY <1>1, WFMin
<1> QED BY <1>2 DEF StrictSubsetOrdering

(* The bytes of the pairs of c with a key in S, one by one. *)
Cells(c, S) == {p \in S \X Nat : p[2] < keyValuePairEpConfigBytes(p[1], c[p[1]])}

(* One more pair, as many more cells as it takes bytes. *)
LEMMA OneMorePair ==
  ASSUME NEW c, NEW S, NEW x, x \notin S, IsFiniteSet(Cells(c, S)),
         keyValuePairEpConfigBytes(x, c[x]) \in Nat
  PROVE  /\ IsFiniteSet(Cells(c, S \cup {x}))
         /\ Cardinality(Cells(c, S \cup {x}))
              = Cardinality(Cells(c, S)) + keyValuePairEpConfigBytes(x, c[x])
<1>0. PICK n \in Nat : keyValuePairEpConfigBytes(x, c[x]) = n
  OBVIOUS
<1> DEFINE own == {x} \X (0 .. n - 1)
<1>1. IsFiniteSet(0 .. n - 1) /\ Cardinality(0 .. n - 1) = n
  <2>1. PICK m \in Int : m = n - 1
    OBVIOUS
  <2>2. IsFiniteSet(0 .. m) /\ Cardinality(0 .. m) = IF 0 > m THEN 0 ELSE m - 0 + 1
    BY FS_Interval
  <2>3. Cardinality(0 .. m) = n
    BY <2>1, <2>2
  <2> QED BY <2>1, <2>2, <2>3, Zenon
<1>2. IsFiniteSet({x}) /\ Cardinality({x}) = 1
  BY FS_Singleton
<1>3. IsFiniteSet(own) /\ Cardinality(own) = n
  BY <1>1, <1>2, FS_Product
<1>4. Cells(c, S \cup {x}) = Cells(c, S) \cup own
  BY <1>0 DEF Cells
<1>5. Cells(c, S) \cap own = {}
  BY DEF Cells
<1> HIDE DEF own
<1>6. Cardinality({}) = 0 /\ Cardinality(Cells(c, S)) \in Nat
  BY FS_EmptySet, FS_CardinalityType
<1>7. /\ IsFiniteSet(Cells(c, S) \cup own)
      /\ Cardinality(Cells(c, S) \cup own)
           = Cardinality(Cells(c, S)) + Cardinality(own) - Cardinality(Cells(c, S) \cap own)
  BY <1>3, FS_Union
<1>8. /\ Cardinality(Cells(c, S \cup {x})) = Cardinality(Cells(c, S) \cup own)
      /\ Cardinality(Cells(c, S) \cap own) = 0
      /\ IsFiniteSet(Cells(c, S \cup {x}))
  BY <1>4, <1>5, <1>6, <1>7, Zenon
<1> QED BY <1>0, <1>3, <1>6, <1>7, <1>8

(* A pair takes at least its two separators. *)
LEMMA PairBytes ==
  ASSUME StoreAssumption, NEW c \in Configurations, NEW k \in DOMAIN c
  PROVE  /\ keyValuePairEpConfigBytes(k, c[k]) \in Nat
         /\ keyValuePairEpConfigBytes(k, c[k]) >= 2
         /\ k \in Key /\ c[k] \in Value
<1>1. k \in Key /\ c[k] \in Value
  BY DEF Configurations
<1>2. KeyLen[k] \in Nat /\ ValueLen[c[k]] \in Nat
  BY <1>1 DEF StoreAssumption
<1> QED BY <1>1, <1>2 DEF keyValuePairEpConfigBytes

(* There are finitely many keys. *)
LEMMA KeysFinite ==
  ASSUME StoreAssumption
  PROVE  IsFiniteSet(Key)
<1>1. IsFiniteSet(1 .. Len(MotorOrder))
  BY FS_Interval, Len(MotorOrder) \in Int, 1 \in Int DEF StoreAssumption
<1>2. MotorOrder \in Surjection(1 .. Len(MotorOrder), MotorKeys)
  <2>1. DOMAIN MotorOrder = 1 .. Len(MotorOrder)
    BY DEF StoreAssumption
  <2>2. MotorOrder \in [1 .. Len(MotorOrder) -> MotorKeys]
    BY <2>1 DEF MotorKeys, StoreAssumption
  <2>3. \A k \in MotorKeys : \E i \in 1 .. Len(MotorOrder) : MotorOrder[i] = k
    BY <2>1 DEF MotorKeys
  <2> QED BY <2>2, <2>3 DEF Surjection
<1>3. IsFiniteSet(MotorKeys)
  BY <1>1, <1>2, FS_Surjection
<1>4. IsFiniteSet({"dN", "dS", "dId"} \cup NetworkKeys)
  <2>1. IsFiniteSet({"ssid"} \cup {"password"})
    BY FS_Singleton, FS_Union
  <2>2. IsFiniteSet({"dN"} \cup {"dS"})
    BY FS_Singleton, FS_Union
  <2>3. IsFiniteSet(({"dN"} \cup {"dS"}) \cup {"dId"})
    BY <2>2, FS_Singleton, FS_Union
  <2>4. IsFiniteSet((({"dN"} \cup {"dS"}) \cup {"dId"}) \cup ({"ssid"} \cup {"password"}))
    BY <2>1, <2>3, FS_Union
  <2>5. {"dN", "dS", "dId"} \cup NetworkKeys
          = (({"dN"} \cup {"dS"}) \cup {"dId"}) \cup ({"ssid"} \cup {"password"})
    BY DEF NetworkKeys
  <2> QED BY <2>4, <2>5
<1> QED BY <1>3, <1>4, FS_Union DEF Key

(* So every area has finitely many cells. *)
LEMMA CellsFinite ==
  ASSUME StoreAssumption, NEW c \in Configurations, NEW S \in SUBSET DOMAIN c
  PROVE  IsFiniteSet(Cells(c, S)) /\ Cardinality(Cells(c, S)) \in Nat
<1> SUFFICES IsFiniteSet(Cells(c, S))
  BY FS_CardinalityType
<1> DEFINE wrong == {s \in SUBSET DOMAIN c : ~IsFiniteSet(Cells(c, s))}
<1> SUFFICES ASSUME wrong # {} PROVE FALSE
  OBVIOUS
<1>1. IsFiniteSet(DOMAIN c)
  <2>1. DOMAIN c \in SUBSET Key
    BY DEF Configurations
  <2> QED BY <2>1, KeysFinite, FS_Subset
<1>2. PICK s \in wrong : \A t \in wrong : t \subseteq s => t = s
  <2>1. wrong \subseteq SUBSET DOMAIN c
    OBVIOUS
  <2> HIDE DEF wrong
  <2> QED BY <1>1, <2>1, SmallestSet
<1>3. s # {}
  <2>1. Cells(c, {}) = {}
    BY DEF Cells
  <2> QED BY <2>1, FS_EmptySet
<1>4. PICK x \in s : TRUE
  BY <1>3
<1>5. IsFiniteSet(Cells(c, s \ {x}))
  BY <1>2
<1>6. IsFiniteSet(Cells(c, (s \ {x}) \cup {x}))
  BY <1>5, OneMorePair, PairBytes
<1>7. (s \ {x}) \cup {x} = s
  OBVIOUS
<1> QED BY <1>6, <1>7

(* The sum of writeEpCfg, which is defined by recursion over the pairs, is the number of cells: the
   number satisfies the same equation, and two functions that do cannot differ on a smallest set. *)
LEMMA BytesCounted ==
  ASSUME StoreAssumption, NEW c \in Configurations
  PROVE  Bytes(c) = 1 + Cardinality(Cells(c, DOMAIN c))
<1> DEFINE pick(s) == CHOOSE x \in s : TRUE
           Eq(h) == h = [s \in SUBSET DOMAIN c |->
                           IF s = {} THEN 0
                           ELSE keyValuePairEpConfigBytes(pick(s), c[pick(s)]) + h[s \ {pick(s)}]]
           iter == CHOOSE h : Eq(h)
           count == [s \in SUBSET DOMAIN c |-> Cardinality(Cells(c, s))]
<1>1. Bytes(c) = 1 + iter[DOMAIN c]
  BY Zenon DEF Bytes, MapThenSumSet, MapThenFoldSet
<1>2. ASSUME NEW s \in SUBSET DOMAIN c
      PROVE  count[s] = IF s = {} THEN 0
                        ELSE keyValuePairEpConfigBytes(pick(s), c[pick(s)]) + count[s \ {pick(s)}]
  <2>1. CASE s = {}
    <3>1. Cells(c, {}) = {}
      BY DEF Cells
    <3> QED BY <2>1, <3>1, FS_EmptySet
  <2>2. CASE s # {}
    <3>1. PICK x : x = pick(s) /\ x \in s
      BY <2>2
    <3>2. PICK n \in Nat : n = keyValuePairEpConfigBytes(x, c[x])
      BY <3>1, PairBytes
    <3>3. s \ {x} \in SUBSET DOMAIN c /\ (s \ {x}) \cup {x} = s
      BY <3>1
    <3>4. Cardinality(Cells(c, s)) = Cardinality(Cells(c, s \ {x})) + n
      <4>1. PICK r : r = s \ {x}
        OBVIOUS
      <4>2. x \notin r /\ IsFiniteSet(Cells(c, r))
        BY <3>3, <4>1, CellsFinite
      <4>3. Cardinality(Cells(c, r \cup {x})) = Cardinality(Cells(c, r)) + n
        BY <3>2, <4>2, OneMorePair
      <4>4. Cells(c, r \cup {x}) = Cells(c, s)
        BY <3>1, <4>1 DEF Cells
      <4> QED BY <4>1, <4>3, <4>4, Zenon
    <3>5. Cardinality(Cells(c, s \ {x})) \in Nat
      BY <3>3, CellsFinite
    <3>6. count[s] = n + count[s \ {x}]
      BY <3>3, <3>4, <3>5
    <3> HIDE DEF pick, count
    <3> QED BY <2>2, <3>1, <3>2, <3>6
  <2> QED BY <2>1, <2>2
<1>3. Eq(count)
  BY <1>2
<1>4. Eq(iter)
  <2> HIDE DEF Eq
  <2> QED BY <1>3
<1>5. IsFiniteSet(DOMAIN c)
  <2>1. DOMAIN c \in SUBSET Key
    BY DEF Configurations
  <2> QED BY <2>1, KeysFinite, FS_Subset
<1>6. \A s \in SUBSET DOMAIN c : iter[s] = count[s]
  <2> DEFINE wrong == {s \in SUBSET DOMAIN c : iter[s] # count[s]}
  <2> SUFFICES ASSUME wrong # {} PROVE FALSE
    OBVIOUS
  <2> HIDE DEF iter, count
  <2>1. PICK s \in wrong : \A t \in wrong : t \subseteq s => t = s
    <3>1. wrong \subseteq SUBSET DOMAIN c
      OBVIOUS
    <3> HIDE DEF wrong
    <3> QED BY <1>5, <3>1, SmallestSet
  <2>2. CASE s = {}
    BY <2>1, <2>2, <1>3, <1>4
  <2>3. CASE s # {}
    <3>1. pick(s) \in s
      BY <2>3
    <3>2. s \ {pick(s)} \in SUBSET DOMAIN c /\ s \ {pick(s)} # s /\ s \ {pick(s)} \subseteq s
      BY <3>1
    <3>3. iter[s \ {pick(s)}] = count[s \ {pick(s)}]
      <4> HIDE DEF pick
      <4> QED BY <2>1, <3>2
    <3>4. /\ iter[s] = keyValuePairEpConfigBytes(pick(s), c[pick(s)]) + iter[s \ {pick(s)}]
          /\ count[s] = keyValuePairEpConfigBytes(pick(s), c[pick(s)]) + count[s \ {pick(s)}]
      BY <2>3, <1>3, <1>4
    <3> QED BY <2>1, <3>3, <3>4
  <2> QED BY <2>2, <2>3
<1> QED BY <1>1, <1>6

(* addConfig. *)
LEMMA NewPairBytes ==
  ASSUME StoreAssumption, NEW c \in Configurations, NEW k \in Key \ DOMAIN c, NEW v \in Value
  PROVE  /\ With(c, k, v) \in Configurations
         /\ Bytes(With(c, k, v)) = Bytes(c) + keyValuePairEpConfigBytes(k, v)
         /\ keyValuePairEpConfigBytes(k, v) \in Nat
         /\ Bytes(c) \in Nat
<1>1. PICK d \in Configurations : d = With(c, k, v)
  <2>1. PICK S \in SUBSET Key : c \in [S -> Value]
    BY DEF Configurations
  <2>2. S \cup {k} \in SUBSET Key /\ With(c, k, v) \in [S \cup {k} -> Value]
    BY <2>1 DEF With
  <2> QED BY <2>2 DEF Configurations
<1>2. PICK n \in Nat : n = keyValuePairEpConfigBytes(k, v)
  BY DEF keyValuePairEpConfigBytes, StoreAssumption
<1>3. DOMAIN d = DOMAIN c \cup {k} /\ d[k] = v /\ \A x \in DOMAIN c : d[x] = c[x]
  BY <1>1 DEF With
<1>4. Cells(d, DOMAIN c) = Cells(c, DOMAIN c)
  BY <1>3 DEF Cells
<1>5. IsFiniteSet(Cells(c, DOMAIN c)) /\ Cardinality(Cells(c, DOMAIN c)) \in Nat
  BY CellsFinite
<1>6. Cardinality(Cells(d, DOMAIN c \cup {k})) = Cardinality(Cells(c, DOMAIN c)) + n
  <2>1. PICK S : S = DOMAIN c
    OBVIOUS
  <2>2. IsFiniteSet(Cells(d, S))
    BY <1>4, <1>5, <2>1, Zenon
  <2>3. k \notin S /\ keyValuePairEpConfigBytes(k, d[k]) = n
    BY <1>2, <1>3, <2>1
  <2>4. Cardinality(Cells(d, S \cup {k})) = Cardinality(Cells(d, S)) + n
    BY <1>2, <2>2, <2>3, OneMorePair
  <2> QED BY <1>4, <2>1, <2>4, Zenon
<1>7. Bytes(d) = 1 + Cardinality(Cells(d, DOMAIN d)) /\ Bytes(c) = 1 + Cardinality(Cells(c, DOMAIN c))
  BY BytesCounted
<1>8. Cardinality(Cells(d, DOMAIN d)) = Cardinality(Cells(d, DOMAIN c \cup {k}))
  BY <1>3, Zenon
<1>9. Bytes(d) = Bytes(c) + n
  BY <1>5, <1>6, <1>7, <1>8
<1>10. Bytes(c) \in Nat
  BY <1>5, <1>7
<1> QED BY <1>1, <1>2, <1>9, <1>10, Zenon

(* A pair that is taken out and put back. *)
LEMMA WithoutPair ==
  ASSUME NEW c \in Configurations, NEW k \in DOMAIN c
  PROVE  /\ Without(c, k) \in Configurations
         /\ k \in Key \ DOMAIN Without(c, k)
         /\ With(Without(c, k), k, c[k]) = c
         /\ \A v : With(Without(c, k), k, v) = With(c, k, v)
<1>1. PICK S \in SUBSET Key : c \in [S -> Value]
  BY DEF Configurations
<1>2. S \ {k} \in SUBSET Key /\ Without(c, k) \in [S \ {k} -> Value]
  BY <1>1 DEF Without
<1>3. Without(c, k) \in Configurations
  BY <1>2 DEF Configurations
<1>4. With(Without(c, k), k, c[k]) = c
  BY <1>1 DEF With, Without
<1>5. \A v : With(Without(c, k), k, v) = With(c, k, v)
  BY DEF With, Without
<1> QED BY <1>1, <1>2, <1>3, <1>4, <1>5

(* updateConfig and delConfig. *)
LEMMA ChangedBytes ==
  ASSUME StoreAssumption, NEW c \in Configurations, NEW k \in DOMAIN c, NEW v \in Value
  PROVE  /\ With(c, k, v) \in Configurations
         /\ Bytes(With(c, k, v)) = Bytes(c) + ValueLen[v] - ValueLen[c[k]]
         /\ Bytes(Without(c, k)) <= Bytes(c)
         /\ Bytes(c) \in Nat /\ Bytes(Without(c, k)) \in Nat
<1>1. PICK d \in Configurations : d = Without(c, k)
  BY WithoutPair
<1>2. k \in Key \ DOMAIN d /\ With(d, k, c[k]) = c /\ With(d, k, v) = With(c, k, v) /\ c[k] \in Value
  BY <1>1, WithoutPair, PairBytes
<1>3. \A u \in Value :
        /\ With(d, k, u) \in Configurations
        /\ Bytes(With(d, k, u)) = Bytes(d) + keyValuePairEpConfigBytes(k, u)
        /\ keyValuePairEpConfigBytes(k, u) \in Nat
        /\ Bytes(d) \in Nat
  BY <1>2, NewPairBytes
<1>4. /\ Bytes(c) = Bytes(d) + keyValuePairEpConfigBytes(k, c[k])
      /\ Bytes(With(c, k, v)) = Bytes(d) + keyValuePairEpConfigBytes(k, v)
      /\ With(c, k, v) \in Configurations
  BY <1>2, <1>3, Zenon
<1>5. KeyLen[k] \in Nat /\ ValueLen[v] \in Nat /\ ValueLen[c[k]] \in Nat
  BY <1>2 DEF StoreAssumption
<1>6. Bytes(d) \in Nat
  BY <1>2, <1>3
<1>7. PICK b \in Nat, m \in Nat, p \in Nat, q \in Nat :
        /\ b = Bytes(d) /\ m = KeyLen[k] /\ p = ValueLen[c[k]] /\ q = ValueLen[v]
  BY <1>5, <1>6
<1>8. Bytes(c) = b + (m + p + 2) /\ Bytes(With(c, k, v)) = b + (m + q + 2)
  BY <1>4, <1>7, Zenon DEF keyValuePairEpConfigBytes
<1>9. /\ b + (m + q + 2) = b + (m + p + 2) + q - p
      /\ b <= b + (m + p + 2) /\ b + (m + p + 2) \in Nat
  OBVIOUS
<1>10. /\ Bytes(With(c, k, v)) = Bytes(c) + ValueLen[v] - ValueLen[c[k]]
       /\ Bytes(d) <= Bytes(c) /\ Bytes(c) \in Nat
  BY <1>7, <1>8, <1>9, Zenon
<1> QED BY <1>1, <1>4, <1>6, <1>10, Zenon

(* initSetUp: strtok makes no value longer. *)
LEMMA ReloadedBytes ==
  ASSUME StoreAssumption, NEW c \in Configurations, \A k \in DOMAIN c : Reloaded[c[k]] # NULL
  PROVE  /\ [k \in DOMAIN c |-> Reloaded[c[k]]] \in Configurations
         /\ Bytes([k \in DOMAIN c |-> Reloaded[c[k]]]) <= Bytes(c)
         /\ Bytes([k \in DOMAIN c |-> Reloaded[c[k]]]) \in Nat
         /\ Bytes(c) \in Nat
<1>1. \A k \in DOMAIN c : /\ k \in Key /\ c[k] \in Value /\ Reloaded[c[k]] \in Value
                          /\ ValueLen[Reloaded[c[k]]] <= ValueLen[c[k]]
  BY PairBytes DEF StoreAssumption
<1>2. PICK d : d = [k \in DOMAIN c |-> Reloaded[c[k]]]
  OBVIOUS
<1>3. d \in Configurations
  <2>1. DOMAIN c \in SUBSET Key /\ d \in [DOMAIN c -> Value]
    BY <1>1, <1>2
  <2> QED BY <2>1 DEF Configurations
<1>4. Cells(d, DOMAIN d) \subseteq Cells(c, DOMAIN c)
  <2>1. \A k \in DOMAIN c : KeyLen[k] \in Nat /\ ValueLen[c[k]] \in Nat /\ ValueLen[d[k]] \in Nat
    BY <1>1, <1>2 DEF StoreAssumption
  <2>2. \A k \in DOMAIN c : keyValuePairEpConfigBytes(k, d[k]) <= keyValuePairEpConfigBytes(k, c[k])
    BY <1>1, <1>2, <2>1 DEF keyValuePairEpConfigBytes
  <2>3. \A k \in DOMAIN c : /\ keyValuePairEpConfigBytes(k, d[k]) \in Nat
                            /\ keyValuePairEpConfigBytes(k, c[k]) \in Nat
    BY <2>1 DEF keyValuePairEpConfigBytes
  <2> QED BY <1>2, <2>2, <2>3 DEF Cells
<1>5. Cardinality(Cells(d, DOMAIN d)) <= Cardinality(Cells(c, DOMAIN c))
  BY <1>4, CellsFinite, FS_Subset
<1>6. Cardinality(Cells(d, DOMAIN d)) \in Nat /\ Cardinality(Cells(c, DOMAIN c)) \in Nat
  BY <1>3, CellsFinite
<1>7. Bytes(d) = 1 + Cardinality(Cells(d, DOMAIN d)) /\ Bytes(c) = 1 + Cardinality(Cells(c, DOMAIN c))
  BY <1>3, BytesCounted
<1>8. Bytes(d) <= Bytes(c) /\ Bytes(d) \in Nat /\ Bytes(c) \in Nat
  BY <1>5, <1>6, <1>7
<1> QED BY <1>2, <1>3, <1>8, Zenon

(* An empty area holds its final byte. *)
LEMMA EmptyBytes ==
  ASSUME StoreAssumption, NEW c \in Configurations, DOMAIN c = {}
  PROVE  Bytes(c) = 1
<1>1. Cells(c, DOMAIN c) = {}
  BY DEF Cells
<1>2. Cardinality(Cells(c, DOMAIN c)) = 0
  BY <1>1, FS_EmptySet, Zenon
<1> QED BY <1>2, BytesCounted

-----------------------------------------------------------------------------
(* Types, and what the area holds. *)
Fits ==
  /\ pc \in {"off", "name", "network", "loop"}
  /\ eeprom \in Configurations /\ gCfg \in Configurations
  /\ gConfigBytes \in Nat
  /\ refused \subseteq Key
  /\ torn \in BOOLEAN
  /\ AreaNotOverrun

(* Nothing is stored before the name: until it is, the area is empty and the name is the
   only write to come.  It is never deleted. *)
NameFirst ==
  /\ DOMAIN eeprom = {} \/ "dN" \in DOMAIN eeprom
  /\ pc = "name" => todo = <<>> /\ gConfigBytes = Bytes(eeprom)
  /\ pc \in {"network", "loop"} /\ "dN" \notin DOMAIN gCfg =>
       todo = <<Set("dN", DefaultName)>> /\ gConfigBytes = 1

(* What is saved within the bounds stays within them. *)
LEMMA SavedFits ==
  ASSUME StoreAssumption, Fits, NEW c \in Configurations, Saved(c),
         pc' = pc, torn' = torn, refused' \subseteq Key,
         Bytes(c) \in Nat, Bytes(c) <= gEpCfgLength
  PROVE  Fits'
<1>1. eeprom' = c /\ gCfg' = c /\ gConfigBytes' = Bytes(c)
  BY DEF Saved
<1>2. PICK n \in Nat : n = Bytes(c) /\ n <= gEpCfgLength
  OBVIOUS
<1>3. Bytes(eeprom') = n /\ Bytes(gCfg') = n /\ gConfigBytes' = n
  BY <1>1, <1>2, Zenon
<1>4. AreaNotOverrun'
  BY <1>2, <1>3 DEF AreaNotOverrun
<1> QED BY <1>1, <1>4 DEF Fits

(* The two space tests of setConfig suffice, since the count they use is not too small. *)
LEMMA SetFits ==
  ASSUME StoreAssumption, Fits, pc # "off", NEW k \in Key, NEW v \in Value, setConfig(k, v)
  PROVE  Fits'
<1>0. pc' = pc /\ torn' = torn /\ gEpCfgLength \in Nat /\ gCfg \in Configurations
  BY DEF setConfig, Fits, StoreAssumption
<1>1. PICK g \in Nat : g = gConfigBytes /\ Bytes(gCfg) <= g /\ g <= gEpCfgLength
  BY DEF Fits, AreaNotOverrun
<1>2. CASE addConfig(k, v)
  <2>1. /\ k \notin DOMAIN gCfg /\ Saved(With(gCfg, k, v)) /\ refused' = refused \ {k}
        /\ g + keyValuePairEpConfigBytes(k, v) <= gEpCfgLength
    BY <1>1, <1>2 DEF addConfig, Stored, checkBytesLimitIfKeyNotFound
  <2>2. /\ With(gCfg, k, v) \in Configurations
        /\ Bytes(With(gCfg, k, v)) = Bytes(gCfg) + keyValuePairEpConfigBytes(k, v)
        /\ keyValuePairEpConfigBytes(k, v) \in Nat /\ Bytes(gCfg) \in Nat
    BY <1>0, <2>1, NewPairBytes
  <2>3. PICK b \in Nat, n \in Nat : b = Bytes(gCfg) /\ n = keyValuePairEpConfigBytes(k, v)
    BY <2>2
  <2>4. b + n \in Nat /\ b + n <= gEpCfgLength
    BY <1>0, <1>1, <2>1, <2>3
  <2>5. Bytes(With(gCfg, k, v)) \in Nat /\ Bytes(With(gCfg, k, v)) <= gEpCfgLength
    BY <2>2, <2>3, <2>4, Zenon
  <2>6. refused' \subseteq Key
    BY <2>1 DEF Fits
  <2> QED BY <1>0, <2>1, <2>2, <2>5, <2>6, SavedFits
<1>3. CASE RefuseNew(k, v)
  BY <1>0, <1>3 DEF RefuseNew, memory, Fits, AreaNotOverrun
<1>4. CASE updateConfig(k, v)
  <2>1. /\ k \in DOMAIN gCfg /\ Saved(With(gCfg, k, v)) /\ refused' = refused \ {k}
        /\ \/ ValueLen[v] <= ValueLen[gCfg[k]]
           \/ g + ValueLen[v] - ValueLen[gCfg[k]] <= gEpCfgLength
    BY <1>1, <1>4 DEF updateConfig, Stored, checkBytesLimitIfKeyFound
  <2>2. /\ With(gCfg, k, v) \in Configurations
        /\ Bytes(With(gCfg, k, v)) = Bytes(gCfg) + ValueLen[v] - ValueLen[gCfg[k]]
        /\ Bytes(gCfg) \in Nat
    BY <1>0, <2>1, ChangedBytes
  <2>3. ValueLen[v] \in Nat /\ ValueLen[gCfg[k]] \in Nat
    BY <1>0, <2>1, PairBytes DEF StoreAssumption
  <2>4. PICK d \in Configurations : d = With(gCfg, k, v)
    BY <2>2
  <2>5. PICK b \in Nat, p \in Nat, q \in Nat :
          b = Bytes(gCfg) /\ p = ValueLen[gCfg[k]] /\ q = ValueLen[v]
    BY <2>2, <2>3
  <2>6. b + q - p <= gEpCfgLength
    BY <1>0, <1>1, <2>1, <2>5
  <2>7. Bytes(d) = b + q - p
    BY <2>2, <2>4, <2>5, Zenon
  <2>8. Bytes(d) \in Nat
    BY CellsFinite, BytesCounted
  <2>9. Bytes(d) <= gEpCfgLength
    BY <2>6, <2>7
  <2>10. refused' \subseteq Key /\ Saved(d)
    BY <2>1, <2>4 DEF Fits
  <2> QED BY <1>0, <2>8, <2>9, <2>10, SavedFits
<1>5. CASE RefuseLonger(k, v)
  <2>1. Saved(gCfg) /\ refused' \subseteq Key
    BY <1>5 DEF RefuseLonger, Fits
  <2>2. Bytes(gCfg) \in Nat
    BY <1>0, CellsFinite, BytesCounted
  <2> QED BY <1>0, <1>1, <2>1, <2>2, SavedFits
<1> QED BY <1>2, <1>3, <1>4, <1>5 DEF setConfig

(* The first pair of an empty store is the name, and it fits. *)
LEMMA SetNames ==
  ASSUME StoreAssumption, Inv, Fits, NameFirst, todo # <<>>, NEW k, NEW v,
         NEW w, Head(todo) = w, w = Set(k, v), setConfig(k, v)
  PROVE  NameFirst'
<1>1. pc \in {"network", "loop"} /\ pc' = pc /\ DOMAIN gCfg = DOMAIN eeprom
  BY DEF Inv, Pending, Fits, NameFirst, SameKeys, setConfig
<1>2. CASE "dN" \in DOMAIN gCfg
  <2>1. "dN" \in DOMAIN gCfg' /\ "dN" \in DOMAIN eeprom'
    BY <1>1, <1>2 DEF setConfig, addConfig, RefuseNew, updateConfig, RefuseLonger, Stored, Saved,
                      With, memory
  <2> QED BY <1>1, <2>1 DEF NameFirst
<1>3. CASE "dN" \notin DOMAIN gCfg
  <2>1. todo = <<Set("dN", DefaultName)>> /\ gConfigBytes = 1
    BY <1>1, <1>3 DEF NameFirst
  <2>2. k = "dN" /\ v = DefaultName
    BY <2>1 DEF Set
  <2>3. checkBytesLimitIfKeyNotFound(k, v)
    <3>1. "dN" \in Key
      BY DEF Key
    <3>2. KeyLen["dN"] \in Nat /\ ValueLen[DefaultName] \in Nat
      BY <3>1 DEF StoreAssumption
    <3> QED BY <2>1, <2>2, <3>2
            DEF checkBytesLimitIfKeyNotFound, keyValuePairEpConfigBytes, StoreAssumption
  <2>4. addConfig(k, v)
    BY <1>3, <2>2, <2>3 DEF setConfig, RefuseNew, updateConfig, RefuseLonger
  <2>5. "dN" \in DOMAIN gCfg' /\ "dN" \in DOMAIN eeprom'
    BY <2>2, <2>4 DEF addConfig, Stored, Saved, With
  <2> QED BY <1>1, <2>5 DEF NameFirst
<1> QED BY <1>2, <1>3

(* The area is not without a byte. *)
LEMMA RoomForOne ==
  ASSUME StoreAssumption
  PROVE  1 <= gEpCfgLength
<1>1. "dN" \in Key
  BY DEF Key
<1>2. KeyLen["dN"] \in Nat /\ ValueLen[DefaultName] \in Nat
  BY <1>1 DEF StoreAssumption
<1> QED BY <1>2 DEF StoreAssumption

(* Memory is empty afterwards, and the area is as it was or erased. *)
LEMMA RestartFits ==
  ASSUME StoreAssumption, Fits, NameFirst, Restart
  PROVE  Fits' /\ NameFirst'
<1>1. /\ pc' = "off" /\ refused' = refused /\ gConfigBytes' = 0
      /\ gCfg' = NoConfiguration /\ torn' \in BOOLEAN
      /\ eeprom' = eeprom \/ (eeprom' = NoConfiguration /\ flags' = {})
  BY DEF Restart, Fits
<1>2. NoConfiguration \in Configurations
  <2>1. NoConfiguration \in [{} -> Value] /\ {} \in SUBSET Key
    BY DEF NoConfiguration
  <2> QED BY <2>1 DEF Configurations
<1>3. Bytes(eeprom') <= gEpCfgLength
  <2>1. CASE eeprom' = eeprom
    BY <2>1 DEF Fits, AreaNotOverrun
  <2>2. CASE eeprom' = NoConfiguration
    <3>1. Bytes(NoConfiguration) = 1
      BY <1>2, EmptyBytes DEF NoConfiguration
    <3>2. 1 <= gEpCfgLength
      BY RoomForOne
    <3>3. PICK n : n = Bytes(NoConfiguration)
      OBVIOUS
    <3>4. n <= gEpCfgLength
      BY <3>1, <3>2, <3>3
    <3> QED BY <2>2, <3>3, <3>4, Zenon
  <2> QED BY <1>1, <2>1, <2>2
<1>4. AreaNotOverrun'
  BY <1>1, <1>3 DEF AreaNotOverrun
<1>5. DOMAIN NoConfiguration = {}
  BY DEF NoConfiguration
<1> QED BY <1>1, <1>2, <1>4, <1>5 DEF Fits, NameFirst

(* The name is there when the network is forgotten, so that delConfig finds another pair. *)
LEMMA DelFits ==
  ASSUME StoreAssumption, Inv, Fits, NameFirst, todo # <<>>, Head(todo).op = "del",
         NEW k, Head(todo).key = k, delConfig(k)
  PROVE  Fits' /\ NameFirst'
<1>1. k \in NetworkKeys /\ k # "dN" /\ pc # "off"
  <2>1. k \in NetworkKeys
    BY TailOf DEF Inv, Pending, Writes
  <2>2. pc # "off"
    BY DEF Inv, Pending
  <2> QED BY <2>1, <2>2 DEF NetworkKeys
<1>2. "dN" \in DOMAIN gCfg /\ pc \in {"network", "loop"} /\ DOMAIN gCfg = DOMAIN eeprom
  <2>1. pc \in {"network", "loop"}
    BY <1>1 DEF Fits, NameFirst
  <2>2. Set("dN", DefaultName).op # "del"
    BY DEF Set
  <2> QED BY <1>1, <2>1, <2>2 DEF NameFirst, Inv, SameKeys
<1>3. ~LastPair(k)
  BY <1>1, <1>2 DEF LastPair
<1>4. pc' = pc /\ torn' = torn /\ refused' = refused
  BY <1>3 DEF delConfig, history
<1>5. CASE k \in DOMAIN gCfg
  <2>1. Saved(Without(gCfg, k))
    BY <1>3, <1>5 DEF delConfig
  <2>2. PICK d \in Configurations : d = Without(gCfg, k)
    BY <1>5, WithoutPair DEF Fits
  <2>3. Bytes(d) \in Nat /\ Bytes(gCfg) \in Nat
    BY CellsFinite, BytesCounted DEF Fits
  <2>4. Bytes(d) <= Bytes(gCfg)
    <3>1. gCfg[k] \in Value
      BY <1>5, PairBytes DEF Fits
    <3>2. Bytes(Without(gCfg, k)) <= Bytes(gCfg)
      BY <1>5, <3>1, ChangedBytes DEF Fits
    <3> QED BY <2>2, <3>2, Zenon
  <2>5. Bytes(d) <= gEpCfgLength
    BY <1>1, <2>3, <2>4 DEF Fits, AreaNotOverrun, StoreAssumption
  <2>6. Fits'
    <3>1. refused' \subseteq Key /\ Saved(d)
      BY <1>4, <2>1, <2>2 DEF Fits
    <3> QED BY <1>4, <2>3, <2>5, <3>1, SavedFits
  <2>7. "dN" \in DOMAIN gCfg' /\ "dN" \in DOMAIN eeprom'
    BY <1>1, <1>2, <2>1 DEF Saved, Without
  <2> QED BY <1>2, <1>4, <2>6, <2>7 DEF NameFirst
<1>6. CASE k \notin DOMAIN gCfg
  <2>1. eeprom' = eeprom /\ gCfg' = gCfg /\ gConfigBytes' = gConfigBytes
    BY <1>3, <1>6 DEF delConfig, memory
  <2> QED BY <1>2, <1>4, <2>1 DEF Fits, AreaNotOverrun, NameFirst
<1> QED BY <1>5, <1>6

(* The presence bytes are outside the area. *)
LEMMA PresenceFits ==
  ASSUME Fits, NameFirst, Inv, todo # <<>>, Head(todo).op \in {"mark", "clear"},
         NEW f, SetPresence(f) \/ ClearPresence(f)
  PROVE  Fits' /\ NameFirst'
<1>1. /\ pc' = pc /\ eeprom' = eeprom /\ gCfg' = gCfg /\ gConfigBytes' = gConfigBytes
      /\ refused' = refused /\ torn' \in BOOLEAN
  BY DEF SetPresence, ClearPresence, memory, Fits
<1>2. Set("dN", DefaultName).op = "set" /\ pc # "off"
  BY DEF Set, Inv, Pending
<1>3. todo # <<Set("dN", DefaultName)>>
  BY <1>2
<1> QED BY <1>1, <1>2, <1>3 DEF Fits, AreaNotOverrun, NameFirst

(* The count of initSetUp is taken from the EEPROM. *)
LEMMA BootFits ==
  ASSUME StoreAssumption, Inv, Fits, NameFirst, initSetUp
  PROVE  Fits' /\ NameFirst'
<1>1. /\ pc = "off" /\ todo = <<>> /\ pc' = "name" /\ todo' = todo /\ eeprom' = eeprom
      /\ refused' = refused /\ torn' = torn
      /\ \A k \in DOMAIN eeprom : Reloaded[eeprom[k]] # NULL
      /\ gCfg' = [k \in DOMAIN eeprom |-> Reloaded[eeprom[k]]]
      /\ gConfigBytes' = Bytes(eeprom)
  BY DEF initSetUp, history, Inv, Pending
<1>2. /\ gCfg' \in Configurations /\ Bytes(gCfg') <= Bytes(eeprom)
      /\ Bytes(gCfg') \in Nat /\ Bytes(eeprom) \in Nat
  BY <1>1, ReloadedBytes DEF Fits
<1>3. Bytes(eeprom) <= gEpCfgLength
  BY DEF Fits, AreaNotOverrun
<1>4. AreaNotOverrun'
  BY <1>1, <1>2, <1>3, Zenon DEF AreaNotOverrun
<1>5. Fits'
  BY <1>1, <1>2, <1>4 DEF Fits
<1>6. NameFirst'
  BY <1>1 DEF NameFirst
<1> QED BY <1>5, <1>6

(* setDeviceNameEEPROM leaves the name to be written when it is missing. *)
LEMMA NameFits ==
  ASSUME StoreAssumption, Inv, Fits, NameFirst, setDeviceNameEEPROM
  PROVE  Fits' /\ NameFirst'
<1>1. /\ pc = "name" /\ pc' = "network" /\ eeprom' = eeprom /\ gCfg' = gCfg
      /\ gConfigBytes' = gConfigBytes /\ refused' = refused /\ torn' = torn
      /\ "dN" \notin DOMAIN gCfg => todo' = <<Set("dN", DefaultName)>>
  BY DEF setDeviceNameEEPROM, Handler, memory, history
<1>2. Fits'
  BY <1>1 DEF Fits, AreaNotOverrun
<1>3. ASSUME "dN" \notin DOMAIN gCfg PROVE gConfigBytes = 1
  <2>1. DOMAIN eeprom = {}
    BY <1>1, <1>3 DEF NameFirst, Inv, SameKeys
  <2>2. Bytes(eeprom) = 1
    BY <2>1, EmptyBytes DEF Fits
  <2> QED BY <1>1, <2>2 DEF NameFirst
<1>4. NameFirst'
  BY <1>1, <1>3 DEF NameFirst
<1> QED BY <1>2, <1>4

(* The other handlers start once the name has been written. *)
LEMMA HandlerFits ==
  ASSUME Fits, NameFirst, NEW from \in {"network", "loop"}, NEW writes,
         Handler(from, "loop", writes)
  PROVE  Fits' /\ NameFirst'
<1>1. /\ pc \in {"network", "loop"} /\ pc' = "loop" /\ todo = <<>> /\ eeprom' = eeprom
      /\ gCfg' = gCfg /\ gConfigBytes' = gConfigBytes /\ refused' = refused /\ torn' = torn
  BY DEF Handler, memory, history
<1>2. Fits'
  BY <1>1 DEF Fits, AreaNotOverrun
<1>3. "dN" \in DOMAIN gCfg
  BY <1>1 DEF NameFirst
<1> QED BY <1>1, <1>2, <1>3 DEF NameFirst

(* Every step. *)
LEMMA StepFits == StoreAssumption /\ Inv /\ Fits /\ NameFirst /\ [Next]_vars => Fits' /\ NameFirst'
<1> SUFFICES ASSUME StoreAssumption, Inv, Fits, NameFirst, [Next]_vars PROVE Fits' /\ NameFirst'
  OBVIOUS
<1>1. CASE initSetUp
  BY <1>1, BootFits
<1>2. CASE setDeviceNameEEPROM
  BY <1>2, NameFits
<1>3. CASE initNetworkConnection
  BY <1>3, HandlerFits DEF initNetworkConnection
<1>4. CASE Write
  <2>0. PICK w : w = Head(todo) /\ w \in Writes /\ todo # <<>> /\ pc # "off"
    BY <1>4, TailOf DEF Write, Inv, Pending
  <2>1. CASE w.op = "set" /\ setConfig(w.key, w.value)
    <3>1. w.key \in Key /\ w.value \in Value /\ w = Set(w.key, w.value)
      BY <2>0, <2>1 DEF Writes, Set
    <3>2. Fits'
      BY <2>0, <2>1, <3>1, SetFits
    <3>3. NameFirst'
      BY <2>0, <2>1, <3>1, SetNames
    <3> QED BY <3>2, <3>3
  <2>2. CASE w.op = "del" /\ delConfig(w.key)
    BY <2>0, <2>2, DelFits
  <2>3. CASE w.op = "mark" /\ SetPresence(w.flag)
    BY <2>0, <2>3, PresenceFits
  <2>4. CASE w.op = "clear" /\ ClearPresence(w.flag)
    BY <2>0, <2>4, PresenceFits
  <2> QED BY <1>4, <2>0, <2>1, <2>2, <2>3, <2>4 DEF Write
<1>5. CASE \/ evtApDisconnect
           \/ \E s, p \in Value : evtApConnect(s, p)
           \/ \E v \in Value : changeDeviceName(v) \/ StoreState(v) \/ storeDeviceId(v)
           \/ \E c \in [MotorKeys -> Value] : handleConfigUpdateJson(c)
  <2>1. PICK writes : Handler("loop", "loop", writes)
    BY <1>5 DEF evtApDisconnect, evtApConnect, changeDeviceName, StoreState, storeDeviceId,
                handleConfigUpdateJson, MainLoop
  <2> QED BY <2>1, HandlerFits
<1>6. CASE PowerLoss
  BY <1>6, RestartFits DEF PowerLoss
<1>7. CASE commitWrites \/ UNCHANGED vars
  BY <1>7 DEF commitWrites, vars, memory, history, Fits, AreaNotOverrun, NameFirst
<1> QED BY <1>1, <1>2, <1>3, <1>4, <1>5, <1>6, <1>7 DEF Next

LEMMA InitFits == StoreAssumption /\ Init => Fits /\ NameFirst
<1> SUFFICES ASSUME StoreAssumption, Init PROVE Fits /\ NameFirst
  OBVIOUS
<1>1. NoConfiguration \in Configurations /\ DOMAIN NoConfiguration = {}
  <2>1. NoConfiguration \in [{} -> Value] /\ {} \in SUBSET Key
    BY DEF NoConfiguration
  <2> QED BY <2>1 DEF Configurations, NoConfiguration
<1>2. Bytes(NoConfiguration) = 1
  BY <1>1, EmptyBytes
<1>3. 1 <= gEpCfgLength
  BY RoomForOne
<1> QED BY <1>1, <1>2, <1>3 DEF Init, Fits, NameFirst, AreaNotOverrun

LEMMA AlwaysFits == Spec => [](Inv /\ Fits /\ NameFirst)
<1>1. Init => Inv /\ Fits /\ NameFirst
  BY InitEstablishes, InitFits, StoreAssumption
<1>2. (Inv /\ Fits /\ NameFirst) /\ [Next]_vars => (Inv /\ Fits /\ NameFirst)'
  BY StepPreserves, StepFits, StoreAssumption
<1> QED BY <1>1, <1>2, PTL DEF Spec

(* Types of the store, of its copy in memory and of the pending writes. *)
THEOREM StoreTypes == Spec => []TypeOK
<1> DEFINE FlashTyped == flash \in {"written", "erased"}
<1>1. Init => FlashTyped
  BY DEF Init
<1>2. FlashTyped /\ [Next]_vars => FlashTyped'
  BY DEF Next, initSetUp, setDeviceNameEEPROM, initNetworkConnection, Handler, Write, commitErases,
         commitWrites, evtApConnect, evtApDisconnect, changeDeviceName, StoreState, storeDeviceId,
         handleConfigUpdateJson, MainLoop, PowerLoss, Restart, vars
<1>3. Inv /\ Fits /\ NameFirst /\ FlashTyped => TypeOK
  BY DEF Inv, Pending, Fits, TypeOK
<1> QED BY <1>1, <1>2, <1>3, AlwaysFits, PTL DEF Spec

(* setConfig never writes more than the EEPROM area holds, for every length of the area, and the count its
   space tests rely on is never below what memory would write, although initSetUp takes it from the
   EEPROM before strtok shortens values. *)
THEOREM AreaNeverOverrun == Spec => []AreaNotOverrun
<1>1. Inv /\ Fits /\ NameFirst => AreaNotOverrun
  BY DEF Fits
<1> QED BY <1>1, AlwaysFits, PTL

(* delConfig, whose realloc would free the memory of a last pair and go on to use it, is only reached when the
   device name is stored beside the network: setDeviceNameEEPROM runs first and finds room. *)
THEOREM LastPairNeverDeleted == Spec => []AnotherPairStays
<1>1. Inv /\ Fits /\ NameFirst => AnotherPairStays
  <2> SUFFICES ASSUME Inv, Fits, NameFirst, todo # <<>>, Head(todo).op = "del"
               PROVE  ~LastPair(Head(todo).key)
    BY DEF AnotherPairStays
  <2>1. Head(todo).key \in NetworkKeys /\ pc \in {"network", "loop"}
    BY TailOf DEF Inv, Pending, Writes, Fits, NameFirst
  <2>2. todo # <<Set("dN", DefaultName)>>
    BY DEF Set
  <2>3. "dN" \in DOMAIN gCfg
    BY <2>1, <2>2 DEF NameFirst
  <2> QED BY <2>1, <2>3 DEF LastPair, NetworkKeys
<1> QED BY <1>1, AlwaysFits, PTL
=============================================================================
