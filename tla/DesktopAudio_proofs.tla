------------------------- MODULE DesktopAudio_proofs -------------------------
(***************************************************************************)
(* What DesktopAudio promises, for any devices, any sizes their outputs    *)
(* offer, and any number of calls, losses and returns.                     *)
(*                                                                         *)
(* The devices that run are those that are chosen, because every handler   *)
(* that changes the choice closes them, or exchanges the microphone with   *)
(* the choice.  A room begins with devices that were tested, because what is *)
(* verified of a role is, as long as the devices are open, what is open of *)
(* it; and a microphone that fell silent is not verified, because another  *)
(* entry of the list is another device: that needs the lists to name each  *)
(* device once, and so that a finite set of numbers can be put in order.   *)
(***************************************************************************)
EXTENDS DesktopAudio, FiniteSetTheorems, SequenceTheorems, WellFoundedInduction, TLAPS

-----------------------------------------------------------------------------
(* The order of a list.                                                      *)

\* Every set of numbers has a least one; that is all the induction there is.
LEMMA Least ==
  ASSUME NEW T \in SUBSET Nat, T # {}
  PROVE  \E n \in T : \A m \in T : n <= m
<1> DEFINE R == OpToRel(<, Nat)
<1>1. IsWellFoundedOn(R, Nat)
  BY NatLessThanWellFounded
<1>2. \A x, y \in Nat : x < y => <<x, y>> \in R
  BY DEF OpToRel
<1>3. T \subseteq Nat /\ \A n \in T : n \in Nat
  OBVIOUS
<1> HIDE DEF R
<1>4. PICK x \in T : \A y \in T : ~(<<y, x>> \in R)
  BY <1>1, <1>3, WFMin
<1>5. SUFFICES ASSUME NEW m \in T PROVE x <= m
  OBVIOUS
<1>6. ~(m < x)
  BY <1>2, <1>3, <1>4
<1> QED BY <1>3, <1>6

Increasing(s) == \A i, j \in DOMAIN s : i < j => s[i] < s[j]
HasOrder(S) == \E s \in [1 .. Cardinality(S) -> S] : Increasing(s)

\* A finite set of numbers can be put in order.
LEMMA OrderExists ==
  ASSUME NEW S \in SUBSET Nat, IsFiniteSet(S)
  PROVE  HasOrder(S)
<1> DEFINE Bad(n) == \E U \in SUBSET Nat : IsFiniteSet(U) /\ Cardinality(U) = n /\ ~HasOrder(U)
           T == {n \in Nat : Bad(n)}
<1>1. SUFFICES ASSUME T # {} PROVE FALSE
  <2>1. Cardinality(S) \in Nat
    BY FS_CardinalityType
  <2> QED BY <2>1
<1>2. PICK n \in T : \A m \in T : n <= m
  <2>1. T \in SUBSET Nat
    OBVIOUS
  <2> HIDE DEF T
  <2> QED BY <1>1, <2>1, Least
<1>3. PICK U \in SUBSET Nat : IsFiniteSet(U) /\ Cardinality(U) = n /\ ~HasOrder(U)
  OBVIOUS
<1>4. n \in Nat
  OBVIOUS
<1>5. U # {}
  <2>1. SUFFICES ASSUME U = {} PROVE FALSE
    OBVIOUS
  <2>2. Cardinality(U) = 0
    BY <2>1, FS_EmptySet
  <2>3. [i \in 1 .. 0 |-> 0] \in [1 .. 0 -> U] /\ Increasing([i \in 1 .. 0 |-> 0])
    BY DEF Increasing
  <2> QED BY <2>2, <2>3, <1>3 DEF HasOrder
<1>6. PICK x \in U : \A y \in U : x <= y
  BY <1>5, Least
<1> DEFINE V == U \ {x}
<1>7. V \in SUBSET Nat /\ IsFiniteSet(V) /\ Cardinality(V) = n - 1
  BY <1>3, FS_RemoveElement
<1>8. n - 1 \in Nat
  BY <1>7, FS_CardinalityType
<1>9. HasOrder(V)
  <2>1. n - 1 \notin T
    BY <1>2, <1>4
  <2>2. ~Bad(n - 1)
    BY <2>1, <1>8
  <2> HIDE DEF V
  <2> QED BY <2>2, <1>7
<1>10. PICK s \in [1 .. n - 1 -> V] : Increasing(s)
  BY <1>7, <1>9 DEF HasOrder
<1> DEFINE r == [i \in 1 .. n |-> IF i = 1 THEN x ELSE s[i - 1]]
<1>11. \A i \in 1 .. n : i # 1 => i - 1 \in 1 .. n - 1 /\ r[i] = s[i - 1] /\ s[i - 1] \in V
  BY <1>4, <1>8
<1>12. 1 \in 1 .. n /\ r[1] = x
  BY <1>4, <1>8
<1>13. r \in [1 .. n -> U]
  BY <1>11, <1>12
<1>14. ASSUME NEW i \in 1 .. n, NEW j \in 1 .. n, i < j
       PROVE  r[i] < r[j]
  <2>1. j # 1 /\ r[j] \in V
    BY <1>11, <1>14
  <2>2. CASE i = 1
    <3>1. r[j] \in U /\ r[j] # x /\ r[j] \in Nat /\ x \in Nat
      BY <2>1, <1>3
    <3>2. x <= r[j]
      BY <3>1, <1>6
    <3>3. r[i] = x
      BY <2>2, <1>12
    <3> HIDE DEF r
    <3> QED BY <3>1, <3>2, <3>3
  <2>3. CASE i # 1
    <3>1. i - 1 < j - 1
      BY <1>14
    <3> HIDE DEF r
    <3> QED BY <2>1, <2>3, <3>1, <1>10, <1>11 DEF Increasing
  <2> QED BY <2>2, <2>3
<1>15. Increasing(r)
  <2>1. DOMAIN r = 1 .. n
    OBVIOUS
  <2> HIDE DEF r
  <2> QED BY <2>1, <1>14 DEF Increasing
<1> HIDE DEF r
<1> QED BY <1>3, <1>13, <1>15 DEF HasOrder

\* Sorted() lists each element once.
LEMMA SortedLists ==
  ASSUME NEW S \in SUBSET Nat, IsFiniteSet(S)
  PROVE  /\ Sorted(S) \in Seq(S) /\ Len(Sorted(S)) = Cardinality(S) /\ Cardinality(S) \in Nat
         /\ \A i, j \in 1 .. Len(Sorted(S)) : Sorted(S)[i] = Sorted(S)[j] => i = j
         /\ \A x \in S : \E i \in 1 .. Len(Sorted(S)) : Sorted(S)[i] = x
<1> DEFINE n == Cardinality(S)
           s == Sorted(S)
<1>1. n \in Nat
  BY FS_CardinalityType
<1>2. s \in [1 .. n -> S] /\ Increasing(s)
  BY OrderExists DEF HasOrder, Sorted, Increasing
<1> HIDE DEF s, n
<1>3. s \in Seq(S) /\ Len(s) = n
  BY <1>1, <1>2
<1>4. \A i, j \in 1 .. n : s[i] = s[j] => i = j
  <2>1. \A i \in 1 .. n : s[i] \in Nat
    BY <1>2
  <2> QED BY <2>1, <1>1, <1>2 DEF Increasing
<1>5. s \in Injection(1 .. n, S)
  BY <1>2, <1>4 DEF Injection, IsInjective
<1>6. IsFiniteSet(1 .. n) /\ Cardinality(1 .. n) = n
  BY <1>1, FS_Interval
<1>7. s \in Surjection(1 .. n, S)
  BY <1>5, <1>6, FS_Injection DEF n
<1>8. \A x \in S : \E i \in 1 .. n : s[i] = x
  BY <1>7 DEF Surjection
<1> QED BY <1>1, <1>3, <1>4, <1>8 DEF s, n

-----------------------------------------------------------------------------
(* The invariant.                                                            *)

Outs == Interfaces \cup Speakers
Ins == Interfaces \cup Mics

Listed(list, S) == /\ list \in Seq(S) /\ Len(list) # 0
                   /\ \A i, j \in 1 .. Len(list) : list[i] = list[j] => i = j

\* The lists name devices, each once, or there is a placeholder in each.
ListsSound(lst) ==
  /\ lst.available => Listed(lst.inputs, Ins) /\ Listed(lst.outputs, Outs)
  /\ ~lst.available => lst.inputs = <<NoDevice>> /\ lst.outputs = <<NoDevice>>

\* The ladder is that of some output, and the automatic size is on it.
LadderSound(buf) ==
  /\ buf = [ladder |-> buf.ladder, at |-> buf.at, auto |-> buf.auto, raised |-> buf.raised]
  /\ \E d \in Outs : buf.ladder = <<Automatic>> \o Sorted(Sizes[d]) /\ buf.auto \in Sizes[d]

\* What is verified was verified as it is described, and the description is of
\* what is chosen.
ReadySound(r, lst, pick, buf) ==
  /\ r = [prints |-> r.prints, verified |-> r.verified]
  /\ r.prints = [role \in Roles |-> r.prints[role]]
  /\ r.verified = [role \in Roles |-> r.verified[role]]
  /\ lst.available => \A role \in Roles : r.prints[role] = Fingerprint(lst, pick, buf, role)
  /\ \A role \in Roles : /\ r.prints[role] # Unverified
                         /\ r.verified[role] \in {Unverified, r.prints[role]}

\* The devices are open, though the service may have lost one of them.
Open == service.state \in {"Running", "Lost"}

\* What is open is what is chosen, and what is verified is what is open.
OpenInv == Open =>
  /\ lists.available =>
        /\ service.setup.frames = EffectiveFrames(buffer)
        /\ \A role \in Roles : \/ service.setup[role] = DeviceOf(lists, chosen, role)
                               \/ role = "voice" /\ service.setup[role] = NoDevice
  /\ service.setup.voice = NoDevice => service.mic = "Silent"
  /\ \A role \in Roles : ready.verified[role] \in
       {Unverified, <<service.setup[role], Automatic>>, <<service.setup[role], service.setup.frames>>}

\* What was seen may be old, but not so old that the devices were closed since.
SeenInv == seen.state = "Running" => Open /\ (service.mic = "Silent" => ~seen.voice)

ServiceTyped ==
  /\ service = [state |-> service.state, setup |-> service.setup, mic |-> service.mic,
                dropped |-> service.dropped]
  /\ service.setup = [part \in Roles \cup {"frames"} |-> service.setup[part]]

AudioInv ==
  /\ present \subseteq Devices
  /\ chosen = [role \in Roles |-> chosen[role]]
  /\ ListsSound(lists) /\ LadderSound(buffer) /\ ReadySound(ready, lists, chosen, buffer)
  /\ ServiceTyped /\ OpenInv /\ SeenInv

-----------------------------------------------------------------------------
(* Lists, ladders and descriptions.                                          *)

LEMMA DeviceNumbers ==
  /\ Devices \in SUBSET Nat /\ NoDevice \notin Devices /\ IsFiniteSet(Devices)
  /\ Ins \subseteq Devices /\ Outs \subseteq Devices /\ Mics \subseteq Ins
BY DevicesAssumption DEF Devices, NoDevice, Ins, Outs

LEMMA ResolvesWithin ==
  ASSUME NEW list, NEW n \in Nat, n # 0, DOMAIN list = 1 .. n, NEW value
  PROVE  Resolve(list, value) \in 1 .. n
<1> DEFINE T == {i \in 1 .. n : list[i] = value}
<1>1. CASE T = {}
  <2>1. ~ \E i \in DOMAIN list : list[i] = value
    BY <1>1
  <2>2. Resolve(list, value) = 1
    BY <2>1 DEF Resolve
  <2> QED BY <2>2
<1>2. CASE T # {}
  <2>1. T \in SUBSET Nat
    OBVIOUS
  <2>2. PICK x \in T : \A y \in T : x <= y
    <3> HIDE DEF T
    <3> QED BY <1>2, <2>1, Least
  <2>3. x \in DOMAIN list /\ list[x] = value /\ \A j \in 1 .. x - 1 : list[j] # value
    BY <2>2
  <2>4. Resolve(list, value) = CHOOSE i \in DOMAIN list :
                                  list[i] = value /\ \A j \in 1 .. i - 1 : list[j] # value
    BY <2>3 DEF Resolve
  <2>5. Resolve(list, value) \in DOMAIN list
    BY <2>3, <2>4
  <2> QED BY <2>5
<1> QED BY <1>1, <1>2

LEMMA InventorySound ==
  ASSUME NEW devs \in SUBSET Devices
  PROVE  ListsSound(Inventory(devs))
<1> DEFINE ins == devs \cap (Interfaces \cup Mics)
           outs == devs \cap (Interfaces \cup Speakers)
<1>1. ins \in SUBSET Nat /\ IsFiniteSet(ins) /\ outs \in SUBSET Nat /\ IsFiniteSet(outs)
  BY DeviceNumbers, FS_Subset
<1> HIDE DEF ins, outs
<1>2. ASSUME NEW S \in SUBSET Nat, IsFiniteSet(S), S # {}, NEW R, S \subseteq R
      PROVE  Listed(Sorted(S), R)
  <2>1. Sorted(S) \in Seq(S) /\ Len(Sorted(S)) = Cardinality(S)
        /\ \A i, j \in 1 .. Len(Sorted(S)) : Sorted(S)[i] = Sorted(S)[j] => i = j
    BY <1>2, SortedLists
  <2>2. Cardinality(S) # 0
    BY <1>2, FS_EmptySet
  <2>3. Sorted(S) \in Seq(R)
    BY <2>1, <1>2, SeqMonotonic
  <2> QED BY <2>1, <2>2, <2>3 DEF Listed
<1>3. CASE ins # {} /\ outs # {}
  <2>1. Inventory(devs) = [inputs |-> Sorted(ins), outputs |-> Sorted(outs), available |-> TRUE]
    BY <1>3 DEF Inventory, ins, outs
  <2>2. Listed(Sorted(ins), Ins) /\ Listed(Sorted(outs), Outs)
    <3>1. ins \subseteq Ins /\ outs \subseteq Outs
      BY DEF ins, outs, Ins, Outs
    <3> QED BY <3>1, <1>1, <1>2, <1>3
  <2> QED BY <2>1, <2>2 DEF ListsSound
<1>4. CASE ~(ins # {} /\ outs # {})
  BY <1>4 DEF Inventory, ListsSound, ins, outs
<1> QED BY <1>3, <1>4

\* The sizes of an output can be told from its ladder.
LEMMA LadderSizes ==
  ASSUME NEW d \in Outs, NEW ladder, ladder = <<Automatic>> \o Sorted(Sizes[d])
  PROVE  /\ Range(ladder) \subseteq Nat
         /\ Sizes[d] \subseteq Nat /\ Sizes[d] = Range(ladder) \ {0}
<1> DEFINE sizes == Sizes[d]
           s == Sorted(Sizes[d])
<1>1. sizes \in SUBSET Nat /\ IsFiniteSet(sizes) /\ 0 \notin sizes
  BY DevicesAssumption DEF Outs
<1>2. s \in Seq(sizes) /\ Len(s) \in Nat /\ \A x \in sizes : \E i \in 1 .. Len(s) : s[i] = x
  BY <1>1, SortedLists
<1> HIDE DEF s, sizes
<1>3. ladder = <<0>> \o s
  BY DEF s, Automatic
<1>4. /\ ladder \in Seq(Nat) /\ Len(ladder) = Len(s) + 1 /\ ladder[1] = 0
      /\ \A i \in 1 .. Len(s) : ladder[i + 1] = s[i]
  <2>1. s \in Seq(Nat)
    BY <1>1, <1>2, SeqMonotonic
  <2> DEFINE first == <<0>>
  <2>2. first \in Seq(Nat) /\ Len(first) = 1 /\ first[1] = 0 /\ ladder = first \o s
    BY <1>3
  <2> HIDE DEF first
  <2>3. /\ ladder \in Seq(Nat) /\ Len(ladder) = 1 + Len(s)
        /\ \A i \in 1 .. 1 + Len(s) : ladder[i] = IF i <= 1 THEN first[i] ELSE s[i - 1]
    <3>1. /\ first \o s \in Seq(Nat) /\ Len(first \o s) = Len(first) + Len(s)
          /\ \A i \in 1 .. Len(first) + Len(s) : (first \o s)[i] =
                     IF i <= Len(first) THEN first[i] ELSE s[i - Len(first)]
      BY <2>1, <2>2, ConcatProperties
    <3> QED BY <2>2, <3>1
  <2>4. 1 \in 1 .. 1 + Len(s) /\ ladder[1] = 0 /\ Len(ladder) = Len(s) + 1
    BY <2>2, <2>3, <1>2
  <2>5. ASSUME NEW i \in 1 .. Len(s) PROVE ladder[i + 1] = s[i]
    <3>1. i + 1 \in 1 .. 1 + Len(s) /\ ~(i + 1 <= 1) /\ (i + 1) - 1 = i
      BY <1>2
    <3> QED BY <3>1, <2>3
  <2> QED BY <2>3, <2>4, <2>5
<1>5. \A x \in sizes : x \in Range(ladder) /\ x # 0
  <2> SUFFICES ASSUME NEW x \in sizes PROVE x \in Range(ladder) /\ x # 0
    OBVIOUS
  <2>1. PICK i \in 1 .. Len(s) : s[i] = x
    BY <1>2
  <2>2. i + 1 \in DOMAIN ladder /\ ladder[i + 1] = x
    <3>1. DOMAIN ladder = 1 .. Len(s) + 1
      BY <1>4, LenProperties
    <3>2. i + 1 \in 1 .. Len(s) + 1
      BY <2>1, <1>2
    <3> QED BY <2>1, <3>1, <3>2, <1>4
  <2> QED BY <2>2, <1>1 DEF Range
<1>6. ASSUME NEW x \in Range(ladder) \ {0} PROVE x \in sizes
  <2>1. PICK i \in DOMAIN ladder : ladder[i] = x
    BY DEF Range
  <2>2. i \in 1 .. Len(s) + 1 /\ i # 1
    BY <2>1, <1>4, <1>6
  <2>3. i - 1 \in 1 .. Len(s) /\ (i - 1) + 1 = i
    BY <2>2, <1>2
  <2>4. x = s[i - 1]
    BY <2>1, <2>3, <1>4
  <2> QED BY <2>3, <2>4, <1>2
<1>7. Sizes[d] = Range(ladder) \ {0}
  BY <1>5, <1>6 DEF sizes
<1>8. Range(ladder) \subseteq Nat
  <2> SUFFICES ASSUME NEW x \in Range(ladder), x # 0 PROVE x \in Nat
    OBVIOUS
  <2>1. x \in sizes
    BY <1>6
  <2> QED BY <2>1, <1>1
<1> QED BY <1>1, <1>7, <1>8 DEF sizes

LEMMA SameLadder ==
  ASSUME NEW d \in Outs, NEW e \in Outs,
         <<Automatic>> \o Sorted(Sizes[d]) = <<Automatic>> \o Sorted(Sizes[e])
  PROVE  Sizes[d] = Sizes[e]
<1> DEFINE ladder == <<Automatic>> \o Sorted(Sizes[d])
<1>1. ladder = <<Automatic>> \o Sorted(Sizes[d]) /\ ladder = <<Automatic>> \o Sorted(Sizes[e])
  OBVIOUS
<1> HIDE DEF ladder
<1>2. Sizes[d] = Range(ladder) \ {0} /\ Sizes[e] = Range(ladder) \ {0}
  BY <1>1, LadderSizes
<1> QED BY <1>2

\* What a reopened output makes of the sizes; a raise that belongs to its
\* ladder is kept.
LEMMA InstalledSound ==
  ASSUME NEW buf, LadderSound(buf), NEW d \in Outs
  PROVE  /\ LadderSound(Installed(buf, d))
         /\ Installed(buf, d).ladder = buf.ladder /\ buf.raised
               => Installed(buf, d).raised /\ Installed(buf, d).auto = buf.auto
<1> DEFINE new == Installed(buf, d)
           ladder == <<Automatic>> \o Sorted(Sizes[d])
<1>1. /\ new = [ladder |-> new.ladder, at |-> new.at, auto |-> new.auto, raised |-> new.raised]
      /\ new.ladder = ladder /\ new.raised = KeepsRaise(buf, d)
      /\ new.auto = IF KeepsRaise(buf, d) THEN buf.auto ELSE Preferred[d]
  BY DEF Installed
<1>2. KeepsRaise(buf, d) <=> buf.ladder = ladder /\ buf.raised /\ buf.auto \in Sizes[d]
  BY DEF KeepsRaise
<1>3. Preferred[d] \in Sizes[d]
  BY DevicesAssumption DEF Outs
<1> HIDE DEF new
<1>4. new.auto \in Sizes[d]
  BY <1>1, <1>2, <1>3
<1>5. ASSUME new.ladder = buf.ladder, buf.raised PROVE new.raised /\ new.auto = buf.auto
  <2>1. PICK e \in Outs : buf.ladder = <<Automatic>> \o Sorted(Sizes[e]) /\ buf.auto \in Sizes[e]
    BY DEF LadderSound
  <2>2. Sizes[d] = Sizes[e]
    BY <2>1, <1>1, <1>5, SameLadder
  <2> QED BY <2>1, <2>2, <1>1, <1>2, <1>5
<1> QED BY <1>1, <1>4, <1>5 DEF LadderSound, new

\* Describing what is chosen anew verifies nothing.
LEMMA ConfiguredSound ==
  ASSUME NEW r, NEW lst, NEW pick, NEW buf,
         \A role \in Roles : r.verified[role] \in {Unverified, r.prints[role]}
  PROVE  /\ ReadySound(Configured(r, lst, pick, buf), lst, pick, buf)
         /\ \A role \in Roles : Configured(r, lst, pick, buf).verified[role]
                                  \in {Unverified, r.verified[role]}
         /\ \A role \in Roles : r.prints[role] # Fingerprint(lst, pick, buf, role)
               => Configured(r, lst, pick, buf).verified[role] = Unverified
         /\ \A role \in Roles : Configured(r, lst, pick, buf).prints[role]
                                  = Fingerprint(lst, pick, buf, role)
<1>1. \A role \in Roles : Fingerprint(lst, pick, buf, role) # Unverified
  BY DEF Fingerprint, Unverified
<1> QED BY <1>1 DEF Configured, ReadySound

-----------------------------------------------------------------------------
(* The service, opened, closed or left alone.                                *)

Serves == ServiceTyped /\ OpenInv /\ SeenInv

LEMMA StoppedSound ==
  ASSUME service' = Stopped, seen' = Telemetry(service')
  PROVE  Serves'
BY DEF Serves, ServiceTyped, OpenInv, SeenInv, Open, Stopped, Telemetry, Nothing

LEMMA OpenedSound ==
  ASSUME present \subseteq Devices, lists'.available,
         ReadySound(ready', lists', chosen', buffer'),
         service' = Opened(lists', chosen', buffer'), seen' = Telemetry(service')
  PROVE  Serves'
<1> DEFINE setup == [part \in Roles \cup {"frames"} |->
                       IF part = "frames" THEN EffectiveFrames(buffer')
                       ELSE DeviceOf(lists', chosen', part)]
           mic == IF setup.output \in Interfaces /\ setup.voice \in Mics THEN "Running" ELSE "None"
<1>1. CASE Supported(setup) /\ \A role \in Roles : setup[role] \in present
  <2>1. service' = [state |-> "Running", setup |-> setup, dropped |-> FALSE, mic |-> mic]
    BY <1>1 DEF Opened
  <2>2. /\ \A role \in Roles : setup[role] = DeviceOf(lists', chosen', role)
        /\ setup.frames = EffectiveFrames(buffer')
    BY DEF Roles
  <2>3. setup.voice # NoDevice
    BY <1>1, DeviceNumbers DEF Roles
  <2>4. setup = [part \in Roles \cup {"frames"} |-> setup[part]]
    OBVIOUS
  <2> HIDE DEF setup
  <2>5. mic # "Silent"
    OBVIOUS
  <2> HIDE DEF mic
  <2>6. service'.setup = setup /\ service'.state = "Running" /\ service'.mic = mic
    BY <2>1
  <2>7. \A role \in Roles : ready'.verified[role] \in
           {Unverified, <<setup[role], Automatic>>, <<setup[role], setup.frames>>}
    BY <2>2 DEF ReadySound, Fingerprint, EffectiveFrames
  <2>8. OpenInv'
    BY <2>2, <2>3, <2>6, <2>7 DEF OpenInv, Open
  <2>9. SeenInv'
    BY <2>5, <2>6 DEF SeenInv, Open
  <2>10. ServiceTyped'
    BY <2>1, <2>4 DEF ServiceTyped
  <2> QED BY <2>8, <2>9, <2>10 DEF Serves
<1>2. CASE ~(Supported(setup) /\ \A role \in Roles : setup[role] \in present)
  <2>1. service' = [Stopped EXCEPT !.state = "Failed"]
    BY <1>2 DEF Opened
  <2> QED BY <2>1 DEF Serves, ServiceTyped, OpenInv, SeenInv, Open, Stopped, Telemetry, Nothing
<1> QED BY <1>1, <1>2

LEMMA ServiceLeft ==
  ASSUME Serves, UNCHANGED <<service, seen>>,
         lists'.available => UNCHANGED <<lists, chosen>>
                             /\ EffectiveFrames(buffer') = EffectiveFrames(buffer),
         \A role \in Roles : ready'.verified[role] \in {Unverified, ready.verified[role]}
  PROVE  Serves'
<1>1. ServiceTyped' /\ SeenInv'
  BY DEF Serves, ServiceTyped, SeenInv, Open
<1>2. OpenInv'
  <2> SUFFICES ASSUME Open PROVE OpenInv'
    BY DEF OpenInv, Open
  <2>1. lists'.available =>
          /\ service.setup.frames = EffectiveFrames(buffer')
          /\ \A role \in Roles : \/ service.setup[role] = DeviceOf(lists', chosen', role)
                                 \/ role = "voice" /\ service.setup[role] = NoDevice
    BY DEF Serves, OpenInv
  <2>2. \A role \in Roles : ready'.verified[role] \in
          {Unverified, <<service.setup[role], Automatic>>, <<service.setup[role], service.setup.frames>>}
    BY DEF Serves, OpenInv
  <2> QED BY <2>1, <2>2 DEF Serves, OpenInv
<1> QED BY <1>1, <1>2 DEF Serves

LEMMA ScheduleSound ==
  ASSUME Serves, NEW t, Schedule(t), UNCHANGED lists,
         \A role \in Roles : ready'.verified[role] \in {Unverified, ready.verified[role]}
  PROVE  Serves'
<1>1. CASE lists.available
  BY <1>1, StoppedSound DEF Schedule
<1>2. CASE ~lists.available
  BY <1>2, ServiceLeft DEF Schedule
<1> QED BY <1>1, <1>2

LEMMA ReopenSound ==
  ASSUME AudioInv, NEW t, Reopen(lists, chosen, buffer, t),
         UNCHANGED <<present, lists, chosen, buffer, ready>>
  PROVE  AudioInv'
<1>1. Serves'
  <2>1. CASE lists.available
    BY <2>1, OpenedSound DEF Reopen, AudioInv
  <2>2. CASE ~lists.available
    <3>1. UNCHANGED <<service, seen>>
      BY <2>2 DEF Reopen
    <3> QED BY <2>2, <3>1, ServiceLeft DEF AudioInv, Serves
  <2> QED BY <2>1, <2>2
<1> QED BY <1>1 DEF AudioInv, Serves

-----------------------------------------------------------------------------
(* The steps.                                                                *)

LEMMA ListedAt ==
  ASSUME ListsSound(lists), NEW i
  PROVE  /\ lists.available /\ i \in DOMAIN lists.outputs => lists.outputs[i] \in Outs
         /\ i \in DOMAIN lists.inputs /\ lists.inputs[i] \in Mics => lists.available
<1>1. ASSUME lists.available, i \in DOMAIN lists.outputs PROVE lists.outputs[i] \in Outs
  <2>1. lists.outputs \in Seq(Outs)
    BY <1>1 DEF ListsSound, Listed
  <2> QED BY <2>1, <1>1
<1>2. ASSUME i \in DOMAIN lists.inputs, lists.inputs[i] \in Mics, ~lists.available PROVE FALSE
  <2>1. lists.inputs = <<NoDevice>>
    BY <1>2 DEF ListsSound
  <2>2. lists.inputs[i] = NoDevice
    BY <2>1, <1>2
  <2> QED BY <2>2, <1>2, DeviceNumbers
<1> QED BY <1>1, <1>2

\* A handler that changes what is chosen, and closes the devices.
LEMMA ChoiceSound ==
  ASSUME AudioInv, NEW t, Schedule(t), UNCHANGED <<present, lists>>,
         chosen' = [role \in Roles |-> chosen'[role]], LadderSound(buffer'),
         ready' = Configured(ready, lists, chosen', buffer')
  PROVE  AudioInv'
<1>1. /\ ReadySound(ready', lists, chosen', buffer')
      /\ \A role \in Roles : ready'.verified[role] \in {Unverified, ready.verified[role]}
  BY ConfiguredSound DEF AudioInv, ReadySound
<1>2. Serves'
  BY <1>1, ScheduleSound DEF AudioInv, Serves
<1> QED BY <1>1, <1>2 DEF AudioInv, Serves

LEMMA ChooseSound ==
  ASSUME AudioInv, NEW i, \/ ChooseInstrument(i) \/ ChooseOutput(i) \/ ChooseSize(i)
  PROVE  AudioInv'
<1>1. CASE ChooseInstrument(i)
  <2>1. chosen' = [chosen EXCEPT !.instrument = i] /\ buffer' = buffer
    BY <1>1 DEF ChooseInstrument
  <2>2. chosen' = [role \in Roles |-> chosen'[role]]
    BY <2>1 DEF AudioInv
  <2> QED BY <1>1, <2>1, <2>2, ChoiceSound DEF ChooseInstrument, AudioInv
<1>2. CASE ChooseOutput(i)
  <2>1. chosen' = [chosen EXCEPT !.output = i] /\ i \in DOMAIN lists.outputs
    BY <1>2 DEF ChooseOutput
  <2>2. chosen' = [role \in Roles |-> chosen'[role]]
    BY <2>1 DEF AudioInv
  <2>3. LadderSound(buffer')
    <3>1. CASE lists.available
      <4>1. lists.outputs[i] \in Outs
        BY <2>1, <3>1, ListedAt DEF AudioInv
      <4>2. buffer' = Installed(buffer, lists.outputs[i])
        BY <1>2, <3>1 DEF ChooseOutput
      <4> QED BY <4>1, <4>2, InstalledSound DEF AudioInv
    <3>2. CASE ~lists.available
      BY <1>2, <3>2 DEF ChooseOutput, AudioInv
    <3> QED BY <3>1, <3>2
  <2> QED BY <1>2, <2>2, <2>3, ChoiceSound DEF ChooseOutput
<1>3. CASE ChooseSize(i)
  <2>1. buffer' = [buffer EXCEPT !.at = i] /\ chosen' = chosen
    BY <1>3 DEF ChooseSize
  <2>2. LadderSound(buffer')
    BY <2>1 DEF AudioInv, LadderSound
  <2> QED BY <1>3, <2>1, <2>2, ChoiceSound DEF ChooseSize, AudioInv
<1> QED BY <1>1, <1>2, <1>3

LEMMA ChooseVoiceSound ==
  ASSUME AudioInv, NEW i, ChooseVoice(i)
  PROVE  AudioInv'
<1> DEFINE mic == lists.inputs[i]
           t == [timers EXCEPT !.save = TRUE]
<1>1. /\ i \in DOMAIN lists.inputs \ {chosen.voice}
      /\ chosen' = [chosen EXCEPT !.voice = i] /\ ready' = Configured(ready, lists, chosen', buffer)
      /\ UNCHANGED <<present, lists, buffer>>
  BY DEF ChooseVoice
<1>2. /\ chosen' = [role \in Roles |-> chosen'[role]] /\ chosen'.voice = i
      /\ \A role \in Roles \ {"voice"} : chosen'[role] = chosen[role]
  BY <1>1 DEF AudioInv, Roles
<1>3. PICK answer \in IF seen.state = "Running" THEN VoiceAnswers(mic) ELSE {"Unasked"} :
        IF Settled(answer)
        THEN /\ service' = CASE answer = "Applied" ->
                                   [service EXCEPT !.setup.voice = mic, !.mic = "Running"]
                             [] answer = "Failed" ->
                                   [service EXCEPT !.setup.voice = NoDevice, !.mic = "Silent"]
                             [] OTHER -> service
             /\ seen' = Telemetry(service')
        ELSE Schedule(t)
  BY DEF ChooseVoice
<1>4. CASE ~Settled(answer)
  BY <1>1, <1>2, <1>3, <1>4, ChoiceSound DEF AudioInv
<1>5. CASE Settled(answer)
  <2>1. /\ seen.state = "Running" /\ answer \in {"Applied", "Failed"} /\ answer \in VoiceAnswers(mic)
        /\ seen' = Telemetry(service')
    BY <1>3, <1>5 DEF Settled
  <2>2. mic \in Mics /\ lists.available /\ Open
    <3>1. mic \in Mics
      BY <2>1 DEF VoiceAnswers
    <3> QED BY <2>1, <3>1, <1>1, ListedAt DEF AudioInv, SeenInv
  <2>3. /\ ReadySound(ready', lists, chosen', buffer)
        /\ \A role \in Roles : ready'.verified[role] \in {Unverified, ready.verified[role]}
        /\ ready.prints["voice"] # Fingerprint(lists, chosen', buffer, "voice")
              => ready'.verified["voice"] = Unverified
        /\ \A role \in Roles : ready'.prints[role] = Fingerprint(lists, chosen', buffer, role)
    BY <1>1, ConfiguredSound DEF AudioInv, ReadySound, Roles
  \* Another entry of the list is another device.
  <2>4. ready'.verified["voice"] = Unverified
    <3>1. /\ ready.prints["voice"] = Fingerprint(lists, chosen, buffer, "voice")
          /\ Listed(lists.inputs, Ins)
      BY <2>2 DEF AudioInv, ReadySound, ListsSound, Roles
    <3>2. DeviceOf(lists, chosen', "voice") = mic
      BY <1>1, <1>2 DEF DeviceOf, At, ListOf
    <3>3. DeviceOf(lists, chosen, "voice") # mic
      <4>1. CASE chosen.voice \in DOMAIN lists.inputs
        <5>1. lists.inputs[chosen.voice] # mic
          BY <1>1, <3>1, <4>1 DEF Listed
        <5> QED BY <4>1, <5>1 DEF DeviceOf, At, ListOf
      <4>2. CASE chosen.voice \notin DOMAIN lists.inputs
        <5>1. DeviceOf(lists, chosen, "voice") = NoDevice
          BY <4>2 DEF DeviceOf, At, ListOf
        <5> QED BY <5>1, <2>2, DeviceNumbers
      <4> QED BY <4>1, <4>2
    <3>4. Fingerprint(lists, chosen, buffer, "voice") # Fingerprint(lists, chosen', buffer, "voice")
      BY <3>2, <3>3 DEF Fingerprint
    <3> QED BY <2>3, <3>1, <3>4
  <2> DEFINE voice == IF answer = "Applied" THEN mic ELSE NoDevice
             thread == IF answer = "Applied" THEN "Running" ELSE "Silent"
  <2>5. service' = [service EXCEPT !.setup.voice = voice, !.mic = thread]
    BY <1>3, <1>5, <2>1
  <2> HIDE DEF voice, thread, mic
  <2>6. /\ ServiceTyped' /\ service'.state = service.state /\ service'.mic = thread
        /\ service'.setup.voice = voice /\ service'.setup.frames = service.setup.frames
        /\ \A role \in Roles \ {"voice"} : service'.setup[role] = service.setup[role]
    BY <2>5 DEF AudioInv, ServiceTyped, Roles
  <2>7. OpenInv'
    <3>1. service'.setup.frames = EffectiveFrames(buffer')
      BY <1>1, <2>2, <2>6 DEF AudioInv, OpenInv
    <3>2. ASSUME NEW role \in Roles
          PROVE  \/ service'.setup[role] = DeviceOf(lists', chosen', role)
                 \/ role = "voice" /\ service'.setup[role] = NoDevice
      <4>1. CASE role = "voice"
        BY <4>1, <1>1, <1>2, <2>6 DEF voice, mic, DeviceOf, At, ListOf
      <4>2. CASE role # "voice"
        <5>1. service.setup[role] = DeviceOf(lists, chosen, role)
          BY <4>2, <2>2 DEF AudioInv, OpenInv
        <5>2. DeviceOf(lists', chosen', role) = DeviceOf(lists, chosen, role)
          BY <4>2, <1>1, <1>2 DEF DeviceOf
        <5> QED BY <4>2, <5>1, <5>2, <2>6
      <4> QED BY <4>1, <4>2
    <3>3. service'.setup.voice = NoDevice => service'.mic = "Silent"
      BY <2>2, <2>6, DeviceNumbers DEF voice, thread
    <3>4. ASSUME NEW role \in Roles
          PROVE  ready'.verified[role] \in {Unverified, <<service'.setup[role], Automatic>>,
                                            <<service'.setup[role], service'.setup.frames>>}
      <4>1. CASE role = "voice"
        BY <4>1, <2>4
      <4>2. CASE role # "voice"
        BY <4>2, <2>2, <2>3, <2>6 DEF AudioInv, OpenInv
      <4> QED BY <4>1, <4>2
    <3> QED BY <3>1, <3>2, <3>3, <3>4 DEF OpenInv
  <2>8. SeenInv'
    <3>1. Open'
      BY <2>2, <2>6 DEF Open
    <3>2. seen'.voice <=> service'.mic \in {"None", "Running"}
      BY <2>1 DEF Telemetry
    <3> QED BY <3>1, <3>2 DEF SeenInv
  <2> QED BY <1>1, <1>2, <2>3, <2>6, <2>7, <2>8 DEF AudioInv
<1> QED BY <1>4, <1>5

LEMMA SaveSoundcheckSound ==
  ASSUME AudioInv, SaveSoundcheck
  PROVE  AudioInv'
<1> DEFINE now == Configured(ready, lists, chosen, buffer)
<1>1. /\ UNCHANGED <<present, lists, chosen, buffer, service, seen>>
      /\ ready' = IF lists.available /\ seen.state = "Running" /\ seen.voice
                  THEN [now EXCEPT !.verified = now.prints] ELSE ready
  BY DEF SaveSoundcheck
<1>2. CASE ready' = ready
  BY <1>1, <1>2 DEF AudioInv, ServiceTyped, OpenInv, Open, SeenInv
<1>3. CASE /\ lists.available /\ seen.state = "Running" /\ seen.voice
           /\ ready' = [now EXCEPT !.verified = now.prints]
  <2>1. ReadySound(now, lists, chosen, buffer)
    BY ConfiguredSound DEF AudioInv, ReadySound
  <2> HIDE DEF now
  <2>2. ready' = [prints |-> now.prints, verified |-> now.prints]
    BY <1>3, <2>1 DEF ReadySound
  <2>3. \A role \in Roles : now.prints[role] = Fingerprint(lists, chosen, buffer, role)
    BY <1>3, <2>1 DEF ReadySound
  <2>4. ReadySound(ready', lists, chosen, buffer)
    BY <2>1, <2>2 DEF ReadySound
  <2>5. Open /\ service.setup.voice # NoDevice
    BY <1>3 DEF AudioInv, SeenInv, OpenInv
  <2>6. /\ \A role \in Roles : service.setup[role] = DeviceOf(lists, chosen, role)
        /\ service.setup.frames = EffectiveFrames(buffer)
    BY <1>3, <2>5 DEF AudioInv, OpenInv
  <2>7. \A role \in Roles : ready'.verified[role] \in
          {<<service.setup[role], Automatic>>, <<service.setup[role], service.setup.frames>>}
    BY <2>2, <2>3, <2>6 DEF Fingerprint, EffectiveFrames
  <2>8. OpenInv'
    BY <1>1, <2>7 DEF AudioInv, OpenInv, Open
  <2>9. ServiceTyped' /\ SeenInv'
    BY <1>1 DEF AudioInv, ServiceTyped, SeenInv, Open
  <2> QED BY <1>1, <2>4, <2>8, <2>9 DEF AudioInv
<1> QED BY <1>1, <1>2, <1>3

\* Looking again finds an output, if there is any device.
LEMMA FoundOutput ==
  ASSUME present \subseteq Devices, NEW t, RetriesWith(t), lists'.available
  PROVE  DeviceOf(lists', chosen', "output") \in Outs
<1>1. ListsSound(lists')
  BY InventorySound DEF RetriesWith
<1>2. lists'.outputs \in Seq(Outs) /\ Len(lists'.outputs) \in Nat /\ Len(lists'.outputs) # 0
  BY <1>1 DEF ListsSound, Listed
<1>3. chosen'.output = Resolve(lists'.outputs, saved'["output"])
  BY DEF RetriesWith, Resolved, ListOf, Roles
<1>4. DOMAIN lists'.outputs = 1 .. Len(lists'.outputs)
  BY <1>2
<1>5. chosen'.output \in 1 .. Len(lists'.outputs)
  BY <1>2, <1>3, <1>4, ResolvesWithin
<1> QED BY <1>2, <1>4, <1>5 DEF DeviceOf, At, ListOf

LEMMA RetriesSound ==
  ASSUME AudioInv, NEW t, RetriesWith(t)
  PROVE  AudioInv'
<1>1. lists' = Inventory(present) /\ ListsSound(lists') /\ UNCHANGED present
  BY InventorySound DEF RetriesWith, AudioInv
<1>2. CASE lists'.available
  <2> DEFINE installed == Installed(buffer, DeviceOf(lists', chosen', "output"))
             at == Resolve(installed.ladder, saved'.size)
  <2>1. /\ chosen' = Resolved(lists', saved') /\ buffer' = [installed EXCEPT !.at = at]
        /\ ready' = Configured(ready, lists', chosen', buffer')
        /\ Reopen(lists', chosen', buffer', t)
    BY <1>2 DEF RetriesWith
  <2>2. chosen' = [role \in Roles |-> chosen'[role]]
    BY <2>1 DEF Resolved
  <2>3. DeviceOf(lists', chosen', "output") \in Outs
    BY <1>2, FoundOutput DEF AudioInv
  <2>4. LadderSound(installed)
    BY <2>3, InstalledSound DEF AudioInv
  <2> HIDE DEF installed, at
  <2>5. LadderSound(buffer')
    BY <2>1, <2>4 DEF LadderSound
  <2>6. ReadySound(ready', lists', chosen', buffer')
    BY <2>1, ConfiguredSound DEF AudioInv, ReadySound
  <2>7. Serves'
    BY <1>2, <2>1, <2>6, OpenedSound DEF AudioInv, Reopen
  <2> QED BY <1>1, <2>2, <2>5, <2>6, <2>7 DEF AudioInv, Serves
<1>3. CASE ~lists'.available
  <2>1. UNCHANGED <<chosen, buffer, ready, service>> /\ seen'.state = "NoEndpoints"
    BY <1>3 DEF RetriesWith
  <2>2. ReadySound(ready', lists', chosen', buffer')
    BY <1>3, <2>1 DEF AudioInv, ReadySound
  <2>3. ServiceTyped' /\ OpenInv' /\ SeenInv'
    BY <1>3, <2>1 DEF AudioInv, ServiceTyped, OpenInv, Open, SeenInv
  <2> QED BY <1>1, <2>1, <2>2, <2>3 DEF AudioInv
<1> QED BY <1>2, <1>3

LEMMA NextChosen ==
  ASSUME LadderSound(buffer), Larger(buffer) # {}
  PROVE  (CHOOSE x \in Larger(buffer) : \A y \in Larger(buffer) : x <= y) \in Larger(buffer)
<1>1. PICK d \in Outs : buffer.ladder = <<Automatic>> \o Sorted(Sizes[d])
  BY DEF LadderSound
<1>2. Larger(buffer) \in SUBSET Nat
  <2>1. Range(buffer.ladder) \subseteq Nat
    BY <1>1, LadderSizes
  <2> QED BY <2>1 DEF Larger
<1>3. \E x \in Larger(buffer) : \A y \in Larger(buffer) : x <= y
  BY <1>2, Least
<1> QED BY <1>3

\* A larger size of the ladder is a size of its output.
LEMMA NextSize ==
  ASSUME LadderSound(buffer), NEW f \in Larger(buffer)
  PROVE  /\ LadderSound([buffer EXCEPT !.auto = f, !.raised = TRUE])
         /\ f > buffer.auto /\ f \in Nat
<1>1. PICK d \in Outs : buffer.ladder = <<Automatic>> \o Sorted(Sizes[d]) /\ buffer.auto \in Sizes[d]
  BY DEF LadderSound
<1>2. /\ Sizes[d] \subseteq Nat /\ Sizes[d] = Range(buffer.ladder) \ {0}
      /\ Range(buffer.ladder) \subseteq Nat
  BY <1>1, LadderSizes
<1>3. f \in Range(buffer.ladder) /\ f > buffer.auto
  BY DEF Larger
<1>4. f \in Nat /\ buffer.auto \in Nat
  BY <1>1, <1>2, <1>3
<1>5. f \in Sizes[d]
  <2>1. f # 0
    BY <1>3, <1>4
  <2> QED BY <1>2, <1>3, <2>1
<1>6. PICK new : new = [buffer EXCEPT !.auto = f, !.raised = TRUE]
  OBVIOUS
<1>7. /\ new = [ladder |-> new.ladder, at |-> new.at, auto |-> new.auto, raised |-> new.raised]
      /\ new.ladder = buffer.ladder /\ new.auto = f
  <2>1. PICK ladder, at, auto, raised :
           buffer = [ladder |-> ladder, at |-> at, auto |-> auto, raised |-> raised]
    BY DEF LadderSound
  <2>2. new = [ladder |-> ladder, at |-> at, auto |-> f, raised |-> TRUE]
    BY <2>1, <1>6
  <2> QED BY <2>1, <2>2
<1>8. LadderSound(new)
  BY <1>1, <1>5, <1>7 DEF LadderSound
<1> QED BY <1>3, <1>4, <1>6, <1>8

LEMMA PollSound ==
  ASSUME AudioInv, Poll
  PROVE  AudioInv'
<1> DEFINE now == Telemetry(service)
<1>0. PICK report \in Reports(service) : \E t :
        /\ ready' = IF now.state = "Running" /\ seen.voice /\ ~now.voice
                    THEN [ready EXCEPT !.verified.voice = Unverified] ELSE ready
        /\ IF StepsUp(report)
           THEN /\ buffer' = [buffer EXCEPT !.auto = CHOOSE f \in Larger(buffer) :
                                                       \A g \in Larger(buffer) : f <= g,
                                            !.raised = TRUE]
                /\ Schedule(t)
           ELSE /\ service' = [service EXCEPT !.dropped = service.dropped /\ report = "Limited"]
                /\ seen' = now
                /\ UNCHANGED buffer
        /\ UNCHANGED <<present, lists, chosen>>
  BY DEF Poll
<1>1. PICK t :
        /\ ready' = IF now.state = "Running" /\ seen.voice /\ ~now.voice
                    THEN [ready EXCEPT !.verified.voice = Unverified] ELSE ready
        /\ IF StepsUp(report)
           THEN /\ buffer' = [buffer EXCEPT !.auto = CHOOSE f \in Larger(buffer) :
                                                       \A g \in Larger(buffer) : f <= g,
                                            !.raised = TRUE]
                /\ Schedule(t)
           ELSE /\ service' = [service EXCEPT !.dropped = service.dropped /\ report = "Limited"]
                /\ seen' = now
                /\ UNCHANGED buffer
        /\ UNCHANGED <<present, lists, chosen>>
  BY <1>0
<1>2. /\ ready' = [prints |-> ready'.prints, verified |-> ready'.verified]
      /\ ready'.prints = ready.prints
      /\ ready'.verified = [role \in Roles |-> ready'.verified[role]]
      /\ \A role \in Roles : ready'.verified[role] \in {Unverified, ready.verified[role]}
  BY <1>1 DEF AudioInv, ReadySound
<1>3. CASE StepsUp(report)
  <2>1. LadderSound(buffer') /\ buffer'.ladder = buffer.ladder /\ buffer'.at = buffer.at
    <3>1. Larger(buffer) # {}
      BY <1>3 DEF StepsUp
    <3>2. PICK f \in Larger(buffer) :
            f = CHOOSE x \in Larger(buffer) : \A y \in Larger(buffer) : x <= y
      BY <3>1, NextChosen DEF AudioInv
    <3>3. buffer' = [buffer EXCEPT !.auto = f, !.raised = TRUE]
      BY <1>1, <1>3, <3>2
    <3>4. LadderSound(buffer')
      BY <3>3, NextSize DEF AudioInv
    <3> QED BY <3>3, <3>4 DEF AudioInv, LadderSound
  <2>2. ReadySound(ready', lists', chosen', buffer')
    BY <1>1, <1>2, <2>1 DEF AudioInv, ReadySound, Fingerprint, SizeOf
  <2>3. Serves'
    BY <1>1, <1>2, <1>3, ScheduleSound DEF AudioInv, Serves
  <2> QED BY <1>1, <2>1, <2>2, <2>3 DEF AudioInv, Serves
<1>4. CASE ~StepsUp(report)
  <2>1. /\ service' = [service EXCEPT !.dropped = service.dropped /\ report = "Limited"]
        /\ seen' = now /\ UNCHANGED <<present, lists, chosen, buffer>>
    BY <1>1, <1>4
  <2>2. /\ ServiceTyped' /\ service'.state = service.state /\ service'.setup = service.setup
        /\ service'.mic = service.mic
    BY <2>1 DEF AudioInv, ServiceTyped
  <2>3. ReadySound(ready', lists', chosen', buffer')
    BY <1>2, <2>1 DEF AudioInv, ReadySound
  <2>4. OpenInv'
    <3> SUFFICES ASSUME Open PROVE OpenInv'
      BY <2>2 DEF OpenInv, Open
    <3> QED BY <1>2, <2>1, <2>2 DEF AudioInv, OpenInv
  <2>5. SeenInv'
    BY <2>1, <2>2 DEF SeenInv, Open, Telemetry
  <2> QED BY <2>1, <2>2, <2>3, <2>4, <2>5 DEF AudioInv
<1> QED BY <1>3, <1>4

\* The service notices something, and devices come and go.
LEMMA ServiceSound ==
  ASSUME AudioInv, Loses \/ Reset \/ MicLost \/ MicBack \/ Drops
  PROVE  AudioInv'
<1>1. UNCHANGED <<present, lists, chosen, buffer, ready, seen>>
  BY DEF Loses, Reset, MicLost, MicBack, Drops
<1>2. /\ ServiceTyped' /\ service'.setup = service.setup /\ (Open' <=> Open)
      /\ service'.mic = service.mic \/ (service.mic # "Silent" /\ service'.mic # "Silent")
  BY DEF AudioInv, ServiceTyped, Open, Loses, Reset, MicLost, MicBack, Drops
<1>3. SeenInv'
  BY <1>1, <1>2 DEF AudioInv, SeenInv
<1>4. OpenInv'
  <2> SUFFICES ASSUME Open PROVE OpenInv'
    <3>1. Open' => Open
      BY <1>2
    <3> QED BY <3>1 DEF OpenInv
  <2>1. /\ lists'.available =>
             /\ service'.setup.frames = EffectiveFrames(buffer')
             /\ \A role \in Roles : \/ service'.setup[role] = DeviceOf(lists', chosen', role)
                                    \/ role = "voice" /\ service'.setup[role] = NoDevice
        /\ service'.setup.voice = NoDevice => service'.mic = "Silent"
    BY <1>1, <1>2 DEF AudioInv, OpenInv
  <2>2. \A role \in Roles : ready'.verified[role] \in {Unverified,
             <<service'.setup[role], Automatic>>, <<service'.setup[role], service'.setup.frames>>}
    BY <1>1, <1>2 DEF AudioInv, OpenInv
  <2> QED BY <2>1, <2>2 DEF OpenInv
<1> QED BY <1>1, <1>2, <1>3, <1>4 DEF AudioInv

-----------------------------------------------------------------------------
LEMMA AudioInit == Init => AudioInv
<1> SUFFICES ASSUME Init PROVE AudioInv
  OBVIOUS
<1>1. ListsSound(lists) /\ present \subseteq Devices
  BY InventorySound DEF Init
<1>2. chosen = [role \in Roles |-> chosen[role]]
  BY DEF Init, Resolved
<1>3. LadderSound(buffer)
  <2> DEFINE first == [ladder |-> << >>, at |-> 1, auto |-> 0, raised |-> FALSE]
             ladder == <<Automatic>> \o Sorted(Sizes[saved.output])
             new == Installed(first, saved.output)
  <2>1. saved.output \in Outs
    BY DEF Init, FirstSelections, Outs
  <2>2. /\ new = [ladder |-> ladder, at |-> new.at, auto |-> Preferred[saved.output],
                  raised |-> FALSE]
    BY DEF Installed, KeepsRaise
  <2> HIDE DEF new, ladder
  <2>3. buffer = [ladder |-> ladder, at |-> 1, auto |-> Preferred[saved.output], raised |-> FALSE]
    <3>1. buffer = [new EXCEPT !.at = 1]
      BY DEF Init, new
    <3>2. PICK at : new = [ladder |-> ladder, at |-> at, auto |-> Preferred[saved.output],
                           raised |-> FALSE]
      BY <2>2
    <3> QED BY <3>1, <3>2
  <2>4. Preferred[saved.output] \in Sizes[saved.output]
    BY <2>1, DevicesAssumption DEF Outs
  <2> QED BY <2>1, <2>3, <2>4 DEF LadderSound, ladder
<1>4. ReadySound(ready, lists, chosen, buffer)
  <2>1. \A role \in Roles : Fingerprint(lists, chosen, buffer, role) # Unverified
    BY DEF Fingerprint, Unverified
  <2> QED BY <2>1 DEF Init, ReadySound
<1>5. ServiceTyped /\ OpenInv /\ SeenInv
  BY DEF Init, ServiceTyped, OpenInv, SeenInv, Open, Stopped, Telemetry, Nothing
<1> QED BY <1>1, <1>2, <1>3, <1>4, <1>5 DEF AudioInv

LEMMA AudioStep == AudioInv /\ [Next]_vars => AudioInv'
<1> SUFFICES ASSUME AudioInv, [Next]_vars PROVE AudioInv'
  OBVIOUS
<1>1. CASE Chooses
  BY <1>1, ChooseSound, ChooseVoiceSound DEF Chooses
<1>2. CASE SaveSoundcheck
  BY <1>2, SaveSoundcheckSound
<1>3. CASE Retry
  BY <1>3, RetriesSound DEF Retry
<1>4. CASE RetryFires
  BY <1>4, RetriesSound DEF RetryFires
<1>5. CASE BeginSession \/ AskToJoin
  <2>1. UNCHANGED <<present, lists, chosen, buffer, ready>>
    BY <1>5 DEF BeginSession, AskToJoin
  <2>2. CASE Reopen(lists, chosen, buffer, timers)
    BY <2>1, <2>2, ReopenSound
  <2>3. CASE UNCHANGED <<service, seen>>
    BY <2>1, <2>3 DEF AudioInv, ServiceTyped, OpenInv, SeenInv, Open
  <2> QED BY <1>5, <2>2, <2>3 DEF BeginSession, AskToJoin
<1>6. CASE Admitted \/ LeaveSession
  BY <1>6, ReopenSound DEF Admitted, LeaveSession
<1>7. CASE RestartFires
  BY <1>7, ReopenSound DEF RestartFires
<1>8. CASE Poll
  BY <1>8, PollSound
<1>9. CASE ChangePreference \/ SaveFires \/ ReadsPastEnd \/ UNCHANGED vars
  <2>1. UNCHANGED <<present, lists, chosen, buffer, ready, service, seen>>
    BY <1>9 DEF ChangePreference, SaveFires, ReadsPastEnd, vars
  <2> QED BY <2>1 DEF AudioInv, ServiceTyped, OpenInv, SeenInv, Open
<1>10. ASSUME NEW d \in Devices, Unplug(d) \/ Plug(d) PROVE AudioInv'
  <2>1. present' \subseteq Devices /\ UNCHANGED <<lists, chosen, buffer, ready, service, seen>>
    BY <1>10 DEF Unplug, Plug, AudioInv
  <2> QED BY <2>1 DEF AudioInv, ServiceTyped, OpenInv, SeenInv, Open
<1>11. CASE Loses \/ Reset \/ MicLost \/ MicBack \/ Drops
  BY <1>11, ServiceSound
<1> QED BY <1>1, <1>2, <1>3, <1>4, <1>5, <1>6, <1>7, <1>8, <1>9, <1>10, <1>11 DEF Next

\* What is chosen, described, verified, open and seen agree, whatever comes
\* first and whatever is plugged or lost (app_controller.cpp).
THEOREM AudioCorrect == Spec => []AudioInv
BY AudioInit, AudioStep, PTL DEF Spec

\* The devices that run are those that are chosen, at the size that is shown
\* (setVoiceDeviceIndex(), restartAudio()).
THEOREM ChosenRuns == Spec => []RunsWhatIsChosen
<1>1. AudioInv => RunsWhatIsChosen
  BY DEF AudioInv, OpenInv, Open, RunsWhatIsChosen, Roles
<1> QED BY <1>1, AudioCorrect, PTL

\* An automatic size that was raised stays raised and is not lowered, as long
\* as the ladder is the same (considerAutomaticBufferStep(),
\* installBufferSizeOptions()).
THEOREM SizesClimb == Spec => BufferOnlyClimbs
<1> DEFINE Climbs == buffer'.ladder = buffer.ladder /\ buffer.raised
                       => buffer'.raised /\ buffer'.auto >= buffer.auto
<1>1. ASSUME AudioInv PROVE buffer.auto \in Nat
  <2>1. PICK d \in Outs : buffer.auto \in Sizes[d]
    BY <1>1 DEF AudioInv, LadderSound
  <2> QED BY <2>1, DevicesAssumption DEF Outs
<1>2. AudioInv /\ [Next]_vars => [Climbs]_vars
  <2> SUFFICES ASSUME AudioInv, Next, buffer'.ladder = buffer.ladder, buffer.raised
               PROVE  buffer'.raised /\ buffer'.auto >= buffer.auto
    OBVIOUS
  <2>1. CASE UNCHANGED buffer
    BY <2>1, <1>1
  <2>2. ASSUME NEW i, ChooseOutput(i) PROVE buffer'.raised /\ buffer'.auto >= buffer.auto
    <3>1. CASE lists.available
      <4>1. lists.outputs[i] \in Outs /\ buffer' = Installed(buffer, lists.outputs[i])
        BY <2>2, <3>1, ListedAt DEF ChooseOutput, AudioInv
      <4> QED BY <4>1, <1>1, InstalledSound DEF AudioInv
    <3>2. CASE ~lists.available
      BY <2>1, <2>2, <3>2 DEF ChooseOutput
    <3> QED BY <3>1, <3>2
  <2>3. ASSUME NEW i, ChooseSize(i) PROVE buffer'.raised /\ buffer'.auto >= buffer.auto
    BY <2>3, <1>1 DEF ChooseSize, AudioInv, LadderSound
  <2>4. ASSUME NEW t, RetriesWith(t) PROVE buffer'.raised /\ buffer'.auto >= buffer.auto
    <3>1. CASE ~lists'.available
      BY <2>1, <2>4, <3>1 DEF RetriesWith
    <3>2. CASE lists'.available
      <4> DEFINE d == DeviceOf(lists', chosen', "output")
                 installed == Installed(buffer, d)
      <4>1. d \in Outs
        BY <2>4, <3>2, FoundOutput DEF AudioInv
      <4>2. /\ LadderSound(installed)
            /\ installed.ladder = buffer.ladder /\ buffer.raised
                  => installed.raised /\ installed.auto = buffer.auto
        BY <4>1, InstalledSound DEF AudioInv
      <4>3. PICK at : buffer' = [installed EXCEPT !.at = at]
        BY <2>4, <3>2 DEF RetriesWith
      <4> HIDE DEF installed
      <4>4. /\ buffer'.ladder = installed.ladder /\ buffer'.raised = installed.raised
            /\ buffer'.auto = installed.auto
        BY <4>2, <4>3 DEF LadderSound
      <4> QED BY <4>2, <4>4, <1>1
    <3> QED BY <3>1, <3>2
  <2>5. ASSUME Poll PROVE buffer'.raised /\ buffer'.auto >= buffer.auto
    <3>1. CASE buffer' = buffer
      BY <2>1, <3>1
    <3>2. CASE buffer' # buffer
      <4>1. Larger(buffer) # {}
        BY <2>5, <3>2 DEF Poll, StepsUp
      <4>2. PICK f \in Larger(buffer) :
              f = CHOOSE x \in Larger(buffer) : \A y \in Larger(buffer) : x <= y
        BY <4>1, NextChosen DEF AudioInv
      <4>3. buffer' = [buffer EXCEPT !.auto = f, !.raised = TRUE]
        BY <2>5, <3>2, <4>2 DEF Poll
      <4>4. f > buffer.auto /\ f \in Nat
        BY NextSize DEF AudioInv
      <4>5. buffer'.raised /\ buffer'.auto = f
        BY <4>3 DEF AudioInv, LadderSound
      <4> QED BY <4>4, <4>5, <1>1
    <3> QED BY <3>1, <3>2
  <2> QED BY <2>1, <2>2, <2>3, <2>4, <2>5
        DEF Next, Chooses, ChooseInstrument, ChooseVoice, SaveSoundcheck, Retry, RetryFires,
            ChangePreference, BeginSession, AskToJoin, Admitted, LeaveSession, RestartFires,
            SaveFires, ReadsPastEnd, Unplug, Plug, Loses, Reset, MicLost, MicBack, Drops
<1>3. Spec => [][Climbs]_vars
  BY <1>2, AudioCorrect, PTL DEF Spec
<1> QED BY <1>3 DEF BufferOnlyClimbs

\* A room is begun only with the devices that were tested, each of them, at
\* the size it was tested with (hostSession(), joinSession(),
\* saveSoundcheck()).
THEOREM RoomsBeginChecked == Spec => BeginsAsChecked
<1> DEFINE Checked == session # "Asked" /\ session # "Room" /\ session' = "Room" =>
              \A role \in Roles :
                ready.verified[role] \in {<<service.setup[role], Automatic>>,
                                          <<service.setup[role], service.setup.frames>>}
<1>1. AudioInv /\ [Next]_vars => [Checked]_vars
  <2> SUFFICES ASSUME AudioInv, Next, session # "Asked", session # "Room", session' = "Room",
                      NEW role \in Roles
               PROVE  ready.verified[role] \in {<<service.setup[role], Automatic>>,
                                                <<service.setup[role], service.setup.frames>>}
    OBVIOUS
  <2>1. BeginSession
    BY DEF Next, Chooses, ChooseInstrument, ChooseVoice, ChooseOutput, ChooseSize, SaveSoundcheck,
           Retry, RetryFires, RetriesWith, ChangePreference, BeginSession, AskToJoin, Admitted,
           LeaveSession, RestartFires, Poll, SaveFires, ReadsPastEnd, Unplug, Plug, Loses, Reset,
           MicLost, MicBack, Drops
  <2>2. seen.state = "Running" /\ ready.verified = ready.prints
    BY <2>1 DEF BeginSession, MayBegin, AllReady
  <2>3. Open /\ ready.verified[role] # Unverified
    BY <2>2 DEF AudioInv, SeenInv, ReadySound
  <2> QED BY <2>3 DEF AudioInv, OpenInv
<1>2. Spec => [][Checked]_vars
  BY <1>1, AudioCorrect, PTL DEF Spec
<1> QED BY <1>2 DEF BeginsAsChecked
=============================================================================
