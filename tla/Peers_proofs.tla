------------------------------ MODULE Peers_proofs ------------------------------
(***************************************************************************)
(* What RoomChat and MeshRoster promise of the musicians in a room.        *)
(*                                                                         *)
(* RoomChat: for any musicians, any limits of the queue, the attempts, the *)
(* slots and the rates, and any number of messages, however datagrams are  *)
(* lost, repeated and late.  A text the sender is done with was shown to   *)
(* whoever was addressed.  That lasts because whoever is still owed a      *)
(* queued text is waited for at a slot of theirs that is in session, and   *)
(* because only what is remembered, and so was shown or dropped, is        *)
(* acknowledged.  What one pass makes of the queue is a recursive function; *)
(* it is reasoned about with the least number of the set of those at which *)
(* it would go wrong.                                                      *)
(*                                                                         *)
(* MeshRoster: for any musicians and places, any losses and returns.       *)
(* Nobody has two places with one person.  That lasts because a place is   *)
(* for one musician from the moment it is used: a packet that answers was  *)
(* asked of its sender with a session no other place has, and a packet     *)
(* that asks finds the place of its sender by address or by name, unless   *)
(* there is none.  A pass reaches out to several musicians and sends from  *)
(* several places: folds over finite sets, reasoned about from the empty   *)
(* set up.                                                                 *)
(***************************************************************************)
EXTENDS RoomChat, MeshRoster, FiniteSetTheorems, WellFoundedInduction, TLAPS

-----------------------------------------------------------------------------
(* RoomChat.                                                               *)

(* The types of what the queue and the musicians are about.                *)
ChatTypeOK ==
  /\ pending \in Seq(Entries)
  /\ nextId = written + 1 /\ written \in 0 .. MaxTexts
  /\ holder \in [Slots -> Musicians \union {Nobody}]
  /\ connected \in SUBSET {k \in Slots : holder[k] # Nobody}
  /\ chats \subseteq [id : Ids, text : Texts, to : Musicians]
  /\ acks \subseteq [id : Ids, from : Musicians]
  /\ remembered \in [Musicians -> SUBSET Ids] /\ recent \in [Musicians -> Nat]
  /\ shown \in [Musicians -> [Texts -> Nat]] /\ dropped \in [Musicians -> SUBSET Texts]
  /\ addressed \in [Texts -> SUBSET Musicians] /\ left \in [Texts -> SUBSET Musicians]
  /\ failed \subseteq Texts

(* The queue is in the order of writing, each text in it once.             *)
InOrder(queue) == \A i, j \in 1 .. Len(queue) : i < j => queue[i].text < queue[j].text

QueueInv ==
  /\ \A i \in 1 .. Len(pending) : /\ pending[i].id = pending[i].text
                                  /\ pending[i].text <= written
                                  /\ ~pending[i].addressed => addressed[pending[i].text] = {}
  /\ InOrder(pending)
  /\ \A t \in Texts : t > written => addressed[t] = {}

(* What was shown is remembered, and what is remembered was shown or       *)
(* dropped; nothing else is acknowledged.                                  *)
ShownInv ==
  /\ \A c \in chats : c.id = c.text
  /\ \A a \in acks : a.id \in remembered[a.from]
  /\ \A m \in Musicians : /\ \A t \in remembered[m] : Got(m, t)
                          /\ \A t \in Texts : shown[m][t] > 0 => t \in remembered[m]
  /\ ShownOnce

(* Whoever was addressed and has not got a text that is still queued is    *)
(* waited for, at a place of theirs that is in session; or has left.       *)
OwedInv ==
  \A i \in 1 .. Len(pending) : \A m \in addressed[pending[i].text] :
     \/ Got(m, pending[i].text) \/ m \in left[pending[i].text]
     \/ \E k \in pending[i].awaiting \cap connected : holder[k] = m

ChatInv == ChatTypeOK /\ QueueInv /\ ShownInv /\ OwedInv /\ DoneIsDelivered

-----------------------------------------------------------------------------
(* Every set of numbers has a least one; that is all the induction there   *)
(* is.                                                                     *)
LEMMA Least ==
  ASSUME NEW T \in SUBSET Nat, T # {}
  PROVE  \E n \in T : \A m \in T : n <= m
<1> DEFINE R == OpToRel(<, Nat)
<1>1. IsWellFoundedOn(R, Nat)
  BY NatLessThanWellFounded
<1>2. \A x, y \in Nat : x < y => <<x, y>> \in R
  BY DEF OpToRel
<1>3. T \subseteq Nat /\ \A n \in T : n \in Nat
  OBVIOUS
<1> HIDE DEF R
<1>4. PICK x \in T : \A y \in T : ~(<<y, x>> \in R)
  BY <1>1, <1>3, WFMin
<1>5. SUFFICES ASSUME NEW m \in T PROVE x <= m
  OBVIOUS
<1>6. ~(m < x)
  BY <1>2, <1>3, <1>4
<1> QED BY <1>3, <1>6

Begun == [kept |-> << >>, sent |-> 0, chats |-> {}, failed |-> {}]
After(done, i, present, due) == Serviced(done, pending[i], present, pending[i].id \in due)

(* There is such a function as Service speaks of.                          *)
LEMMA ServicedOneByOne ==
  ASSUME NEW present, NEW due, NEW S, pending \in Seq(S)
  PROVE  \E f : /\ f = [i \in 0 .. Len(pending) |->
                          IF i = 0 THEN Begun ELSE After(f[i - 1], i, present, due)]
                /\ Service(present, due) = f[Len(pending)]
<1> DEFINE Body(f, n) == [i \in 0 .. n |-> IF i = 0 THEN Begun
                                           ELSE After(f[i - 1], i, present, due)]
           T == {n \in Nat : ~\E f : f = Body(f, n)}
<1>1. T = {}
  <2>1. SUFFICES ASSUME T # {} PROVE FALSE
    OBVIOUS
  <2>2. PICK n \in T : \A m \in T : n <= m
    BY <2>1, Least
  <2>3. n # 0
    <3>1. [i \in 0 .. 0 |-> Begun] = Body([i \in 0 .. 0 |-> Begun], 0)
      OBVIOUS
    <3> QED BY <3>1
  <2>4. n - 1 \in Nat /\ n - 1 \notin T
    <3>1. n \in Nat
      OBVIOUS
    <3> HIDE DEF T
    <3> QED BY <3>1, <2>2, <2>3
  <2>5. PICK f : f = Body(f, n - 1)
    BY <2>4
  <2> DEFINE g == [i \in 0 .. n |-> IF i = n THEN After(f[n - 1], n, present, due) ELSE f[i]]
  <2>6. ASSUME NEW i \in 0 .. n
        PROVE  g[i] = IF i = 0 THEN Begun ELSE After(g[i - 1], i, present, due)
    <3>1. CASE i = n
      <4>1. g[i] = After(f[n - 1], n, present, due) /\ g[n - 1] = f[n - 1] /\ i # 0
        BY <2>3, <2>4, <3>1
      <4> QED BY <4>1, <3>1
    <3>2. CASE i # n
      <4>1. i \in 0 .. n - 1 /\ g[i] = f[i]
        BY <3>2, <2>4
      <4>2. f[i] = IF i = 0 THEN Begun ELSE After(f[i - 1], i, present, due)
        BY <4>1, <2>5
      <4>3. i # 0 => g[i - 1] = f[i - 1]
        BY <4>1, <3>2, <2>4
      <4> QED BY <4>1, <4>2, <4>3
    <3> QED BY <3>1, <3>2
  <2>7. g = Body(g, n)
    <3>1. Body(g, n) = [i \in 0 .. n |-> g[i]]
      BY <2>6
    <3> QED BY <3>1
  <2> QED BY <2>7, <2>2
<1> DEFINE done[i \in 0 .. Len(pending)] ==
             IF i = 0 THEN [kept |-> << >>, sent |-> 0, chats |-> {}, failed |-> {}]
             ELSE Serviced(done[i - 1], pending[i], present, pending[i].id \in due)
<1>2. done = Body(done, Len(pending))
  <2>1. \E f : f = Body(f, Len(pending))
    BY <1>1
  <2> QED BY <2>1 DEF Begun, After
<1>3. Service(present, due) = done[Len(pending)]
  BY DEF Service
<1> HIDE DEF done
<1> QED BY <1>2, <1>3

-----------------------------------------------------------------------------
(* What a pass makes of an entry: nothing, or it is addressed to those of  *)
(* its musicians who are present.                                          *)
Made(new, old, present) ==
  /\ new.id = old.id /\ new.text = old.text
  /\ new = old \/ (new.addressed /\ new.awaiting = Awaiting(old, present))

(* What a pass has made of the first n messages.                           *)
Pieces(done) == done = [kept |-> done.kept, sent |-> done.sent, chats |-> done.chats,
                        failed |-> done.failed]

SoFar(done, n, present) ==
  /\ Pieces(done)
  /\ done.kept \in Seq(Entries) /\ done.failed \subseteq Texts
  /\ InOrder(done.kept) /\ Len(done.kept) <= n
  /\ \A c \in done.chats : \E j \in 1 .. n, k \in present :
        c = [id |-> pending[j].id, text |-> pending[j].text, to |-> holder[k]]
  /\ \A x \in 1 .. Len(done.kept) : \E j \in 1 .. n : Made(done.kept[x], pending[j], present)
  /\ \A j \in 1 .. n : \/ \E x \in 1 .. Len(done.kept) : done.kept[x].text = pending[j].text
                       \/ pending[j].text \in done.failed
                       \/ Awaiting(pending[j], present) = {}

LEMMA KeptOne ==
  ASSUME pending \in Seq(Entries), InOrder(pending), NEW present, NEW n \in Nat,
         n + 1 \in 1 .. Len(pending), NEW d, SoFar(d, n, present), NEW u, Pieces(u),
         NEW e \in Entries, Made(e, pending[n + 1], present),
         u.kept = Append(d.kept, e), u.failed = d.failed,
         \A c \in u.chats : c \in d.chats \/ \E k \in present :
            c = [id |-> pending[n + 1].id, text |-> pending[n + 1].text, to |-> holder[k]]
  PROVE  SoFar(u, n + 1, present)
<1>1. d.kept \in Seq(Entries) /\ Len(d.kept) \in Nat
  BY DEF SoFar
<1>2. /\ u.kept \in Seq(Entries) /\ Len(u.kept) = Len(d.kept) + 1
      /\ u.kept[Len(d.kept) + 1] = e
      /\ \A x \in 1 .. Len(d.kept) : u.kept[x] = d.kept[x]
  BY <1>1
<1>3. ASSUME NEW x \in 1 .. Len(d.kept) PROVE d.kept[x].text < e.text
  <2>1. PICK j \in 1 .. n : Made(d.kept[x], pending[j], present)
    BY DEF SoFar
  <2>2. pending[j].text < pending[n + 1].text
    BY DEF InOrder
  <2> QED BY <2>1, <2>2 DEF Made
<1>4. InOrder(u.kept)
  <2> SUFFICES ASSUME NEW x \in 1 .. Len(u.kept), NEW y \in 1 .. Len(u.kept), x < y
               PROVE  u.kept[x].text < u.kept[y].text
    BY DEF InOrder
  <2>1. CASE y = Len(d.kept) + 1
    BY <2>1, <1>1, <1>2, <1>3
  <2>2. CASE y # Len(d.kept) + 1
    <3>1. x \in 1 .. Len(d.kept) /\ y \in 1 .. Len(d.kept)
      BY <2>2, <1>1, <1>2
    <3> QED BY <3>1, <1>2 DEF SoFar, InOrder
  <2> QED BY <2>1, <2>2
<1>5. ASSUME NEW c \in u.chats
      PROVE  \E j \in 1 .. n + 1, k \in present :
                c = [id |-> pending[j].id, text |-> pending[j].text, to |-> holder[k]]
  <2>1. CASE c \in d.chats
    <3>1. PICK j \in 1 .. n, k \in present :
             c = [id |-> pending[j].id, text |-> pending[j].text, to |-> holder[k]]
      BY <2>1 DEF SoFar
    <3>2. j \in 1 .. n + 1
      OBVIOUS
    <3> QED BY <3>1, <3>2
  <2> QED BY <2>1
<1>6. \A x \in 1 .. Len(u.kept) : \E j \in 1 .. n + 1 : Made(u.kept[x], pending[j], present)
  <2> SUFFICES ASSUME NEW x \in 1 .. Len(u.kept)
               PROVE  \E j \in 1 .. n + 1 : Made(u.kept[x], pending[j], present)
    OBVIOUS
  <2>1. CASE x = Len(d.kept) + 1
    BY <2>1, <1>2
  <2>2. CASE x # Len(d.kept) + 1
    <3>1. x \in 1 .. Len(d.kept) /\ u.kept[x] = d.kept[x]
      BY <2>2, <1>1, <1>2
    <3>2. PICK j \in 1 .. n : Made(d.kept[x], pending[j], present)
      BY <3>1 DEF SoFar
    <3> QED BY <3>1, <3>2
  <2> QED BY <2>1, <2>2
<1>7. ASSUME NEW j \in 1 .. n + 1
      PROVE  \/ \E x \in 1 .. Len(u.kept) : u.kept[x].text = pending[j].text
             \/ pending[j].text \in u.failed
             \/ Awaiting(pending[j], present) = {}
  <2>1. CASE j = n + 1
    <3>1. Len(d.kept) + 1 \in 1 .. Len(u.kept) /\ u.kept[Len(d.kept) + 1].text = pending[j].text
      BY <2>1, <1>1, <1>2 DEF Made
    <3> QED BY <3>1
  <2>2. CASE j \in 1 .. n
    <3>1. 1 .. Len(d.kept) \subseteq 1 .. Len(u.kept)
      BY <1>1, <1>2
    <3> QED BY <2>2, <3>1, <1>2 DEF SoFar
  <2> QED BY <2>1, <2>2
<1>8. Len(u.kept) <= n + 1
  BY <1>1, <1>2 DEF SoFar
<1> QED BY <1>2, <1>4, <1>5, <1>6, <1>7, <1>8 DEF SoFar

LEMMA KeptNone ==
  ASSUME pending \in Seq(Entries), NEW present, NEW n \in Nat,
         n + 1 \in 1 .. Len(pending), NEW d, SoFar(d, n, present), NEW u, Pieces(u),
         u.kept = d.kept, u.chats = d.chats, d.failed \subseteq u.failed, u.failed \subseteq Texts,
         Awaiting(pending[n + 1], present) = {} \/ pending[n + 1].text \in u.failed
  PROVE  SoFar(u, n + 1, present)
<1>1. 1 .. n \subseteq 1 .. n + 1
  OBVIOUS
<1>2. ASSUME NEW c \in u.chats
      PROVE  \E j \in 1 .. n + 1, k \in present :
                c = [id |-> pending[j].id, text |-> pending[j].text, to |-> holder[k]]
  <2>1. PICK j \in 1 .. n, k \in present :
             c = [id |-> pending[j].id, text |-> pending[j].text, to |-> holder[k]]
    BY DEF SoFar
  <2> QED BY <1>1, <2>1
<1>3. ASSUME NEW x \in 1 .. Len(u.kept)
      PROVE  \E j \in 1 .. n + 1 : Made(u.kept[x], pending[j], present)
  <2>1. PICK j \in 1 .. n : Made(d.kept[x], pending[j], present)
    BY DEF SoFar
  <2> QED BY <1>1, <2>1
<1>4. ASSUME NEW j \in 1 .. n + 1
      PROVE  \/ \E x \in 1 .. Len(u.kept) : u.kept[x].text = pending[j].text
             \/ pending[j].text \in u.failed
             \/ Awaiting(pending[j], present) = {}
  <2>1. CASE j = n + 1
    BY <2>1
  <2>2. CASE j \in 1 .. n
    <3>1. \/ \E x \in 1 .. Len(d.kept) : d.kept[x].text = pending[j].text
          \/ pending[j].text \in d.failed
          \/ Awaiting(pending[j], present) = {}
      BY <2>2 DEF SoFar
    <3> QED BY <3>1
  <2> QED BY <2>1, <2>2
<1>5. u.kept \in Seq(Entries) /\ InOrder(u.kept) /\ Len(u.kept) <= n + 1
  <2>1. Len(d.kept) \in Nat /\ Len(d.kept) <= n
    BY DEF SoFar
  <2> QED BY <2>1 DEF SoFar
<1> QED BY <1>2, <1>3, <1>4, <1>5 DEF SoFar

LEMMA EntryTyped ==
  ASSUME NEW queue \in Seq(Entries), NEW i \in 1 .. Len(queue)
  PROVE  /\ queue[i] \in Entries /\ queue[i].text \in Texts /\ queue[i].id \in Ids
         /\ queue[i].text \in Int /\ queue[i].attempts \in 0 .. MaxAttempts
         /\ queue[i].awaiting \in SUBSET Slots
<1>1. queue[i] \in Entries
  OBVIOUS
<1> QED BY <1>1 DEF Entries, Texts

LEMMA ServicedStep ==
  ASSUME pending \in Seq(Entries), InOrder(pending), NEW present \in SUBSET Slots, NEW due,
         NEW n \in Nat, n + 1 \in 1 .. Len(pending), NEW d, SoFar(d, n, present),
         \A i \in 1 .. Len(pending) : pending[i].attempts \in 0 .. MaxAttempts
  PROVE  SoFar(After(d, n + 1, present, due), n + 1, present)
<1> DEFINE entry == pending[n + 1]
           u == After(d, n + 1, present, due)
           awaiting == Awaiting(entry, present)
           waits == entry.attempts > 0 /\ ~(entry.id \in due)
           now == [entry EXCEPT !.addressed = TRUE, !.awaiting = awaiting]
<1>1. entry \in Entries /\ Pieces(d)
  BY DEF SoFar
<1>2. awaiting \in SUBSET Slots
  BY DEF Awaiting
<1>3. /\ now \in Entries /\ now.id = entry.id /\ now.text = entry.text /\ now.addressed
      /\ now.awaiting = awaiting /\ now.attempts = entry.attempts
  BY <1>1, <1>2 DEF Entries
<1>4. Made(entry, entry, present) /\ Made(now, entry, present)
  BY <1>3 DEF Made
<1> HIDE DEF now, awaiting
<1>5. u = IF d.sent = PerPass THEN [d EXCEPT !.kept = Append(d.kept, entry)]
          ELSE IF awaiting = {} THEN d
          ELSE IF waits THEN [d EXCEPT !.kept = Append(d.kept, now)]
          ELSE IF entry.attempts = MaxAttempts THEN [d EXCEPT !.failed = d.failed \union {entry.text}]
          ELSE [d EXCEPT !.sent = d.sent + 1,
                         !.kept = Append(d.kept, [now EXCEPT !.attempts = now.attempts + 1]),
                         !.chats = d.chats \union {[id |-> entry.id, text |-> entry.text,
                                              to |-> holder[k]] : k \in awaiting}]
  BY DEF After, Serviced, now, awaiting
<1> HIDE DEF u
<1>6. CASE d.sent = PerPass
  <2>1. u = [kept |-> Append(d.kept, entry), sent |-> d.sent, chats |-> d.chats, failed |-> d.failed]
    BY <1>6, <1>5, <1>1 DEF Pieces
  <2>2. Pieces(u) /\ u.kept = Append(d.kept, entry) /\ u.chats = d.chats /\ u.failed = d.failed
    BY <2>1 DEF Pieces
  <2> QED BY <2>2, <1>1, <1>4, KeptOne DEF u
<1>7. CASE d.sent # PerPass /\ awaiting = {}
  <2>1. u = d
    BY <1>5, <1>7
  <2>2. d.failed \subseteq Texts
    BY DEF SoFar
  <2> QED BY <2>1, <2>2, <1>1, <1>7, KeptNone DEF u, awaiting
<1>8. CASE d.sent # PerPass /\ awaiting # {} /\ waits
  <2>1. u = [kept |-> Append(d.kept, now), sent |-> d.sent, chats |-> d.chats, failed |-> d.failed]
    BY <1>8, <1>5, <1>1 DEF Pieces
  <2>2. Pieces(u) /\ u.kept = Append(d.kept, now) /\ u.chats = d.chats /\ u.failed = d.failed
    BY <2>1 DEF Pieces
  <2> QED BY <2>2, <1>3, <1>4, KeptOne DEF u
<1>9. CASE d.sent # PerPass /\ awaiting # {} /\ ~waits /\ entry.attempts = MaxAttempts
  <2>1. u = [kept |-> d.kept, sent |-> d.sent, chats |-> d.chats, failed |-> d.failed \union {entry.text}]
    BY <1>9, <1>5, <1>1 DEF Pieces
  <2>2. Pieces(u) /\ u.kept = d.kept /\ u.chats = d.chats /\ u.failed = d.failed \union {entry.text}
    BY <2>1 DEF Pieces
  <2>3. entry.text \in Texts /\ d.failed \subseteq Texts
    BY <1>1 DEF Entries, SoFar
  <2> QED BY <2>2, <2>3, KeptNone DEF u
<1>10. CASE d.sent # PerPass /\ awaiting # {} /\ ~waits /\ entry.attempts # MaxAttempts
  <2> DEFINE e == [now EXCEPT !.attempts = now.attempts + 1]
             more == {[id |-> entry.id, text |-> entry.text, to |-> holder[k]] : k \in awaiting}
  <2>1. /\ e \in Entries /\ e.id = now.id /\ e.text = now.text /\ e.addressed = now.addressed
        /\ e.awaiting = now.awaiting
    <3>1. now.attempts + 1 \in 0 .. MaxAttempts
      BY <1>3, <1>10, BoundAssumption
    <3> QED BY <3>1, <1>3 DEF Entries
  <2>2. Made(e, entry, present)
    BY <2>1, <1>3 DEF Made, awaiting
  <2> HIDE DEF e
  <2>3. u = [kept |-> Append(d.kept, e), sent |-> d.sent + 1, chats |-> d.chats \union more,
             failed |-> d.failed]
    BY <1>10, <1>5, <1>1 DEF Pieces, e
  <2>4. Pieces(u) /\ u.kept = Append(d.kept, e) /\ u.chats = d.chats \union more /\ u.failed = d.failed
    BY <2>3 DEF Pieces
  <2>5. awaiting \subseteq present
    BY DEF awaiting, Awaiting
  <2>6. \A c \in u.chats : c \in d.chats \/ \E k \in present :
            c = [id |-> entry.id, text |-> entry.text, to |-> holder[k]]
    BY <2>4, <2>5
  <2> QED BY <2>1, <2>2, <2>4, <2>6, KeptOne DEF u
<1> QED BY <1>6, <1>7, <1>8, <1>9, <1>10

LEMMA ServiceMakes ==
  ASSUME pending \in Seq(Entries), InOrder(pending), NEW present \in SUBSET Slots, NEW due
  PROVE  SoFar(Service(present, due), Len(pending), present)
<1>1. PICK f : /\ f = [i \in 0 .. Len(pending) |->
                          IF i = 0 THEN Begun ELSE After(f[i - 1], i, present, due)]
               /\ Service(present, due) = f[Len(pending)]
  BY ServicedOneByOne
<1> DEFINE T == {i \in 0 .. Len(pending) : ~SoFar(f[i], i, present)}
<1>2. T = {}
  <2>1. SUFFICES ASSUME T # {} PROVE FALSE
    OBVIOUS
  <2>2. PICK n \in T : \A m \in T : n <= m
    <3>1. T \in SUBSET Nat
      OBVIOUS
    <3> QED BY <2>1, <3>1, Least
  <2>3. n \in 0 .. Len(pending) /\ ~SoFar(f[n], n, present)
    OBVIOUS
  <2>4. CASE n = 0
    <3>1. f[0] = Begun
      BY <1>1
    <3>2. << >> \in Seq(Entries) /\ Len(<< >>) = 0
      OBVIOUS
    <3>3. /\ Pieces(Begun) /\ Begun.kept = << >> /\ Begun.chats = {} /\ Begun.failed = {}
      BY DEF Begun, Pieces
    <3>4. SoFar(Begun, 0, present)
      BY <3>2, <3>3 DEF SoFar, InOrder
    <3> QED BY <2>3, <2>4, <3>1, <3>4
  <2>5. CASE n # 0
    <3>1. n - 1 \in Nat /\ n - 1 \in 0 .. Len(pending) /\ (n - 1) + 1 = n /\ n \in 1 .. Len(pending)
      BY <2>3, <2>5
    <3>2. SoFar(f[n - 1], n - 1, present)
      <4>1. n - 1 \in T => n <= n - 1
        BY <2>2
      <4> QED BY <3>1, <4>1
    <3>3. f[n] = After(f[n - 1], n, present, due)
      BY <1>1, <3>1
    <3>4. \A i \in 1 .. Len(pending) : pending[i].attempts \in 0 .. MaxAttempts
      BY EntryTyped
    <3> HIDE DEF T
    <3>5. SoFar(After(f[n - 1], (n - 1) + 1, present, due), (n - 1) + 1, present)
      BY <3>1, <3>2, <3>4, ServicedStep
    <3> QED BY <2>3, <3>1, <3>3, <3>5
  <2> QED BY <2>4, <2>5
<1>3. SoFar(f[Len(pending)], Len(pending), present)
  <2>1. Len(pending) \in 0 .. Len(pending)
    OBVIOUS
  <2> QED BY <1>2, <2>1
<1> QED BY <1>1, <1>3

-----------------------------------------------------------------------------
(* Texts are queued once: an entry is told by its text.                    *)
LEMMA OncePerText ==
  ASSUME NEW queue \in Seq(Entries), InOrder(queue),
         NEW i \in 1 .. Len(queue), NEW j \in 1 .. Len(queue), queue[i].text = queue[j].text
  PROVE  i = j
<1>1. queue[i].text \in Int /\ queue[j].text \in Int
  BY EntryTyped
<1>2. ~(i < j) /\ ~(j < i)
  BY <1>1 DEF InOrder
<1> QED BY <1>2

LEMMA QueuedIs ==
  ASSUME NEW t, pending \in Seq(Entries)
  PROVE  Queued(t) <=> \E i \in 1 .. Len(pending) : pending[i].text = t
BY DEF Queued

LEMMA NextPassKeeps ==
  ASSUME ChatInv, NEW silent \in SUBSET connected, NEW due, NextPass(silent, due)
  PROVE  ChatInv'
<1> DEFINE present == connected \ silent
           done == Service(present, due)
           gone == {holder[k] : k \in silent}
<1>1. /\ connected' = present
      /\ IF present = {}
         THEN UNCHANGED <<pending, chats, failed, addressed>>
         ELSE /\ pending' = done.kept
              /\ chats' = chats \union done.chats
              /\ failed' = failed \union done.failed
              /\ addressed' = [t \in Texts |-> IF NewlyAddressed(done.kept, t)
                                               THEN {holder[k] : k \in present}
                                               ELSE addressed[t]]
      /\ left' = [t \in Texts |-> left[t] \union (gone \cap addressed[t])]
      /\ UNCHANGED <<nextId, holder, remembered, recent, shown, dropped, acks, written>>
  BY DEF NextPass, musicians, bounds
<1>2. ChatTypeOK /\ QueueInv /\ ShownInv /\ OwedInv /\ DoneIsDelivered
  BY DEF ChatInv
<1>3. /\ present \in SUBSET Slots /\ \A k \in connected : holder[k] \in Musicians
      /\ pending \in Seq(Entries) /\ InOrder(pending)
  BY <1>2 DEF ChatTypeOK, QueueInv, Slots
<1>4. SoFar(done, Len(pending), present)
  BY <1>3, ServiceMakes
<1> HIDE DEF done
<1>5. /\ left' \in [Texts -> SUBSET Musicians]
      /\ \A t \in Texts : left[t] \subseteq left'[t]
      /\ \A t \in Texts : \A k \in connected :
            holder[k] \in addressed[t] => k \in present \/ holder[k] \in left'[t]
  BY <1>1, <1>2 DEF ChatTypeOK
<1> HIDE DEF gone
<1>6. \A m, t : Got(m, t)' <=> Got(m, t)
  BY <1>1 DEF Got
<1>7. CASE present = {}
  <2>1. UNCHANGED <<pending, chats, failed, addressed, nextId, holder, remembered, recent, shown,
                    dropped, acks, written>>
    BY <1>1, <1>7
  <2>2. ChatTypeOK'
    BY <2>1, <1>1, <1>2, <1>5 DEF ChatTypeOK
  <2>3. QueueInv' /\ ShownInv'
    BY <2>1, <1>2 DEF QueueInv, ShownInv, ShownOnce, Got
  <2>4. \A t \in Texts : addressed'[t] = addressed[t]
    BY <2>1
  <2>5. OwedInv'
    <3> SUFFICES ASSUME NEW i \in 1 .. Len(pending), NEW m \in addressed[pending[i].text]
                 PROVE  Got(m, pending[i].text) \/ m \in left'[pending[i].text]
      BY <2>1, <1>6 DEF OwedInv
    <3>1. pending[i].text \in Texts
      BY <1>3, EntryTyped
    <3> QED BY <3>1, <1>2, <1>5, <1>7 DEF OwedInv
  <2>6. DoneIsDelivered'
    BY <2>1, <1>2, <1>5, <1>6 DEF DoneIsDelivered, Queued
  <2> QED BY <2>2, <2>3, <2>5, <2>6 DEF ChatInv
<1>8. CASE present # {}
  <2>1. /\ pending' = done.kept /\ chats' = chats \union done.chats
        /\ failed' = failed \union done.failed
        /\ addressed' = [t \in Texts |-> IF NewlyAddressed(done.kept, t)
                                         THEN {holder[k] : k \in present}
                                         ELSE addressed[t]]
    BY <1>1, <1>8
  <2>2. /\ pending' \in Seq(Entries) /\ InOrder(pending') /\ done.failed \subseteq Texts
        /\ \A c \in done.chats : \E j \in 1 .. Len(pending), k \in present :
              c = [id |-> pending[j].id, text |-> pending[j].text, to |-> holder[k]]
        /\ \A x \in 1 .. Len(pending') : \E j \in 1 .. Len(pending) :
              Made(pending'[x], pending[j], present)
        /\ \A j \in 1 .. Len(pending) :
              \/ \E x \in 1 .. Len(pending') : pending'[x].text = pending[j].text
              \/ pending[j].text \in done.failed
              \/ Awaiting(pending[j], present) = {}
    BY <1>4, <2>1 DEF SoFar
  <2>3. \A j \in 1 .. Len(pending) : pending[j].text \in Texts /\ pending[j] \in Entries
    BY <1>3, EntryTyped
  <2>4. \A c \in done.chats : c \in [id : Ids, text : Texts, to : Musicians] /\ c.id = c.text
    <3> SUFFICES ASSUME NEW c \in done.chats
                 PROVE  c \in [id : Ids, text : Texts, to : Musicians] /\ c.id = c.text
      OBVIOUS
    <3>1. PICK j \in 1 .. Len(pending), k \in present :
             c = [id |-> pending[j].id, text |-> pending[j].text, to |-> holder[k]]
      BY <2>2
    <3>2. /\ pending[j].id \in Ids /\ pending[j].text \in Texts /\ holder[k] \in Musicians
          /\ pending[j].id = pending[j].text
      BY <2>3, <1>2, <1>3 DEF Entries, QueueInv
    <3> QED BY <3>1, <3>2
  <2>5. addressed' \in [Texts -> SUBSET Musicians]
    BY <2>1, <1>2, <1>3 DEF ChatTypeOK
  <2>6. ChatTypeOK'
    <3>1. connected' \in SUBSET {k \in Slots : holder'[k] # Nobody}
      BY <1>1, <1>2 DEF ChatTypeOK
    <3>2. chats' \subseteq [id : Ids, text : Texts, to : Musicians] /\ failed' \subseteq Texts
      BY <2>1, <2>2, <2>4, <1>2 DEF ChatTypeOK
    <3> QED BY <3>1, <3>2, <2>2, <2>5, <1>1, <1>2, <1>5 DEF ChatTypeOK
  \* Which texts are newly addressed, and to whom.
  <2>7. \A t : NewlyAddressed(done.kept, t) <=>
           \E x \in 1 .. Len(pending'), j \in 1 .. Len(pending) :
              /\ pending'[x].text = t /\ pending[j].text = t
              /\ pending'[x].addressed /\ ~pending[j].addressed
    <3>1. DOMAIN done.kept = 1 .. Len(pending') /\ DOMAIN pending = 1 .. Len(pending)
      BY <2>1, <2>2, <1>3
    <3> QED BY <3>1, <2>1 DEF NewlyAddressed
  <2>8. ASSUME NEW x \in 1 .. Len(pending'), NEW j \in 1 .. Len(pending),
               Made(pending'[x], pending[j], present)
        PROVE  /\ pending'[x].text = pending[j].text /\ pending[j].text \in Texts
               /\ NewlyAddressed(done.kept, pending[j].text) <=>
                     pending'[x].addressed /\ ~pending[j].addressed
    <3>1. pending'[x].text = pending[j].text
      BY <2>8 DEF Made
    <3>2. \A y \in 1 .. Len(pending') : pending'[y].text = pending[j].text => y = x
      BY <3>1, <2>2, OncePerText
    <3>3. \A i \in 1 .. Len(pending) : pending[i].text = pending[j].text => i = j
      BY <1>3, OncePerText
    <3> QED BY <3>1, <3>2, <3>3, <2>3, <2>7
  <2>9. QueueInv'
    <3>1. ASSUME NEW x \in 1 .. Len(pending')
          PROVE  /\ pending'[x].id = pending'[x].text /\ pending'[x].text <= written'
                 /\ ~pending'[x].addressed => addressed'[pending'[x].text] = {}
      <4>1. PICK j \in 1 .. Len(pending) : Made(pending'[x], pending[j], present)
        BY <2>2
      <4>2. /\ pending[j].id = pending[j].text /\ pending[j].text <= written
            /\ ~pending[j].addressed => addressed[pending[j].text] = {}
        BY <1>2 DEF QueueInv
      <4>3. pending'[x].id = pending[j].id /\ pending'[x].text = pending[j].text
        BY <4>1 DEF Made
      <4>4. ASSUME ~pending'[x].addressed PROVE addressed'[pending'[x].text] = {}
        <5>1. pending'[x] = pending[j]
          BY <4>1, <4>4 DEF Made
        <5>2. ~NewlyAddressed(done.kept, pending[j].text) /\ pending[j].text \in Texts
          BY <4>1, <4>4, <2>8
        <5>3. addressed'[pending[j].text] = addressed[pending[j].text]
          BY <5>2, <2>1
        <5> QED BY <5>1, <5>3, <4>2, <4>3, <4>4
      <4> QED BY <4>2, <4>3, <4>4, <1>1
    <3>2. ASSUME NEW t \in Texts, t > written' PROVE addressed'[t] = {}
      <4>1. ~NewlyAddressed(done.kept, t)
        <5> SUFFICES ASSUME NEW j \in 1 .. Len(pending), pending[j].text = t PROVE FALSE
          BY <2>7
        <5>1. t \in Nat /\ written \in Nat /\ written' = written /\ t <= written
          BY <1>1, <1>2 DEF QueueInv, ChatTypeOK, Texts
        <5> QED BY <5>1, <3>2
      <4>2. addressed'[t] = addressed[t] /\ written' = written
        BY <4>1, <2>1, <1>1
      <4> QED BY <4>2, <3>2, <1>2 DEF QueueInv
    <3> QED BY <3>1, <3>2, <2>2 DEF QueueInv
  <2>10. ShownInv'
    <3>1. \A c \in chats' : c.id = c.text
      BY <2>1, <2>4, <1>2 DEF ShownInv
    <3> QED BY <3>1, <1>1, <1>2 DEF ShownInv, ShownOnce, Got
  <2>11. OwedInv'
    <3> SUFFICES ASSUME NEW x \in 1 .. Len(pending'), NEW m \in addressed'[pending'[x].text]
                 PROVE  \/ Got(m, pending'[x].text) \/ m \in left'[pending'[x].text]
                        \/ \E k \in pending'[x].awaiting \cap present : holder[k] = m
      BY <1>1, <1>6 DEF OwedInv
    <3>1. PICK j \in 1 .. Len(pending) : Made(pending'[x], pending[j], present)
      BY <2>2
    <3> DEFINE t == pending[j].text
    <3>2. /\ pending'[x].text = t /\ t \in Texts
          /\ NewlyAddressed(done.kept, t) <=> pending'[x].addressed /\ ~pending[j].addressed
      BY <3>1, <2>8
    <3>3. CASE NewlyAddressed(done.kept, t)
      <4>1. addressed'[t] = {holder[k] : k \in present}
        BY <3>2, <3>3, <2>1
      <4>2. pending'[x].awaiting = present
        BY <3>1, <3>2, <3>3 DEF Made, Awaiting
      <4> QED BY <4>1, <4>2, <3>2
    <3>4. CASE ~NewlyAddressed(done.kept, t)
      <4>1. m \in addressed[t]
        BY <3>2, <3>4, <2>1
      <4>2. pending[j].awaiting \cap present \subseteq pending'[x].awaiting
        BY <3>1, <3>2, <3>4 DEF Made, Awaiting
      <4>3. \/ Got(m, t) \/ m \in left[t]
            \/ \E k \in pending[j].awaiting \cap connected : holder[k] = m
        BY <4>1, <1>2 DEF OwedInv
      <4> QED BY <4>1, <4>2, <4>3, <3>2, <1>5
    <3> QED BY <3>3, <3>4
  <2>12. DoneIsDelivered'
    <3> SUFFICES ASSUME NEW t \in Texts, t <= written, ~Queued(t)', t \notin failed',
                        NEW m \in addressed'[t]
                 PROVE  Got(m, t) \/ m \in left'[t]
      BY <1>1, <1>6 DEF DoneIsDelivered
    <3>1. \A x \in 1 .. Len(pending') : pending'[x].text # t
      BY <2>2 DEF Queued
    <3>2. addressed'[t] = addressed[t]
      BY <3>1, <2>1, <2>7
    <3>3. CASE ~Queued(t)
      <4>1. t \notin failed
        BY <2>1
      <4> QED BY <4>1, <3>2, <3>3, <1>2, <1>5 DEF DoneIsDelivered
    <3>4. CASE Queued(t)
      <4>1. PICK j \in 1 .. Len(pending) : pending[j].text = t
        BY <3>4, <1>3 DEF Queued
      <4>2. Awaiting(pending[j], present) = {}
        BY <4>1, <3>1, <2>1, <2>2
      <4>3. pending[j].awaiting \cap present = {}
        BY <4>2, <1>8 DEF Awaiting
      <4>4. \/ Got(m, t) \/ m \in left[t]
            \/ \E k \in pending[j].awaiting \cap connected : holder[k] = m
        BY <4>1, <3>2, <1>2 DEF OwedInv
      <4> QED BY <4>3, <4>4, <3>2, <1>5
    <3> QED BY <3>3, <3>4
  <2> QED BY <2>6, <2>9, <2>10, <2>11, <2>12 DEF ChatInv
<1> QED BY <1>7, <1>8

LEMMA SendChatMessageKeeps ==
  ASSUME ChatInv, SendChatMessage
  PROVE  ChatInv'
<1> DEFINE t0 == written + 1
           e == [id |-> nextId, text |-> t0, attempts |-> 0, awaiting |-> {}, addressed |-> FALSE]
<1>1. /\ written < MaxTexts /\ written' = t0 /\ pending' = Append(pending, e)
      /\ nextId' = nextId + 1
      /\ UNCHANGED <<holder, connected, remembered, recent, shown, dropped, addressed, left, failed,
                     chats, acks>>
  BY DEF SendChatMessage, musicians, history
<1>2. ChatTypeOK /\ QueueInv /\ ShownInv /\ OwedInv /\ DoneIsDelivered
  BY DEF ChatInv
<1>3. written \in Nat /\ MaxTexts \in Nat /\ t0 \in Texts /\ nextId = t0
      /\ \A t \in Texts : t \in Nat
  BY <1>1, <1>2, BoundAssumption DEF ChatTypeOK, Texts
<1>4. e \in Entries /\ e.id = t0 /\ e.text = t0 /\ ~e.addressed
  BY <1>3, BoundAssumption DEF Entries, Ids, Texts
<1> HIDE DEF e
<1>5. pending \in Seq(Entries)
  BY <1>2 DEF ChatTypeOK
<1>6. /\ pending' \in Seq(Entries) /\ Len(pending') = Len(pending) + 1
      /\ pending'[Len(pending) + 1] = e
      /\ \A i \in 1 .. Len(pending) : pending'[i] = pending[i]
      /\ Len(pending) \in Nat
  BY <1>1, <1>4, <1>5
<1>7. \A m, t : Got(m, t)' <=> Got(m, t)
  BY <1>1 DEF Got
<1>8. ChatTypeOK'
  <2>1. nextId' = written' + 1 /\ written' \in 0 .. MaxTexts
    BY <1>1, <1>3
  <2>2. pending' \in Seq(Entries)
    BY <1>6
  <2> QED BY <2>1, <2>2, <1>1, <1>2 DEF ChatTypeOK
<1>9. QueueInv'
  <2>1. ASSUME NEW i \in 1 .. Len(pending')
        PROVE  /\ pending'[i].id = pending'[i].text /\ pending'[i].text <= written'
               /\ ~pending'[i].addressed => addressed'[pending'[i].text] = {}
    <3>1. CASE i \in 1 .. Len(pending)
      <4>1. /\ pending[i].id = pending[i].text /\ pending[i].text <= written
            /\ ~pending[i].addressed => addressed[pending[i].text] = {}
        BY <3>1, <1>2 DEF QueueInv
      <4>2. pending[i].text \in Int
        BY <3>1, <1>5, EntryTyped
      <4> QED BY <3>1, <4>1, <4>2, <1>1, <1>3, <1>6
    <3>2. CASE i = Len(pending) + 1
      <4>1. addressed[t0] = {}
        BY <1>2, <1>3 DEF QueueInv
      <4> QED BY <3>2, <4>1, <1>1, <1>3, <1>4, <1>6
    <3> QED BY <3>1, <3>2, <1>6
  <2>2. InOrder(pending')
    <3> SUFFICES ASSUME NEW i \in 1 .. Len(pending'), NEW j \in 1 .. Len(pending'), i < j
                 PROVE  pending'[i].text < pending'[j].text
      BY DEF InOrder
    <3>1. i \in 1 .. Len(pending)
      BY <1>6
    <3>2. CASE j \in 1 .. Len(pending)
      BY <3>1, <3>2, <1>2, <1>6 DEF QueueInv, InOrder
    <3>3. CASE j = Len(pending) + 1
      <4>1. pending[i].text <= written /\ pending[i].text \in Int
        BY <3>1, <1>2, <1>5, EntryTyped DEF QueueInv
      <4> QED BY <3>1, <3>3, <4>1, <1>3, <1>4, <1>6
    <3> QED BY <3>2, <3>3, <1>6
  <2>3. \A t \in Texts : t > written' => addressed'[t] = {}
    BY <1>1, <1>2, <1>3 DEF QueueInv
  <2> QED BY <2>1, <2>2, <2>3 DEF QueueInv
<1>10. ShownInv'
  BY <1>1, <1>2 DEF ShownInv, ShownOnce, Got
<1>11. OwedInv'
  <2> SUFFICES ASSUME NEW i \in 1 .. Len(pending'), NEW m \in addressed[pending'[i].text]
               PROVE  \/ Got(m, pending'[i].text) \/ m \in left[pending'[i].text]
                      \/ \E k \in pending'[i].awaiting \cap connected : holder[k] = m
    BY <1>1, <1>7 DEF OwedInv
  <2>1. CASE i \in 1 .. Len(pending)
    BY <2>1, <1>2, <1>6 DEF OwedInv
  <2>2. CASE i = Len(pending) + 1
    BY <2>2, <1>2, <1>3, <1>4, <1>6 DEF QueueInv
  <2> QED BY <2>1, <2>2, <1>6
<1>12. DoneIsDelivered'
  <2> SUFFICES ASSUME NEW t \in Texts, t <= t0, ~Queued(t)', t \notin failed,
                      NEW m \in addressed[t]
               PROVE  Got(m, t) \/ m \in left[t]
    BY <1>1, <1>7 DEF DoneIsDelivered
  <2>1. \A i \in 1 .. Len(pending') : pending'[i].text # t
    BY <1>6 DEF Queued
  <2>2. Len(pending) + 1 \in 1 .. Len(pending')
    BY <1>6
  <2>3. t # t0
    BY <2>1, <2>2, <1>4, <1>6
  <2>4. ~Queued(t)
    <3>1. \A i \in 1 .. Len(pending) : pending[i].text # t
      BY <2>1, <1>6
    <3> QED BY <3>1, <1>5 DEF Queued
  <2> QED BY <2>3, <2>4, <1>2, <1>3 DEF DoneIsDelivered
<1> QED BY <1>8, <1>9, <1>10, <1>11, <1>12 DEF ChatInv

-----------------------------------------------------------------------------
LEMMA RemovedAt ==
  ASSUME NEW S, NEW queue \in Seq(S), NEW i \in 1 .. Len(queue)
  PROVE  /\ RemoveAt(queue, i) \in Seq(S)
         /\ Len(RemoveAt(queue, i)) = Len(queue) - 1
         /\ \A x \in 1 .. Len(queue) - 1 :
               RemoveAt(queue, i)[x] = queue[IF x < i THEN x ELSE x + 1]
<1> DEFINE before == SubSeq(queue, 1, i - 1)
           behind == SubSeq(queue, i + 1, Len(queue))
<1>1. /\ before \in Seq(S) /\ Len(before) = i - 1
      /\ \A x \in 1 .. i - 1 : before[x] = queue[x]
  OBVIOUS
<1>2. /\ behind \in Seq(S) /\ Len(behind) = Len(queue) - i
      /\ \A x \in 1 .. Len(queue) - i : behind[x] = queue[x + i]
  OBVIOUS
<1>3. RemoveAt(queue, i) = before \o behind
  BY DEF RemoveAt
<1> HIDE DEF before, behind
<1>4. /\ RemoveAt(queue, i) \in Seq(S)
      /\ Len(RemoveAt(queue, i)) = Len(queue) - 1
  BY <1>1, <1>2, <1>3
<1>5. ASSUME NEW x \in 1 .. Len(queue) - 1
      PROVE  RemoveAt(queue, i)[x] = queue[IF x < i THEN x ELSE x + 1]
  <2>1. CASE x < i
    <3>1. x \in 1 .. i - 1
      BY <2>1
    <3> QED BY <2>1, <3>1, <1>1, <1>2, <1>3
  <2>2. CASE ~(x < i)
    <3>1. x - (i - 1) \in 1 .. Len(queue) - i /\ (x - (i - 1)) + i = x + 1
      BY <2>2
    <3>2. (before \o behind)[x] = behind[x - (i - 1)]
      BY <2>2, <3>1, <1>1, <1>2
    <3> QED BY <2>2, <3>1, <3>2, <1>2, <1>3
  <2> QED BY <2>1, <2>2
<1> QED BY <1>4, <1>5

LEMMA ReceiveChatAckKeeps ==
  ASSUME ChatInv, ReceiveChatAck
  PROVE  ChatInv'
<1>1. PICK a \in acks, k \in connected, found \in DOMAIN pending :
         /\ holder[k] = a.from /\ pending[found].id = a.id
         /\ pending' = IF pending[found].addressed /\ pending[found].awaiting \ {k} = {}
                       THEN RemoveAt(pending, found)
                       ELSE [pending EXCEPT ![found].awaiting = pending[found].awaiting \ {k}]
         /\ UNCHANGED <<nextId, holder, connected, remembered, recent, shown, dropped, addressed,
                        left, failed, chats, acks, written>>
  BY DEF ReceiveChatAck, Owing, musicians, history, bounds
<1>2. ChatTypeOK /\ QueueInv /\ ShownInv /\ OwedInv /\ DoneIsDelivered
  BY DEF ChatInv
<1>3. pending \in Seq(Entries) /\ found \in 1 .. Len(pending) /\ Len(pending) \in Nat
  BY <1>2 DEF ChatTypeOK
<1> DEFINE t0 == pending[found].text
<1>4. t0 \in Texts /\ pending[found].id = t0 /\ pending[found] \in Entries
  BY <1>2, <1>3, EntryTyped DEF QueueInv
<1>5. Got(a.from, t0)
  <2>1. a.id \in remembered[a.from] /\ a.from \in Musicians
    BY <1>2 DEF ShownInv, ChatTypeOK
  <2> QED BY <2>1, <1>1, <1>2, <1>4 DEF ShownInv
<1>6. \A m, t : Got(m, t)' <=> Got(m, t)
  BY <1>1 DEF Got
<1>7. ASSUME pending' \in Seq(Entries), InOrder(pending'),
             \A x \in 1 .. Len(pending') : \E j \in 1 .. Len(pending) :
                /\ pending'[x].id = pending[j].id /\ pending'[x].text = pending[j].text
                /\ pending'[x].addressed = pending[j].addressed
                /\ \/ pending'[x].awaiting = pending[j].awaiting
                   \/ j = found /\ pending'[x].awaiting = pending[found].awaiting \ {k},
             \A j \in 1 .. Len(pending) :
                \/ \E x \in 1 .. Len(pending') : pending'[x].text = pending[j].text
                \/ j = found /\ pending[found].awaiting \ {k} = {}
      PROVE  ChatInv'
  <2>1. ChatTypeOK'
    BY <1>1, <1>2, <1>7 DEF ChatTypeOK
  <2>2. QueueInv'
    <3>1. ASSUME NEW x \in 1 .. Len(pending')
          PROVE  /\ pending'[x].id = pending'[x].text /\ pending'[x].text <= written'
                 /\ ~pending'[x].addressed => addressed'[pending'[x].text] = {}
      <4>1. PICK j \in 1 .. Len(pending) :
               /\ pending'[x].id = pending[j].id /\ pending'[x].text = pending[j].text
               /\ pending'[x].addressed = pending[j].addressed
        BY <1>7
      <4> QED BY <4>1, <1>1, <1>2 DEF QueueInv
    <3> QED BY <3>1, <1>1, <1>2, <1>7 DEF QueueInv
  <2>3. ShownInv'
    BY <1>1, <1>2 DEF ShownInv, ShownOnce, Got
  <2>4. OwedInv'
    <3> SUFFICES ASSUME NEW x \in 1 .. Len(pending'), NEW m \in addressed[pending'[x].text]
                 PROVE  \/ Got(m, pending'[x].text) \/ m \in left[pending'[x].text]
                        \/ \E h \in pending'[x].awaiting \cap connected : holder[h] = m
      BY <1>1, <1>6 DEF OwedInv
    <3>1. PICK j \in 1 .. Len(pending) :
             /\ pending'[x].text = pending[j].text
             /\ \/ pending'[x].awaiting = pending[j].awaiting
                \/ j = found /\ pending'[x].awaiting = pending[found].awaiting \ {k}
      BY <1>7
    <3>2. \/ Got(m, pending[j].text) \/ m \in left[pending[j].text]
          \/ \E h \in pending[j].awaiting \cap connected : holder[h] = m
      BY <3>1, <1>2 DEF OwedInv
    <3>3. CASE \E h \in pending[j].awaiting \cap connected : holder[h] = m
      <4>1. PICK h \in pending[j].awaiting \cap connected : holder[h] = m
        BY <3>3
      <4>2. CASE h = k /\ j = found
        BY <4>1, <4>2, <3>1, <1>1, <1>5
      <4>3. CASE ~(h = k /\ j = found)
        BY <4>1, <4>3, <3>1
      <4> QED BY <4>2, <4>3
    <3> QED BY <3>1, <3>2, <3>3
  <2>5. DoneIsDelivered'
    <3> SUFFICES ASSUME NEW t \in Texts, t <= written, ~Queued(t)', t \notin failed,
                        NEW m \in addressed[t]
                 PROVE  Got(m, t) \/ m \in left[t]
      BY <1>1, <1>6 DEF DoneIsDelivered
    <3>1. \A x \in 1 .. Len(pending') : pending'[x].text # t
      BY <1>7 DEF Queued
    <3>2. CASE ~Queued(t)
      BY <3>2, <1>2 DEF DoneIsDelivered
    <3>3. CASE Queued(t)
      <4>1. PICK j \in 1 .. Len(pending) : pending[j].text = t
        BY <3>3, <1>3 DEF Queued
      <4>2. j = found /\ pending[found].awaiting \ {k} = {}
        BY <3>1, <4>1, <1>7
      <4>3. \/ Got(m, t) \/ m \in left[t]
            \/ \E h \in pending[found].awaiting \cap connected : holder[h] = m
        BY <4>1, <4>2, <1>2 DEF OwedInv
      <4> QED BY <4>1, <4>2, <4>3, <1>1, <1>5
    <3> QED BY <3>2, <3>3
  <2> QED BY <2>1, <2>2, <2>3, <2>4, <2>5 DEF ChatInv
<1>8. CASE pending[found].addressed /\ pending[found].awaiting \ {k} = {}
  <2>1. pending' = RemoveAt(pending, found)
    BY <1>1, <1>8
  <2> DEFINE from(x) == IF x < found THEN x ELSE x + 1
  <2>2. /\ pending' \in Seq(Entries) /\ Len(pending') = Len(pending) - 1
        /\ \A x \in 1 .. Len(pending') : pending'[x] = pending[from(x)]
    BY <2>1, <1>3, RemovedAt
  <2>3. \A x \in 1 .. Len(pending') : from(x) \in 1 .. Len(pending)
    BY <2>2, <1>3
  <2>4. InOrder(pending')
    <3> SUFFICES ASSUME NEW x \in 1 .. Len(pending'), NEW y \in 1 .. Len(pending'), x < y
                 PROVE  pending'[x].text < pending'[y].text
      BY DEF InOrder
    <3>1. from(x) < from(y)
      BY <1>3
    <3>2. from(x) \in 1 .. Len(pending) /\ from(y) \in 1 .. Len(pending)
      BY <2>3
    <3> HIDE DEF from
    <3> QED BY <3>1, <3>2, <2>2, <1>2 DEF QueueInv, InOrder
  <2>5. ASSUME NEW j \in 1 .. Len(pending), j # found
        PROVE  \E x \in 1 .. Len(pending') : pending'[x].text = pending[j].text
    <3>1. CASE j < found
      <4>1. j \in 1 .. Len(pending') /\ from(j) = j
        BY <3>1, <2>2, <1>3
      <4> QED BY <4>1, <2>2
    <3>2. CASE j > found
      <4>1. j - 1 \in 1 .. Len(pending') /\ from(j - 1) = j
        BY <3>2, <2>2, <1>3
      <4> QED BY <4>1, <2>2
    <3> QED BY <3>1, <3>2, <2>5, <1>3
  <2> HIDE DEF from
  <2> QED BY <2>2, <2>3, <2>4, <2>5, <1>7, <1>8
<1>9. CASE ~(pending[found].addressed /\ pending[found].awaiting \ {k} = {})
  <2> DEFINE e == [pending[found] EXCEPT !.awaiting = pending[found].awaiting \ {k}]
  <2>1. pending' = [pending EXCEPT ![found] = e]
    BY <1>1, <1>9
  <2>2. /\ e \in Entries /\ e.id = pending[found].id /\ e.text = pending[found].text
        /\ e.addressed = pending[found].addressed /\ e.awaiting = pending[found].awaiting \ {k}
    BY <1>4 DEF Entries
  <2> HIDE DEF e
  <2>3. /\ pending' \in Seq(Entries) /\ Len(pending') = Len(pending)
        /\ pending'[found] = e
        /\ \A x \in 1 .. Len(pending) : x # found => pending'[x] = pending[x]
    BY <2>1, <2>2, <1>3
  <2>4. \A x \in 1 .. Len(pending) : pending'[x].text = pending[x].text
    BY <2>2, <2>3
  <2>5. InOrder(pending')
    BY <2>3, <2>4, <1>2 DEF QueueInv, InOrder
  <2>6. ASSUME NEW x \in 1 .. Len(pending')
        PROVE  \E j \in 1 .. Len(pending) :
                /\ pending'[x].id = pending[j].id /\ pending'[x].text = pending[j].text
                /\ pending'[x].addressed = pending[j].addressed
                /\ \/ pending'[x].awaiting = pending[j].awaiting
                   \/ j = found /\ pending'[x].awaiting = pending[found].awaiting \ {k}
    BY <2>2, <2>3
  <2> QED BY <2>3, <2>4, <2>5, <2>6, <1>7
<1> QED BY <1>8, <1>9

-----------------------------------------------------------------------------
LEMMA JoinKeeps ==
  ASSUME ChatInv, NEW m \in Musicians, Join(m)
  PROVE  ChatInv'
<1>1. PICK k \in SlotsFor(m) \ connected :
         /\ holder' = [holder EXCEPT ![k] = m]
         /\ connected' = connected \union {k}
  BY DEF Join
<1>2. UNCHANGED <<pending, nextId, remembered, recent, shown, dropped, addressed, left, failed,
                  chats, acks, written>>
  BY DEF Join, musicians, history
<1>3. ChatTypeOK /\ QueueInv /\ ShownInv /\ OwedInv /\ DoneIsDelivered
  BY DEF ChatInv
<1>4. k \in Slots
  BY DEF SlotsFor, FreeSlots
<1>5. ChatTypeOK'
  <2>1. holder' \in [Slots -> Musicians \union {Nobody}]
    BY <1>1, <1>3 DEF ChatTypeOK
  <2>2. connected' \in SUBSET {j \in Slots : holder'[j] # Nobody}
    BY <1>1, <1>3, <1>4, MusicianAssumption DEF ChatTypeOK
  <2> QED BY <2>1, <2>2, <1>2, <1>3 DEF ChatTypeOK
<1>6. \A j \in connected : j \in connected' /\ holder'[j] = holder[j]
  BY <1>1, <1>3 DEF ChatTypeOK
<1>7. \A n, t : Got(n, t)' <=> Got(n, t)
  BY <1>2 DEF Got
<1>8. QueueInv' /\ ShownInv' /\ DoneIsDelivered'
  BY <1>2, <1>3 DEF QueueInv, ShownInv, ShownOnce, Got, DoneIsDelivered, Queued
<1>9. OwedInv'
  <2> SUFFICES ASSUME NEW i \in 1 .. Len(pending), NEW n \in addressed[pending[i].text]
               PROVE  \/ Got(n, pending[i].text) \/ n \in left[pending[i].text]
                      \/ \E h \in pending[i].awaiting \cap connected' : holder'[h] = n
    BY <1>2, <1>7 DEF OwedInv
  <2>1. \/ Got(n, pending[i].text) \/ n \in left[pending[i].text]
        \/ \E h \in pending[i].awaiting \cap connected : holder[h] = n
    BY <1>3 DEF OwedInv
  <2> QED BY <2>1, <1>6
<1> QED BY <1>5, <1>8, <1>9 DEF ChatInv

LEMMA ReceiveChatKeeps ==
  ASSUME ChatInv, NEW m \in Musicians, ReceiveChat(m)
  PROVE  ChatInv'
<1>1. PICK c \in chats :
         /\ c.to = m
         /\ acks' = acks \union {[id |-> c.id, from |-> m]}
         /\ \/ ~IsNew(m, c.id) /\ UNCHANGED musicians
            \/ /\ IsNew(m, c.id)
               /\ remembered' = [remembered EXCEPT ![m] = @ \union {c.id}]
               /\ IF recent[m] < PerWindow
                  THEN /\ recent' = [recent EXCEPT ![m] = @ + 1]
                       /\ shown' = [shown EXCEPT ![m][c.text] = @ + 1]
                       /\ UNCHANGED dropped
                  ELSE /\ dropped' = [dropped EXCEPT ![m] = @ \union {c.text}]
                       /\ UNCHANGED <<recent, shown>>
  BY DEF ReceiveChat
<1>2. UNCHANGED <<pending, nextId, holder, connected, addressed, left, failed, chats, written>>
  BY DEF ReceiveChat, sender, history, bounds
<1>3. ChatTypeOK /\ QueueInv /\ ShownInv /\ OwedInv /\ DoneIsDelivered
  BY DEF ChatInv
<1>4. c.id \in Ids /\ c.text \in Texts /\ c.id = c.text /\ Ids = Texts
  BY <1>3 DEF ChatTypeOK, ShownInv, Ids, Texts
<1>5. ASSUME remembered' \in [Musicians -> SUBSET Ids], recent' \in [Musicians -> Nat],
             shown' \in [Musicians -> [Texts -> Nat]], dropped' \in [Musicians -> SUBSET Texts],
             c.id \in remembered'[m], \A n \in Musicians : remembered[n] \subseteq remembered'[n],
             \A n \in Musicians, t \in Texts : Got(n, t) => Got(n, t)',
             \A n \in Musicians : /\ \A t \in remembered'[n] : Got(n, t)'
                                  /\ \A t \in Texts : shown'[n][t] > 0 => t \in remembered'[n],
             \A n \in Musicians, t \in Texts : shown'[n][t] <= 1
      PROVE  ChatInv'
  <2>1. acks' \subseteq [id : Ids, from : Musicians]
    BY <1>1, <1>3, <1>4 DEF ChatTypeOK
  <2>2. ChatTypeOK'
    BY <2>1, <1>2, <1>3, <1>5 DEF ChatTypeOK
  <2>3. QueueInv'
    BY <1>2, <1>3 DEF QueueInv
  <2>4. \A a \in acks' : a.id \in remembered'[a.from]
    BY <1>1, <1>3, <1>5 DEF ShownInv, ChatTypeOK
  <2>5. ShownInv'
    BY <2>4, <1>2, <1>3, <1>5 DEF ShownInv, ShownOnce
  <2>6. OwedInv'
    <3> SUFFICES ASSUME NEW i \in 1 .. Len(pending), NEW n \in addressed[pending[i].text]
                 PROVE  \/ Got(n, pending[i].text)' \/ n \in left[pending[i].text]
                        \/ \E h \in pending[i].awaiting \cap connected : holder[h] = n
      BY <1>2 DEF OwedInv, Got
    <3>1. pending[i].text \in Texts
      BY <1>3, EntryTyped DEF ChatTypeOK
    <3>2. n \in Musicians
      BY <3>1, <1>3 DEF ChatTypeOK
    <3>3. \/ Got(n, pending[i].text) \/ n \in left[pending[i].text]
          \/ \E h \in pending[i].awaiting \cap connected : holder[h] = n
      BY <1>3 DEF OwedInv
    <3>4. Got(n, pending[i].text) => Got(n, pending[i].text)'
      <4>1. PICK t \in Texts : t = pending[i].text
        BY <3>1
      <4>2. Got(n, t) => Got(n, t)'
        BY <1>5, <3>2
      <4>3. Got(n, pending[i].text) => Got(n, t)
        BY <4>1 DEF Got
      <4>4. Got(n, t)' => Got(n, pending[i].text)'
        BY <4>1, <1>2 DEF Got
      <4> QED BY <4>2, <4>3, <4>4
    <3> QED BY <3>3, <3>4
  <2>7. DoneIsDelivered'
    <3> SUFFICES ASSUME NEW t \in Texts, t <= written, ~Queued(t), t \notin failed,
                        NEW n \in addressed[t]
                 PROVE  Got(n, t)' \/ n \in left[t]
      BY <1>2 DEF DoneIsDelivered, Queued, Got
    <3>1. n \in Musicians
      BY <1>3 DEF ChatTypeOK
    <3> QED BY <3>1, <1>3, <1>5 DEF DoneIsDelivered
  <2> QED BY <2>2, <2>3, <2>5, <2>6, <2>7 DEF ChatInv
<1>6. CASE ~IsNew(m, c.id) /\ UNCHANGED musicians
  <2>1. UNCHANGED <<remembered, recent, shown, dropped>> /\ c.id \in remembered[m]
    BY <1>6 DEF musicians, IsNew
  <2>2. \A n, t : Got(n, t)' <=> Got(n, t)
    BY <2>1 DEF Got
  <2> QED BY <2>1, <2>2, <1>3, <1>5 DEF ChatTypeOK, ShownInv, ShownOnce
<1>7. CASE IsNew(m, c.id)
  <2>1. remembered' = [remembered EXCEPT ![m] = remembered[m] \union {c.id}] /\ c.id \notin remembered[m]
    BY <1>1, <1>7 DEF IsNew
  <2>2. /\ remembered' \in [Musicians -> SUBSET Ids] /\ c.id \in remembered'[m]
        /\ \A n \in Musicians : remembered[n] \subseteq remembered'[n]
        /\ \A n \in Musicians : n # m => remembered'[n] = remembered[n]
        /\ remembered'[m] = remembered[m] \union {c.id}
    BY <2>1, <1>3, <1>4 DEF ChatTypeOK
  <2>3. shown[m][c.text] = 0
    BY <2>1, <1>3, <1>4 DEF ChatTypeOK, ShownInv
  <2>4. CASE recent[m] < PerWindow
    <3>1. /\ recent' = [recent EXCEPT ![m] = recent[m] + 1]
          /\ shown' = [shown EXCEPT ![m][c.text] = shown[m][c.text] + 1]
          /\ dropped' = dropped
      BY <1>1, <1>7, <2>4
    <3>2. /\ recent' \in [Musicians -> Nat] /\ shown' \in [Musicians -> [Texts -> Nat]]
          /\ dropped' \in [Musicians -> SUBSET Texts]
      BY <3>1, <1>3, <1>4 DEF ChatTypeOK
    <3>3. /\ shown'[m][c.text] = 1
          /\ \A n \in Musicians, t \in Texts : ~(n = m /\ t = c.text) => shown'[n][t] = shown[n][t]
      BY <3>1, <2>3, <1>3, <1>4 DEF ChatTypeOK
    <3>4. \A n \in Musicians, t \in Texts : Got(n, t) => Got(n, t)'
      BY <3>1, <3>3 DEF Got
    <3>5. Got(m, c.id)'
      BY <3>3, <1>4 DEF Got
    <3>6. \A n \in Musicians : \A t \in remembered'[n] : Got(n, t)'
      <4> SUFFICES ASSUME NEW n \in Musicians, NEW t \in remembered'[n]
                   PROVE  Got(n, t)'
        OBVIOUS
      <4>1. CASE n = m /\ t = c.id
        BY <4>1, <3>5
      <4>2. CASE ~(n = m /\ t = c.id)
        <5>1. t \in remembered[n]
          BY <4>2, <2>2
        <5>2. t \in Texts
          BY <5>1, <1>3, <1>4 DEF ChatTypeOK
        <5>3. Got(n, t)
          BY <5>1, <1>3 DEF ShownInv
        <5> QED BY <5>2, <5>3, <3>4
      <4> QED BY <4>1, <4>2
    <3>7. \A n \in Musicians : \A t \in Texts : shown'[n][t] > 0 => t \in remembered'[n]
      BY <3>3, <2>2, <1>3, <1>4 DEF ShownInv
    <3>8. \A n \in Musicians, t \in Texts : shown'[n][t] <= 1
      BY <3>3, <1>3 DEF ShownInv, ShownOnce
    <3> QED BY <3>2, <3>4, <3>6, <3>7, <3>8, <2>2, <1>5
  <2>5. CASE ~(recent[m] < PerWindow)
    <3>1. /\ dropped' = [dropped EXCEPT ![m] = dropped[m] \union {c.text}]
          /\ recent' = recent /\ shown' = shown
      BY <1>1, <1>7, <2>5
    <3>2. /\ recent' \in [Musicians -> Nat] /\ shown' \in [Musicians -> [Texts -> Nat]]
          /\ dropped' \in [Musicians -> SUBSET Texts]
          /\ c.text \in dropped'[m] /\ \A n \in Musicians : dropped[n] \subseteq dropped'[n]
      BY <3>1, <1>3, <1>4 DEF ChatTypeOK
    <3>3. \A n \in Musicians, t \in Texts : Got(n, t) => Got(n, t)'
      BY <3>1, <3>2 DEF Got
    <3>4. Got(m, c.id)'
      BY <3>2, <1>4 DEF Got
    <3>5. \A n \in Musicians : \A t \in remembered'[n] : Got(n, t)'
      <4> SUFFICES ASSUME NEW n \in Musicians, NEW t \in remembered'[n]
                   PROVE  Got(n, t)'
        OBVIOUS
      <4>1. CASE n = m /\ t = c.id
        BY <4>1, <3>4
      <4>2. CASE ~(n = m /\ t = c.id)
        <5>1. t \in remembered[n]
          BY <4>2, <2>2
        <5>2. t \in Texts
          BY <5>1, <1>3, <1>4 DEF ChatTypeOK
        <5>3. Got(n, t)
          BY <5>1, <1>3 DEF ShownInv
        <5> QED BY <5>2, <5>3, <3>3
      <4> QED BY <4>1, <4>2
    <3>6. \A n \in Musicians : \A t \in Texts : shown'[n][t] > 0 => t \in remembered'[n]
      BY <3>1, <2>2, <1>3 DEF ShownInv
    <3>7. \A n \in Musicians, t \in Texts : shown'[n][t] <= 1
      BY <3>1, <1>3 DEF ShownInv, ShownOnce
    <3> QED BY <3>2, <3>3, <3>5, <3>6, <3>7, <2>2, <1>5
  <2> QED BY <2>4, <2>5
<1> QED BY <1>1, <1>6, <1>7

-----------------------------------------------------------------------------
LEMMA ChatStarts == Init => ChatInv
<1> SUFFICES ASSUME Init PROVE ChatInv
  OBVIOUS
<1>1. pending = << >> /\ << >> \in Seq(Entries) /\ Len(<< >>) = 0
  BY DEF Init
<1>2. ChatTypeOK
  BY <1>1, BoundAssumption DEF Init, ChatTypeOK
<1>3. QueueInv /\ OwedInv
  BY <1>1 DEF Init, QueueInv, OwedInv, InOrder
<1>4. ShownInv /\ DoneIsDelivered
  BY DEF Init, ShownInv, ShownOnce, DoneIsDelivered
<1> QED BY <1>2, <1>3, <1>4 DEF ChatInv

LEMMA ChatStep == ChatInv /\ [Next]_vars => ChatInv'
<1> SUFFICES ASSUME ChatInv, [Next]_vars PROVE ChatInv'
  OBVIOUS
<1>1. CASE SendChatMessage
  BY <1>1, SendChatMessageKeeps
<1>2. CASE ReceiveChatAck
  BY <1>2, ReceiveChatAckKeeps
<1>3. CASE \E silent \in SUBSET connected, due \in SUBSET Sent : NextPass(silent, due)
  BY <1>3, NextPassKeeps
<1>4. ASSUME NEW m \in Musicians, Join(m) PROVE ChatInv'
  BY <1>4, JoinKeeps
<1>5. ASSUME NEW m \in Musicians, ReceiveChat(m) PROVE ChatInv'
  BY <1>5, ReceiveChatKeeps
<1>6. ASSUME NEW m \in Musicians, WindowPasses(m) PROVE ChatInv'
  <2>1. /\ recent' = [recent EXCEPT ![m] = 0]
        /\ UNCHANGED <<pending, nextId, holder, connected, remembered, shown, dropped, addressed,
                       left, failed, chats, acks, written>>
    BY <1>6 DEF WindowPasses, sender, history, bounds
  <2>2. ChatTypeOK'
    BY <2>1 DEF ChatInv, ChatTypeOK
  <2> QED BY <2>1, <2>2 DEF ChatInv, QueueInv, ShownInv, ShownOnce, OwedInv, DoneIsDelivered,
                            Got, Queued
<1>7. CASE UNCHANGED vars
  BY <1>7 DEF vars, sender, musicians, history, bounds, ChatInv, ChatTypeOK, QueueInv, ShownInv,
              ShownOnce, OwedInv, DoneIsDelivered, Got, Queued
<1> QED BY <1>1, <1>2, <1>3, <1>4, <1>5, <1>6, <1>7 DEF Next

(* The queue, what was sent, shown and acknowledged, and who is owed what  *)
(* agree, however messages are lost, repeated and late.                    *)
THEOREM ChatCorrect == Spec => []ChatInv
BY ChatStarts, ChatStep, PTL DEF Spec

(* What the queue, the slots and the rate of a musician stay within.       *)
BoundsInv ==
  /\ Len(pending) <= MaxPending
  /\ \A j, k \in Slots : holder[j] = holder[k] /\ j # k => holder[j] = Nobody
  /\ recent \in [Musicians -> 0 .. PerWindow]
  /\ joins \in 0 .. MaxJoins

LEMMA BoundsStart == Init => BoundsInv
<1> SUFFICES ASSUME Init PROVE BoundsInv
  OBVIOUS
<1>1. pending = << >> /\ Len(<< >>) = 0
  BY DEF Init
<1> QED BY <1>1, BoundAssumption DEF Init, BoundsInv

LEMMA BoundsStep == ChatInv /\ BoundsInv /\ [Next]_vars => BoundsInv'
<1> SUFFICES ASSUME ChatInv, BoundsInv, [Next]_vars PROVE BoundsInv'
  OBVIOUS
<1>1. /\ pending \in Seq(Entries) /\ Len(pending) \in Nat /\ InOrder(pending)
      /\ {MaxPending, PerWindow, MaxJoins} \subseteq Nat
      /\ holder \in [Slots -> Musicians \union {Nobody}]
      /\ connected \subseteq {k \in Slots : holder[k] # Nobody}
  BY BoundAssumption DEF ChatInv, ChatTypeOK, QueueInv
<1>2. CASE SendChatMessage
  <2>1. /\ Len(pending) < MaxPending /\ Len(pending') = Len(pending) + 1
        /\ UNCHANGED <<holder, recent, joins>>
    BY <1>1, <1>2 DEF SendChatMessage, musicians
  <2> QED BY <2>1, <1>1 DEF BoundsInv
<1>3. CASE ReceiveChatAck
  <2>1. /\ Len(pending') <= Len(pending) /\ Len(pending') \in Nat
        /\ UNCHANGED <<holder, recent, joins>>
    <3>1. PICK k \in connected, found \in DOMAIN pending :
             pending' = IF pending[found].addressed /\ Owing(pending[found], k) = {}
                        THEN RemoveAt(pending, found)
                        ELSE [pending EXCEPT ![found].awaiting = Owing(pending[found], k)]
      BY <1>3 DEF ReceiveChatAck
    <3>2. found \in 1 .. Len(pending)
      BY <1>1
    <3>3. Len(RemoveAt(pending, found)) = Len(pending) - 1
      BY <1>1, <3>2, RemovedAt
    <3>4. Len([pending EXCEPT ![found].awaiting = Owing(pending[found], k)]) = Len(pending)
      BY <1>1, <3>2
    <3> QED BY <1>1, <1>3, <3>1, <3>2, <3>3, <3>4 DEF ReceiveChatAck, musicians, bounds
  <2> QED BY <2>1, <1>1 DEF BoundsInv
<1>4. ASSUME NEW silent \in SUBSET connected, NEW due, NextPass(silent, due)
      PROVE  BoundsInv'
  <2> DEFINE kept == Service(connected \ silent, due).kept
  <2>1. kept \in Seq(Entries) /\ Len(kept) <= Len(pending)
    <3>1. connected \ silent \in SUBSET Slots
      BY <1>1
    <3> QED BY <1>1, <3>1, ServiceMakes DEF SoFar
  <2>2. pending' = pending \/ pending' = kept
    BY <1>4 DEF NextPass
  <2>3. UNCHANGED <<holder, recent, joins>>
    BY <1>4 DEF NextPass, musicians, bounds
  <2> HIDE DEF kept
  <2>4. Len(pending') <= MaxPending
    BY <2>1, <2>2, <1>1 DEF BoundsInv
  <2> QED BY <2>3, <2>4 DEF BoundsInv
<1>5. ASSUME NEW m \in Musicians, Join(m) PROVE BoundsInv'
  <2>1. PICK k \in SlotsFor(m) \ connected : holder' = [holder EXCEPT ![k] = m]
    BY <1>5 DEF Join
  <2>2. UNCHANGED <<pending, recent>> /\ joins < MaxJoins /\ joins' = joins + 1
    BY <1>5 DEF Join, musicians
  <2>3. k \in Slots /\ \A j \in Slots : holder[j] = m => j \in SlotsFor(m) /\ holder[k] = m
    BY <2>1 DEF SlotsFor, FreeSlots
  <2>4. m # Nobody
    BY MusicianAssumption
  <2>5. \A j, h \in Slots : holder'[j] = holder'[h] /\ j # h => holder'[j] = Nobody
    BY <2>1, <2>3, <2>4, <1>1 DEF BoundsInv
  <2> QED BY <2>2, <2>5, <1>1 DEF BoundsInv
<1>6. ASSUME NEW m \in Musicians, ReceiveChat(m) PROVE BoundsInv'
  <2>1. /\ UNCHANGED <<pending, holder, joins>>
        /\ recent' = recent \/ (recent[m] < PerWindow /\ recent' = [recent EXCEPT ![m] = recent[m] + 1])
    BY <1>6 DEF ReceiveChat, sender, musicians, bounds
  <2> QED BY <2>1, <1>1 DEF BoundsInv
<1>7. ASSUME NEW m \in Musicians, WindowPasses(m) PROVE BoundsInv'
  BY <1>1, <1>7 DEF WindowPasses, BoundsInv, sender, bounds
<1>8. CASE UNCHANGED vars
  BY <1>8 DEF vars, sender, musicians, bounds, BoundsInv
<1> QED BY <1>2, <1>3, <1>4, <1>5, <1>6, <1>7, <1>8 DEF Next

(* The chat's state is what RoomChat's types say, its queue and the rate   *)
(* of a musician within their limits, and no musician has two slots.       *)
THEOREM ChatTypeCorrect == Spec => []TypeOK
<1>1. ChatInv /\ BoundsInv => TypeOK
  <2> SUFFICES ASSUME ChatInv, BoundsInv PROVE TypeOK
    OBVIOUS
  <2>1. \A i \in DOMAIN pending : pending[i] \in Entries
    BY DEF ChatInv, ChatTypeOK
  <2>2. nextId \in 1 .. (MaxTexts + 1)
    BY BoundAssumption DEF ChatInv, ChatTypeOK
  <2> QED BY <2>1, <2>2 DEF ChatInv, ChatTypeOK, BoundsInv, TypeOK
<1>2. Spec => []BoundsInv
  BY ChatCorrect, BoundsStart, BoundsStep, PTL DEF Spec
<1> QED BY <1>1, <1>2, ChatCorrect, PTL

(* A musician is shown a message once (receiveChatMessage()).              *)
THEOREM RepetitionsUnseen == Spec => []ShownOnce
<1>1. ChatInv => ShownOnce
  BY DEF ChatInv, ShownInv
<1> QED BY <1>1, ChatCorrect, PTL

(* What the sender is done with reached everybody it was addressed to who  *)
(* stayed (servicePendingChat(), receiveChatAcknowledgement()).            *)
THEOREM DoneReached == Spec => []DoneIsDelivered
<1>1. ChatInv => DoneIsDelivered
  BY DEF ChatInv
<1> QED BY <1>1, ChatCorrect, PTL

-----------------------------------------------------------------------------
(* MeshRoster.                                                             *)

-----------------------------------------------------------------------------
(* Folds.                                                                    *)

Chosen(s) == CHOOSE x \in s : TRUE
Rest(s) == s \ {Chosen(s)}

LEMMA RestIsSmaller ==
  ASSUME NEW S, IsFiniteSet(S), NEW s \in SUBSET S, s # {}
  PROVE  /\ Chosen(s) \in s /\ Rest(s) \in SUBSET S
         /\ Cardinality(s) \in Nat \ {0} /\ Cardinality(Rest(s)) = Cardinality(s) - 1
<1>1. Chosen(s) \in s
  BY DEF Chosen
<1>2. IsFiniteSet(s)
  BY FS_Subset
<1>3. Cardinality(s) \in Nat /\ Cardinality(s) # 0
  BY <1>2, FS_CardinalityType, FS_EmptySet
<1>4. Cardinality(Rest(s)) = Cardinality(s) - 1
  BY <1>1, <1>2, FS_RemoveElement DEF Rest
<1> QED BY <1>1, <1>3, <1>4 DEF Rest

\* What holds of the empty set, and of a set when it holds of the rest of it.
LEMMA SubsetsUp ==
  ASSUME NEW S, IsFiniteSet(S), NEW Good, {} \in Good,
         \A s \in SUBSET S : s # {} /\ Rest(s) \in Good => s \in Good
  PROVE  S \in Good
<1> DEFINE Bad == {n \in Nat : \E s \in SUBSET S : s \notin Good /\ Cardinality(s) = n}
<1>1. SUFFICES ASSUME S \notin Good PROVE FALSE
  OBVIOUS
<1>2. Cardinality(S) \in Bad
  BY <1>1, FS_CardinalityType
<1>3. PICK n \in Bad : \A k \in Bad : n <= k
  BY <1>2, Least
<1>4. PICK s \in SUBSET S : s \notin Good /\ Cardinality(s) = n
  OBVIOUS
<1>5. s # {} /\ Rest(s) \notin Good
  BY <1>4
<1>6. Rest(s) \in SUBSET S /\ n \in Nat \ {0} /\ Cardinality(Rest(s)) = n - 1
  BY <1>4, <1>5, RestIsSmaller
<1>7. n - 1 \in Bad
  BY <1>5, <1>6
<1> QED BY <1>3, <1>6, <1>7

\* f[s] is the fold of step over s, from base.
IsFold(f, S, base, step) ==
  \A s \in SUBSET S : f[s] = IF s = {} THEN base ELSE step[<<Chosen(s), f[Rest(s)]>>]

\* There is a function as a fold speaks of.
LEMMA FoldExists ==
  ASSUME NEW S, IsFiniteSet(S), NEW V, NEW base \in V, NEW step \in [S \X V -> V]
  PROVE  \E f \in [SUBSET S -> V] : IsFold(f, S, base, step)
<1> DEFINE Upto(n) == {s \in SUBSET S : Cardinality(s) <= n}
           Folds(f, n) == \A s \in Upto(n) :
                            f[s] = IF s = {} THEN base ELSE step[<<Chosen(s), f[Rest(s)]>>]
           Bad == {n \in Nat : ~\E f \in [Upto(n) -> V] : Folds(f, n)}
<1>0. \A s \in SUBSET S : s # {} => /\ Chosen(s) \in S /\ Rest(s) \in SUBSET S
                                    /\ Cardinality(s) \in Nat \ {0}
                                    /\ Cardinality(Rest(s)) = Cardinality(s) - 1
  BY RestIsSmaller
<1>1. Bad = {}
  <2>1. SUFFICES ASSUME Bad # {} PROVE FALSE
    OBVIOUS
  <2>2. PICK n \in Bad : \A k \in Bad : n <= k
    BY <2>1, Least
  <2>3. CASE n = 0
    <3>1. Folds([s \in Upto(0) |-> base], 0)
      <4>1. \A s \in Upto(0) : s = {}
        BY <1>0
      <4> QED BY <4>1
    <3>2. [s \in Upto(0) |-> base] \in [Upto(0) -> V]
      OBVIOUS
    <3> QED BY <3>1, <3>2, <2>3
  <2>4. CASE n # 0
    <3>0. n \in Nat
      OBVIOUS
    <3>1. n - 1 \in Nat /\ n - 1 \notin Bad
      <4> HIDE DEF Bad
      <4> QED BY <2>2, <2>4, <3>0
    <3>2. PICK f \in [Upto(n - 1) -> V] : Folds(f, n - 1)
      BY <3>1
    <3> DEFINE g == [s \in Upto(n) |-> IF s = {} THEN base ELSE step[<<Chosen(s), f[Rest(s)]>>]]
    <3>3. \A s \in Upto(n) : s # {} => Rest(s) \in Upto(n - 1) /\ Rest(s) \in Upto(n)
      BY <1>0, <3>1
    <3>4. \A s \in Upto(n - 1) : s \in Upto(n) /\ g[s] = f[s]
      <4>1. Upto(n - 1) \subseteq Upto(n)
        <5>1. ASSUME NEW s \in Upto(n - 1) PROVE s \in Upto(n)
          <6>1. Cardinality(s) \in Nat
            BY FS_Subset, FS_CardinalityType
          <6> QED BY <6>1, <3>1
        <5> QED BY <5>1
      <4> QED BY <3>2, <4>1
    <3>5. Folds(g, n)
      <4>1. \A s \in Upto(n) : s # {} => g[Rest(s)] = f[Rest(s)]
        BY <3>3, <3>4
      <4> QED BY <4>1
    <3>6. g \in [Upto(n) -> V]
      <4>1. \A s \in Upto(n) : s # {} => step[<<Chosen(s), f[Rest(s)]>>] \in V
        <5>1. ASSUME NEW s \in Upto(n), s # {} PROVE step[<<Chosen(s), f[Rest(s)]>>] \in V
          <6>1. Chosen(s) \in S /\ f[Rest(s)] \in V
            BY <5>1, <3>3, <1>0
          <6> QED BY <6>1
        <5> QED BY <5>1
      <4> QED BY <4>1
    <3> QED BY <3>5, <3>6
  <2> QED BY <2>3, <2>4
<1> DEFINE N == Cardinality(S)
<1>2. Upto(N) = SUBSET S
  BY FS_Subset
<1>3. N \in Nat
  BY FS_CardinalityType
<1>4. PICK f \in [Upto(N) -> V] : Folds(f, N)
  BY <1>1, <1>3
<1> QED BY <1>2, <1>4 DEF IsFold

\* What a pass sends to one musician, one place after the other.
LEMMA PassSendsFold ==
  ASSUME NEW m, NEW my, NEW n, NEW V, <<>> \in V,
         \A s \in PeerSlots, v \in V :
            my.slots[s].who = n => v \o Hellos(m, my.slots[s]) \o Reports(m, my.slots[s])
                                     \o Introductions(m, my, my.slots[s]) \in V
  PROVE  PassSends(m, my, n) \in V
<1> DEFINE S == {s \in PeerSlots : my.slots[s].who = n /\ Reached(my.slots[s])}
           Then(s, v) == v \o Hellos(m, my.slots[s]) \o Reports(m, my.slots[s])
                           \o Introductions(m, my, my.slots[s])
           step == [x \in S \X V |-> Then(x[1], x[2])]
           Body(f) == [s \in SUBSET S |-> IF s = {} THEN <<>> ELSE Then(Chosen(s), f[Rest(s)])]
           g == CHOOSE f : f = Body(f)
<1>1. IsFiniteSet(S)
  BY SlotsAssumption, FS_Subset
<1>2. \A s \in S, v \in V : Then(s, v) \in V
  OBVIOUS
<1>3. PassSends(m, my, n) = g[S]
  BY DEF PassSends, FoldSet, MapThenFoldSet, Chosen, Rest
<1> HIDE DEF Then, S
<1>4. g = Body(g)
  <2>1. step \in [S \X V -> V]
    BY <1>2
  <2>2. PICK f \in [SUBSET S -> V] :
          \A s \in SUBSET S : f[s] = IF s = {} THEN <<>> ELSE step[<<Chosen(s), f[Rest(s)]>>]
    <3> HIDE DEF step
    <3>3. \E f \in [SUBSET S -> V] : IsFold(f, S, <<>>, step)
      BY <1>1, <2>1, FoldExists, ZenonT(30)
    <3> QED BY <3>3 DEF IsFold
  <2>3. \A s \in SUBSET S : s # {} => Chosen(s) \in S /\ Rest(s) \in SUBSET S
    BY <1>1, RestIsSmaller
  <2>4. \A s \in SUBSET S : s # {} => step[<<Chosen(s), f[Rest(s)]>>] = Then(Chosen(s), f[Rest(s)])
    BY <2>2, <2>3
  <2>5. f = Body(f)
    BY <2>2, <2>4
  <2> QED BY <2>5
<1> HIDE DEF g
<1> DEFINE Good == {s \in SUBSET S : g[s] \in V}
<1>5. S \in Good
  <2>1. {} \in Good
    BY <1>4
  <2>2. ASSUME NEW s \in SUBSET S, s # {}, Rest(s) \in Good PROVE s \in Good
    <3>1. Chosen(s) \in S
      BY <1>1, <2>2, RestIsSmaller
    <3>2. g[s] = Then(Chosen(s), g[Rest(s)])
      BY <1>4, <2>2
    <3> QED BY <1>2, <2>2, <3>1, <3>2
  <2> HIDE DEF Good
  <2> QED BY <1>1, <2>1, <2>2, SubsetsUp
<1> QED BY <1>3, <1>5

-----------------------------------------------------------------------------
(* The types.                                                                *)

People == Profiles \union {NoProfile}
Sessions == Nat \X Nat

SlotType == [used : BOOLEAN, dials : BOOLEAN, name : People, who : People, at : Nat,
             settled : BOOLEAN, sess : Sessions, far : Sessions, connected : BOOLEAN,
             published : BOOLEAN, announced : Nat, introducer : BOOLEAN]
Knowledge == [slots : [PeerSlots -> SlotType], roster : [Profiles -> Nat],
              version : Nat, drawn : Nat]
PacketType == [type : {"Hello", "HelloAck", "Candidates"}, from : Profiles, home : Nat,
               to : People, at : Nat, dials : BOOLEAN, sess : Sessions, far : Sessions,
               member : People, address : Nat]

MeshTypes == /\ up \in [Profiles -> BOOLEAN] /\ home \in [Profiles -> Nat \ {0}]
             /\ me \in [Profiles -> Knowledge] /\ lost \in Nat

-----------------------------------------------------------------------------
(* The invariant.                                                            *)

\* A guest's place for the creator, who has yet to answer for the first time.
Waiting(m, my, s) ==
  LET slot == my.slots[s]
  IN /\ slot.name = NoProfile /\ slot.dials /\ ~slot.connected /\ m # Creator
     /\ slot.who = Creator /\ slot.at = 1 /\ slot.settled /\ my.roster[Creator] = Nowhere

\* Every place in use is for somebody else, and of a session of its own.
Sound(m, my) ==
  /\ \A s \in PeerSlots : LET slot == my.slots[s] IN
       /\ slot.used => /\ slot.name = slot.who \/ Waiting(m, my, s)
                       /\ slot.sess[1] = m /\ slot.sess[2] <= my.drawn
       /\ ~slot.used => ~slot.dials /\ ~slot.connected
  /\ \A s, t \in PeerSlots : /\ my.slots[s].used /\ my.slots[t].used
                             /\ my.slots[s].who = my.slots[t].who
                                \/ my.slots[s].sess = my.slots[t].sess
                             => s = t

\* Whoever is asked with this session is the one its place is for.
AskedOf(m, my, sess, n) ==
  /\ sess[1] = m /\ sess[2] <= my.drawn
  /\ \A s \in PeerSlots : my.slots[s].used /\ my.slots[s].dials /\ my.slots[s].sess = sess
                            => my.slots[s].who = n

\* What a may have sent to b, by what the one and the other know.
Honest(a, b, mine, yours) ==
  {p \in PacketType : /\ p.from = a /\ p.to = b
                      /\ a = Creator => p.home = 1
                      /\ p.type = "Candidates" => a = Creator \/ p.member = a
                      /\ p.type = "Hello" => AskedOf(a, mine, p.sess, b)
                      /\ p.type = "HelloAck" => AskedOf(b, yours, p.far, a)}

WireInv == /\ wire \in [Pairs -> Seq(PacketType)]
           /\ \A a, b \in Profiles : wire[<<a, b>>] \in Seq(Honest(a, b, me[a], me[b]))

\* Who has left has forgotten everything.
DownInv == \A m \in Profiles : ~up[m] => /\ \A s \in PeerSlots : ~me[m].slots[s].used
                                         /\ me[m].roster[Creator] = Nowhere

MeshInv == /\ MeshTypes /\ home[Creator] = 1
           /\ \A m \in Profiles : Sound(m, me[m])
           /\ WireInv /\ DownInv

-----------------------------------------------------------------------------
(* What the worker knows, before and after.                                  *)

\* No place asks on with a session for anybody but the one it asked before.
Later(old, new) ==
  /\ old.drawn <= new.drawn
  /\ \A s \in PeerSlots : new.slots[s].used /\ new.slots[s].dials =>
       \/ /\ old.slots[s].used /\ old.slots[s].dials
          /\ new.slots[s].sess = old.slots[s].sess /\ new.slots[s].who = old.slots[s].who
       \/ new.slots[s].sess[2] > old.drawn

LEMMA LaterItself == ASSUME NEW my \in Knowledge PROVE Later(my, my)
BY DEF Later, Knowledge

LEMMA LaterStill ==
  ASSUME NEW a \in Knowledge, NEW b \in Knowledge, NEW c \in Knowledge, Later(a, b), Later(b, c)
  PROVE  Later(a, c)
<1>1. a.drawn \in Nat /\ b.drawn \in Nat /\ c.drawn \in Nat
  BY DEF Knowledge
<1>2. \A s \in PeerSlots : c.slots[s].sess[2] \in Nat
  BY DEF Knowledge, SlotType, Sessions
<1> QED BY <1>1, <1>2 DEF Later

LEMMA StillAsked ==
  ASSUME NEW m, NEW old \in Knowledge, NEW new \in Knowledge, Later(old, new),
         NEW sess \in Sessions, NEW n, AskedOf(m, old, sess, n)
  PROVE  AskedOf(m, new, sess, n)
<1>1. old.drawn \in Nat /\ new.drawn \in Nat /\ sess[2] \in Nat
  BY DEF Knowledge, Sessions
<1> QED BY <1>1 DEF Later, AskedOf

LEMMA StillHonest ==
  ASSUME NEW a, NEW b, NEW mine \in Knowledge, NEW yours \in Knowledge,
         NEW mine1 \in Knowledge, NEW yours1 \in Knowledge, Later(mine, mine1), Later(yours, yours1)
  PROVE  Seq(Honest(a, b, mine, yours)) \subseteq Seq(Honest(a, b, mine1, yours1))
<1>1. Honest(a, b, mine, yours) \subseteq Honest(a, b, mine1, yours1)
  <2>1. SUFFICES ASSUME NEW p \in Honest(a, b, mine, yours) PROVE p \in Honest(a, b, mine1, yours1)
    OBVIOUS
  <2>2. p.sess \in Sessions /\ p.far \in Sessions
    BY DEF Honest, PacketType
  <2>3. AskedOf(a, mine, p.sess, b) => AskedOf(a, mine1, p.sess, b)
    BY <2>2, StillAsked
  <2>4. AskedOf(b, yours, p.far, a) => AskedOf(b, yours1, p.far, a)
    BY <2>2, StillAsked
  <2> QED BY <2>3, <2>4 DEF Honest
<1> QED BY <1>1

\* A place given a session not used before.
Placed(my, s, x) == [my EXCEPT !.slots[s] = x, !.drawn = @ + 1]

LEMMA PlacedIs ==
  ASSUME NEW my \in Knowledge, NEW s \in PeerSlots, NEW x \in SlotType
  PROVE  /\ Placed(my, s, x) \in Knowledge
         /\ Placed(my, s, x).slots = [my.slots EXCEPT ![s] = x]
         /\ Placed(my, s, x).roster = my.roster /\ Placed(my, s, x).drawn = my.drawn + 1
<1> DEFINE kept == [my EXCEPT !.slots[s] = x]
<1>1. /\ kept \in Knowledge /\ kept.drawn = my.drawn /\ my.drawn \in Nat
      /\ kept.roster = my.roster /\ kept.slots = [my.slots EXCEPT ![s] = x]
  BY DEF Knowledge
<1>2. Placed(my, s, x) = [kept EXCEPT !.drawn = my.drawn + 1]
  BY DEF Placed, Knowledge
<1> HIDE DEF kept
<1> QED BY <1>1, <1>2 DEF Knowledge

\* It is given to somebody who has none.
LEMMA Reassigned ==
  ASSUME NEW m \in Profiles, NEW my \in Knowledge, Sound(m, my), NEW s \in PeerSlots,
         NEW x \in SlotType, x.used, x.sess = <<m, my.drawn + 1>>, x.name = x.who,
         \A t \in PeerSlots : my.slots[t].used => my.slots[t].who # x.who
  PROVE  Sound(m, Placed(my, s, x)) /\ Later(my, Placed(my, s, x))
<1> DEFINE new == Placed(my, s, x)
<1>1. /\ new.slots = [my.slots EXCEPT ![s] = x] /\ new.roster = my.roster
      /\ new.drawn = my.drawn + 1 /\ my.drawn \in Nat /\ my.slots \in [PeerSlots -> SlotType]
  BY PlacedIs DEF Knowledge
<1> HIDE DEF new
<1>3. \A t \in PeerSlots : new.slots[t] = IF t = s THEN x ELSE my.slots[t]
  BY <1>1
<1>4. x.sess[1] = m /\ x.sess[2] = my.drawn + 1
  OBVIOUS
<1>5. \A t \in PeerSlots : my.slots[t].sess[2] \in Nat
  BY <1>1 DEF SlotType, Sessions
<1>6. Later(my, new)
  BY <1>1, <1>3, <1>4, <1>5 DEF Later
<1>7. \A t \in PeerSlots : my.slots[t].used => my.slots[t].sess # x.sess
  BY <1>1, <1>4, <1>5 DEF Sound
<1>8. \A t \in PeerSlots : t # s => (Waiting(m, my, t) => Waiting(m, new, t))
  BY <1>1, <1>3 DEF Waiting
<1>9. Sound(m, new)
  <2>1. ASSUME NEW t \in PeerSlots
        PROVE  /\ new.slots[t].used =>
                    /\ new.slots[t].name = new.slots[t].who \/ Waiting(m, new, t)
                    /\ new.slots[t].sess[1] = m /\ new.slots[t].sess[2] <= new.drawn
               /\ ~new.slots[t].used => ~new.slots[t].dials /\ ~new.slots[t].connected
    BY <1>1, <1>3, <1>4, <1>5, <1>8 DEF Sound
  <2>2. ASSUME NEW t \in PeerSlots, NEW r \in PeerSlots, new.slots[t].used, new.slots[r].used,
               new.slots[t].who = new.slots[r].who \/ new.slots[t].sess = new.slots[r].sess
        PROVE  t = r
    BY <2>2, <1>3, <1>7 DEF Sound
  <2> QED BY <2>1, <2>2 DEF Sound
<1> QED BY <1>6, <1>9 DEF new

\* A place of somebody who is now known by name.
LEMMA Answered ==
  ASSUME NEW m \in Profiles, NEW my \in Knowledge, Sound(m, my), NEW s \in PeerSlots,
         my.slots[s].used, NEW x \in SlotType, x.used, x.sess = my.slots[s].sess,
         x.who = my.slots[s].who, x.dials = my.slots[s].dials, x.name = x.who,
         NEW new, new = [my EXCEPT !.slots[s] = x]
  PROVE  new \in Knowledge /\ Sound(m, new) /\ Later(my, new)
<1>1. /\ new.slots = [my.slots EXCEPT ![s] = x] /\ new.roster = my.roster
      /\ new.drawn = my.drawn /\ my.drawn \in Nat /\ my.slots \in [PeerSlots -> SlotType]
  BY DEF Knowledge
<1>2. new \in Knowledge
  BY DEF Knowledge
<1>3. \A t \in PeerSlots : new.slots[t] = IF t = s THEN x ELSE my.slots[t]
  BY <1>1
<1>4. Later(my, new)
  BY <1>1, <1>3 DEF Later
<1>5. \A t \in PeerSlots : t # s => (Waiting(m, my, t) => Waiting(m, new, t))
  BY <1>1, <1>3 DEF Waiting
<1>6. Sound(m, new)
  <2>1. ASSUME NEW t \in PeerSlots
        PROVE  /\ new.slots[t].used =>
                    /\ new.slots[t].name = new.slots[t].who \/ Waiting(m, new, t)
                    /\ new.slots[t].sess[1] = m /\ new.slots[t].sess[2] <= new.drawn
               /\ ~new.slots[t].used => ~new.slots[t].dials /\ ~new.slots[t].connected
    BY <1>1, <1>3, <1>5 DEF Sound
  <2>2. ASSUME NEW t \in PeerSlots, NEW r \in PeerSlots, new.slots[t].used, new.slots[r].used,
               new.slots[t].who = new.slots[r].who \/ new.slots[t].sess = new.slots[r].sess
        PROVE  t = r
    BY <2>2, <1>3 DEF Sound
  <2> QED BY <2>1, <2>2 DEF Sound
<1> QED BY <1>2, <1>4, <1>6

\* Places whose musicians are at most no longer there.
LEMMA Touched ==
  ASSUME NEW m \in Profiles, NEW my \in Knowledge, Sound(m, my), NEW new \in Knowledge,
         new.drawn = my.drawn, new.roster = my.roster,
         \A s \in PeerSlots :
            /\ new.slots[s].used = my.slots[s].used /\ new.slots[s].dials = my.slots[s].dials
            /\ new.slots[s].name = my.slots[s].name /\ new.slots[s].who = my.slots[s].who
            /\ new.slots[s].at = my.slots[s].at /\ new.slots[s].settled = my.slots[s].settled
            /\ new.slots[s].sess = my.slots[s].sess
            /\ new.slots[s].connected => my.slots[s].connected
  PROVE  Sound(m, new) /\ Later(my, new)
<1>1. \A s \in PeerSlots : Waiting(m, my, s) => Waiting(m, new, s)
  BY DEF Waiting
<1>2. Sound(m, new)
  BY <1>1 DEF Sound
<1>3. Later(my, new)
  BY DEF Later, Knowledge
<1> QED BY <1>2, <1>3

-----------------------------------------------------------------------------
(* Reaching out.                                                             *)

LEMMA LowestIn ==
  ASSUME NEW S \in SUBSET PeerSlots, S # {}
  PROVE  Lowest(S) \in S
<1>1. S \in SUBSET Nat
  BY SlotsAssumption, FS_CardinalityType
<1>2. \E s \in S : \A t \in S : s <= t
  BY <1>1, Least
<1> QED BY <1>2 DEF Lowest

LEMMA FreeIsPlace ==
  ASSUME NEW my \in Knowledge
  PROVE  Free(my) \subseteq PeerSlots
<1> DEFINE unused == {s \in PeerSlots : ~my.slots[s].used}
<1>1. unused # {} => Lowest(unused) \in PeerSlots
  BY LowestIn
<1> QED BY <1>1 DEF Free

\* Nobody else's place is for n, if none has that name.
LEMMA NobodyElse ==
  ASSUME NEW m \in Profiles, NEW my \in Knowledge, Sound(m, my), NEW n \in Profiles,
         SlotNamed(my, n) = {}, NEW t \in PeerSlots, my.slots[t].used, my.slots[t].who = n
  PROVE  Waiting(m, my, t) /\ n = Creator
BY DEF SlotNamed, Sound, Waiting

LEMMA PreparedTyped ==
  ASSUME NEW old \in SlotType, NEW dials \in BOOLEAN, NEW sess \in Sessions
  PROVE  /\ Prepared(old, dials, sess) \in SlotType
         /\ Prepared(old, dials, sess).used /\ Prepared(old, dials, sess).dials = dials
         /\ Prepared(old, dials, sess).sess = sess
         /\ ~Prepared(old, dials, sess).connected
<1>1. NoSession \in Sessions
  BY DEF NoSession, Sessions, NoProfile
<1>2. Unused \in SlotType
  BY <1>1 DEF Unused, SlotType, People, Nowhere
<1>3. old.announced \in Nat /\ old.introducer \in BOOLEAN
  BY DEF SlotType
<1>4. Prepared(old, dials, sess) \in SlotType
  BY <1>2, <1>3 DEF Prepared, SlotType
<1> QED BY <1>4 DEF Prepared, Unused

LEMMA DialledTyped ==
  ASSUME NEW m \in Profiles, NEW n \in Profiles, NEW my \in Knowledge, NEW old \in SlotType
  PROVE  /\ Dialled(m, n, my, old) \in SlotType
         /\ Dialled(m, n, my, old).used /\ Dialled(m, n, my, old).sess = <<m, my.drawn + 1>>
         /\ Dialled(m, n, my, old).name = n /\ Dialled(m, n, my, old).who = n
<1> DEFINE r == Prepared(old, TRUE, <<m, my.drawn + 1>>)
<1>1. <<m, my.drawn + 1>> \in Sessions /\ my.roster[n] \in Nat
  BY ProfilesAssumption DEF Sessions, Knowledge
<1>2. r \in SlotType /\ r.used /\ r.sess = <<m, my.drawn + 1>>
  BY <1>1, PreparedTyped
<1>3. PICK near \in BOOLEAN : near <=> ({m, n} \in Near)
  <2>1. CASE {m, n} \in Near
    BY <2>1
  <2>2. CASE {m, n} \notin Near
    BY <2>2
  <2> QED BY <2>1, <2>2
<1>9. near = ({m, n} \in Near)
  BY <1>3, Zenon
<1>4. Dialled(m, n, my, old) = [r EXCEPT !.who = n, !.at = my.roster[n], !.name = n,
                                         !.settled = near]
  BY <1>9, Zenon DEF Dialled
<1> HIDE DEF r
<1> QED BY <1>1, <1>2, <1>4 DEF SlotType, People

LEMMA OpenMakes ==
  ASSUME NEW m \in Profiles, NEW my \in Knowledge, NEW n \in Profiles, CanAdmit(my), Free(my) # {}
  PROVE  \E s \in PeerSlots, x \in SlotType :
           /\ x.used /\ x.sess = <<m, my.drawn + 1>> /\ x.name = n /\ x.who = n
           /\ Open(m, n, my) = Placed(my, s, x)
<1> DEFINE s == Lowest(Free(my))
           x == Dialled(m, n, my, my.slots[s])
<1>1. s \in PeerSlots
  BY FreeIsPlace, LowestIn
<1>2. my.slots[s] \in SlotType
  BY <1>1 DEF Knowledge
<1>3. x \in SlotType /\ x.used /\ x.sess = <<m, my.drawn + 1>> /\ x.name = n /\ x.who = n
  BY <1>2, DialledTyped
<1>4. Open(m, n, my) = Placed(my, s, x)
  BY <1>1, <1>2 DEF Open, Placed, Knowledge
<1> QED BY <1>1, <1>3, <1>4

LEMMA OpenTyped ==
  ASSUME NEW m \in Profiles, NEW my \in Knowledge, NEW n \in Profiles
  PROVE  Open(m, n, my) \in Knowledge
<1>1. CASE ~(CanAdmit(my) /\ Free(my) # {})
  BY <1>1 DEF Open
<1>2. CASE CanAdmit(my) /\ Free(my) # {}
  <2>1. PICK s \in PeerSlots, x \in SlotType : Open(m, n, my) = Placed(my, s, x)
    BY <1>2, OpenMakes
  <2>2. Placed(my, s, x) \in Knowledge
    BY PlacedIs
  <2> QED BY <2>1, <2>2
<1> QED BY <1>1, <1>2

\* Reaching out to somebody who has no place yet.
LEMMA OpenKeeps ==
  ASSUME NEW m \in Profiles, NEW my \in Knowledge, Sound(m, my), NEW n \in Profiles,
         my.roster[n] # Nowhere, SlotNamed(my, n) = {}
  PROVE  /\ Sound(m, Open(m, n, my)) /\ Later(my, Open(m, n, my))
         /\ Open(m, n, my).roster = my.roster
         /\ \A k \in Profiles \ {n} : SlotNamed(my, k) = {} => SlotNamed(Open(m, n, my), k) = {}
<1>1. CASE ~(CanAdmit(my) /\ Free(my) # {})
  <2>1. Open(m, n, my) = my
    BY <1>1 DEF Open
  <2> QED BY <2>1, LaterItself
<1>2. CASE CanAdmit(my) /\ Free(my) # {}
  <2>1. PICK s \in PeerSlots, x \in SlotType :
          /\ x.used /\ x.sess = <<m, my.drawn + 1>> /\ x.name = n /\ x.who = n
          /\ Open(m, n, my) = Placed(my, s, x)
    BY <1>2, OpenMakes
  <2> DEFINE new == Open(m, n, my)
  <2>2. \A t \in PeerSlots : my.slots[t].used => my.slots[t].who # n
    BY NobodyElse DEF Waiting
  <2> HIDE DEF new
  <2>3. Sound(m, new) /\ Later(my, new)
    BY <2>1, <2>2, Reassigned DEF new
  <2>4. /\ new.roster = my.roster
        /\ \A t \in PeerSlots : new.slots[t] = IF t = s THEN x ELSE my.slots[t]
    <3>1. Placed(my, s, x).slots = [my.slots EXCEPT ![s] = x] /\ Placed(my, s, x).roster = my.roster
      BY PlacedIs
    <3>2. my.slots \in [PeerSlots -> SlotType]
      BY DEF Knowledge
    <3> QED BY <2>1, <3>1, <3>2 DEF new
  <2>5. \A k \in Profiles \ {n} : SlotNamed(my, k) = {} => SlotNamed(new, k) = {}
    BY <2>1, <2>4 DEF SlotNamed
  <2> QED BY <2>3, <2>4, <2>5 DEF new
<1> QED BY <1>1, <1>2

\* Of those a pass reaches out to nobody has a place, until it is their turn.
LEMMA OpenedKeeps ==
  ASSUME NEW m \in Profiles, NEW my \in Knowledge, Sound(m, my)
  PROVE  Opened(m, my) \in Knowledge /\ Sound(m, Opened(m, my)) /\ Later(my, Opened(m, my))
<1> DEFINE S == Pending(m, my)
           step == [x \in S \X Knowledge |-> Open(m, x[1], x[2])]
           Body(f) == [s \in SUBSET S |-> IF s = {} THEN my ELSE Open(m, Chosen(s), f[Rest(s)])]
           g == CHOOSE f : f = Body(f)
<1>1. IsFiniteSet(S)
  BY ProfilesAssumption, FS_Subset DEF Pending
<1>2. \A n \in S : n \in Profiles /\ my.roster[n] # Nowhere /\ SlotNamed(my, n) = {}
  BY DEF Pending
<1>3. Opened(m, my) = g[S]
  BY DEF Opened, FoldSet, MapThenFoldSet, Chosen, Rest
<1> HIDE DEF S
<1>4. g = Body(g) /\ \A s \in SUBSET S : g[s] \in Knowledge
  <2>1. step \in [S \X Knowledge -> Knowledge]
    BY <1>2, OpenTyped
  <2>2. PICK f \in [SUBSET S -> Knowledge] :
          \A s \in SUBSET S : f[s] = IF s = {} THEN my ELSE step[<<Chosen(s), f[Rest(s)]>>]
    <3> HIDE DEF step
    <3>1. \E f \in [SUBSET S -> Knowledge] : IsFold(f, S, my, step)
      BY <1>1, <2>1, FoldExists, ZenonT(30)
    <3> QED BY <3>1 DEF IsFold
  <2>3. \A s \in SUBSET S : s # {} => Chosen(s) \in S /\ Rest(s) \in SUBSET S
    BY <1>1, RestIsSmaller
  <2>4. \A s \in SUBSET S : s # {} => step[<<Chosen(s), f[Rest(s)]>>]
                                      = Open(m, Chosen(s), f[Rest(s)])
    BY <2>2, <2>3
  <2>5. f = Body(f)
    BY <2>2, <2>4
  <2>6. g = Body(g)
    BY <2>5
  <2> HIDE DEF g
  <2> DEFINE Typed == {s \in SUBSET S : g[s] \in Knowledge}
  <2>7. {} \in Typed
    BY <2>6
  <2>8. \A s \in SUBSET S : s # {} /\ Rest(s) \in Typed => s \in Typed
    <3>1. SUFFICES ASSUME NEW s \in SUBSET S, s # {}, Rest(s) \in Typed PROVE g[s] \in Knowledge
      OBVIOUS
    <3>2. PICK n \in Profiles : n = Chosen(s)
      BY <2>3, <1>2, <3>1
    <3>3. PICK v \in Knowledge : v = g[Rest(s)]
      BY <3>1
    <3>4. g[s] = Open(m, n, v)
      BY <2>6, <3>1, <3>2, <3>3
    <3> QED BY <3>4, OpenTyped
  <2>9. ASSUME NEW s \in SUBSET S PROVE s \in Typed
    <3>1. IsFiniteSet(s)
      BY <1>1, FS_Subset
    <3>2. \A t \in SUBSET s : t # {} /\ Rest(t) \in Typed => t \in Typed
      BY <2>8
    <3> HIDE DEF Typed
    <3> QED BY <2>7, <3>1, <3>2, SubsetsUp
  <2> QED BY <2>6, <2>9
<1> HIDE DEF g
<1> DEFINE Done(s) == /\ Sound(m, g[s]) /\ Later(my, g[s]) /\ g[s].roster = my.roster
                      /\ \A n \in S \ s : SlotNamed(g[s], n) = {}
           Good == {s \in SUBSET S : Done(s)}
<1>5. S \in Good
  <2>1. {} \in Good
    <3>1. g[{}] = my
      BY <1>4
    <3> QED BY <3>1, <1>2, LaterItself
  <2>2. ASSUME NEW s \in SUBSET S, s # {}, Rest(s) \in Good PROVE s \in Good
    <3>1. Chosen(s) \in s /\ Chosen(s) \in S /\ Rest(s) \in SUBSET S
      BY <1>1, <2>2, RestIsSmaller
    <3>2. PICK v \in Knowledge : v = g[Rest(s)]
      BY <1>4, <3>1
    <3>3. PICK n \in S : n = Chosen(s)
      BY <3>1
    <3>4. g[s] = Open(m, n, v) /\ g[s] \in Knowledge
      BY <1>4, <2>2, <3>2, <3>3
    <3>5. /\ Sound(m, v) /\ Later(my, v) /\ v.roster = my.roster
          /\ \A k \in S \ Rest(s) : SlotNamed(v, k) = {}
      BY <2>2, <3>2
    <3>6. n \in Profiles /\ v.roster[n] # Nowhere /\ SlotNamed(v, n) = {}
      BY <1>2, <3>3, <3>5 DEF Rest
    <3>7. /\ Sound(m, g[s]) /\ Later(v, g[s]) /\ g[s].roster = v.roster
          /\ \A k \in Profiles \ {n} : SlotNamed(v, k) = {} => SlotNamed(g[s], k) = {}
      BY <3>4, <3>5, <3>6, OpenKeeps
    <3>8. Later(my, g[s])
      BY <3>4, <3>5, <3>7, LaterStill
    <3>9. \A k \in S \ s : SlotNamed(g[s], k) = {}
      BY <3>1, <3>3, <3>5, <3>7, <1>2 DEF Rest
    <3> QED BY <3>5, <3>7, <3>8, <3>9
  <2> HIDE DEF Good
  <2> QED BY <1>1, <2>1, <2>2, SubsetsUp
<1> QED BY <1>3, <1>4, <1>5

LEMMA OnePacket == ASSUME NEW H, NEW p \in H PROVE <<p>> \in Seq(H)
OBVIOUS

LEMMA NoPacket == ASSUME NEW H PROVE <<>> \in Seq(H)
OBVIOUS

-----------------------------------------------------------------------------
(* What a pass sends.                                                        *)

\* That it was sent is noted.
LEMMA PassedOn ==
  ASSUME NEW m \in Profiles, NEW my \in Knowledge, Sound(m, my)
  PROVE  /\ AfterPass(my) \in Knowledge /\ Sound(m, AfterPass(my)) /\ Later(my, AfterPass(my))
<1> DEFINE x(s) == Passed(my, my.slots[s])
           new == AfterPass(my)
<1>1. my.slots \in [PeerSlots -> SlotType] /\ my.version \in Nat
  BY DEF Knowledge
<1>2. new = [my EXCEPT !.slots = [s \in PeerSlots |-> x(s)]]
  BY DEF AfterPass
<1>3. ASSUME NEW s \in PeerSlots
      PROVE  /\ x(s) \in SlotType
             /\ x(s).used = my.slots[s].used /\ x(s).dials = my.slots[s].dials
             /\ x(s).name = my.slots[s].name /\ x(s).who = my.slots[s].who
             /\ x(s).at = my.slots[s].at /\ x(s).settled = my.slots[s].settled
             /\ x(s).sess = my.slots[s].sess /\ x(s).connected = my.slots[s].connected
  <2>1. PICK slot \in SlotType : slot = my.slots[s]
    BY <1>1
  <2>2. slot.published \in BOOLEAN /\ slot.connected \in BOOLEAN /\ slot.announced \in Nat
    BY DEF SlotType
  <2>3. PICK seen \in BOOLEAN : seen = (slot.published \/ slot.connected)
    BY <2>2
  <2>4. PICK told \in Nat : told = IF slot.connected THEN my.version ELSE slot.announced
    BY <2>2, <1>1
  <2>5. x(s) = [slot EXCEPT !.published = seen, !.announced = told]
    BY <2>1, <2>3, <2>4 DEF Passed
  <2> HIDE DEF x
  <2> QED BY <2>1, <2>5 DEF SlotType
<1> HIDE DEF x
<1>4. new.slots = [s \in PeerSlots |-> x(s)] /\ new.drawn = my.drawn /\ new.roster = my.roster
  BY <1>2 DEF Knowledge
<1>5. new \in Knowledge
  BY <1>1, <1>2, <1>3 DEF Knowledge
<1> HIDE DEF new
<1>6. Sound(m, new) /\ Later(my, new)
  BY <1>3, <1>4, <1>5, Touched
<1> QED BY <1>5, <1>6 DEF new

LEMMA PacketTyped ==
  ASSUME MeshTypes, NEW m \in Profiles, NEW type \in {"Hello", "HelloAck", "Candidates"},
         NEW slot \in SlotType
  PROVE  Packet(m, type, slot) \in PacketType
BY DEF Packet, PacketType, MeshTypes, SlotType, People, Nowhere

LEMMA EntryIs ==
  ASSUME MeshTypes, NEW m \in Profiles, NEW slot \in SlotType, NEW n \in Profiles,
         NEW address \in Nat
  PROVE  /\ Entry(m, slot, n, address) \in PacketType
         /\ Entry(m, slot, n, address).type = "Candidates"
         /\ Entry(m, slot, n, address).from = m /\ Entry(m, slot, n, address).to = slot.who
         /\ Entry(m, slot, n, address).home = home[m] /\ Entry(m, slot, n, address).member = n
<1> DEFINE p == Packet(m, "Candidates", slot)
<1>1. p \in PacketType
  BY PacketTyped
<1>2. p.type = "Candidates" /\ p.from = m /\ p.to = slot.who /\ p.home = home[m]
  BY DEF Packet
<1> HIDE DEF p
<1>3. Entry(m, slot, n, address) = [p EXCEPT !.member = n, !.address = address]
  BY DEF Entry, p
<1> QED BY <1>1, <1>2, <1>3 DEF PacketType, People

\* The session of a place that reaches out is asked of whom the place is for.
LEMMA AsksItsOwn ==
  ASSUME NEW m \in Profiles, NEW my \in Knowledge, Sound(m, my), NEW s \in PeerSlots,
         my.slots[s].dials
  PROVE  AskedOf(m, my, my.slots[s].sess, my.slots[s].who)
<1>1. my.slots[s].used
  BY DEF Sound
<1> QED BY <1>1 DEF Sound, AskedOf

LEMMA HellosHonest ==
  ASSUME MeshTypes, home[Creator] = 1, NEW m \in Profiles, NEW my \in Knowledge, Sound(m, my),
         NEW s \in PeerSlots, NEW n \in Profiles, my.slots[s].who = n, NEW yours
  PROVE  Hellos(m, my.slots[s]) \in Seq(Honest(m, n, my, yours))
<1> DEFINE p == Packet(m, "Hello", my.slots[s])
<1>1. CASE ~my.slots[s].dials
  BY <1>1 DEF Hellos
<1>2. CASE my.slots[s].dials
  <2>1. my.slots[s] \in SlotType
    BY DEF Knowledge
  <2>2. p \in PacketType
    BY <2>1, PacketTyped
  <2>3. AskedOf(m, my, my.slots[s].sess, n)
    BY <1>2, AsksItsOwn
  <2>4. p.type = "Hello" /\ p.from = m /\ p.to = n /\ p.home = home[m] /\ p.sess = my.slots[s].sess
    BY DEF Packet
  <2>5. p \in Honest(m, n, my, yours)
    BY <2>2, <2>3, <2>4 DEF Honest
  <2> HIDE DEF p
  <2>6. Hellos(m, my.slots[s]) = <<p>> \/ Hellos(m, my.slots[s]) = <<>>
    BY DEF Hellos, p
  <2> QED BY <2>5, <2>6, OnePacket, NoPacket, Zenon
<1> QED BY <1>1, <1>2

\* Musicians describe themselves, and the creator describes anybody.
LEMMA EntryHonest ==
  ASSUME MeshTypes, home[Creator] = 1, NEW m \in Profiles, NEW slot \in SlotType,
         NEW k \in Profiles, NEW address \in Nat, m = Creator \/ k = m,
         NEW n \in Profiles, slot.who = n, NEW my, NEW yours
  PROVE  Entry(m, slot, k, address) \in Honest(m, n, my, yours)
<1> DEFINE p == Entry(m, slot, k, address)
<1>1. /\ p \in PacketType /\ p.type = "Candidates" /\ p.from = m /\ p.to = n
      /\ p.home = home[m] /\ p.member = k
  BY EntryIs
<1> HIDE DEF p
<1>2. p \in Honest(m, n, my, yours)
  BY <1>1 DEF Honest
<1> QED BY <1>2 DEF p

LEMMA ReportsHonest ==
  ASSUME MeshTypes, home[Creator] = 1, NEW m \in Profiles, NEW slot \in SlotType,
         NEW n \in Profiles, slot.who = n, NEW my, NEW yours
  PROVE  Reports(m, slot) \in Seq(Honest(m, n, my, yours))
<1> DEFINE p == Entry(m, slot, m, home[m])
<1>1. p \in Honest(m, n, my, yours)
  BY EntryHonest DEF MeshTypes
<1> HIDE DEF p
<1>2. Reports(m, slot) = <<p>> \/ Reports(m, slot) = <<>>
  BY DEF Reports, p
<1> QED BY <1>1, <1>2, OnePacket, NoPacket, Zenon

LEMMA IntroductionsHonest ==
  ASSUME MeshTypes, home[Creator] = 1, NEW m \in Profiles, NEW my \in Knowledge,
         NEW slot \in SlotType, NEW n \in Profiles, slot.who = n, NEW yours
  PROVE  Introductions(m, my, slot) \in Seq(Honest(m, n, my, yours))
<1> DEFINE S == {k \in Profiles : my.roster[k] # Nowhere /\ k \notin {m, slot.name}}
           H == Honest(m, n, my, yours)
           V == Seq(H)
           step == [x \in S \X V |-> Append(x[2], Entry(m, slot, x[1], my.roster[x[1]]))]
           Body(f) == [s \in SUBSET S |-> IF s = {} THEN <<>> ELSE
                         Append(f[Rest(s)], Entry(m, slot, Chosen(s), my.roster[Chosen(s)]))]
           g == CHOOSE f : f = Body(f)
<1>1. IsFiniteSet(S)
  BY ProfilesAssumption, FS_Subset
<1>2. CASE ~(m = Creator /\ slot.connected /\ Untold(my, slot))
  <2>1. Introductions(m, my, slot) = <<>>
    BY <1>2, Zenon DEF Introductions
  <2> QED BY <2>1, NoPacket
<1>3. CASE m = Creator /\ slot.connected /\ Untold(my, slot)
  <2>1. Introductions(m, my, slot) = g[S]
    BY <1>3 DEF Introductions, FoldSet, MapThenFoldSet, Chosen, Rest
  <2>2. \A k \in S : Entry(m, slot, k, my.roster[k]) \in H
    <3>1. SUFFICES ASSUME NEW k \in S PROVE Entry(m, slot, k, my.roster[k]) \in H
      OBVIOUS
    <3>2. k \in Profiles /\ my.roster[k] \in Nat
      BY DEF Knowledge
    <3> QED BY <1>3, <3>2, EntryHonest
  <2> HIDE DEF S, H
  <2>3. step \in [S \X V -> V]
    BY <2>2
  <2>4. <<>> \in V
    OBVIOUS
  <2>5. PICK f \in [SUBSET S -> V] : 
          \A s \in SUBSET S : f[s] = IF s = {} THEN <<>> ELSE step[<<Chosen(s), f[Rest(s)]>>]
    <3> HIDE DEF step, V
    <3>1. \E f \in [SUBSET S -> V] : IsFold(f, S, <<>>, step)
      BY <1>1, <2>3, <2>4, FoldExists, ZenonT(30)
    <3> QED BY <3>1 DEF IsFold
  <2>6. \A s \in SUBSET S : s # {} => Chosen(s) \in S /\ Rest(s) \in SUBSET S
    BY <1>1, RestIsSmaller
  <2>7. \A s \in SUBSET S : s # {} => step[<<Chosen(s), f[Rest(s)]>>]
                              = Append(f[Rest(s)], Entry(m, slot, Chosen(s), my.roster[Chosen(s)]))
    BY <2>5, <2>6
  <2>8. f = Body(f)
    BY <2>5, <2>7
  <2>9. g = Body(g)
    BY <2>8
  <2> HIDE DEF g, V
  <2> DEFINE Good == {s \in SUBSET S : g[s] \in V}
  <2>10. {} \in Good
    BY <2>4, <2>9
  <2>11. ASSUME NEW s \in SUBSET S, s # {}, Rest(s) \in Good PROVE s \in Good
    <3>1. g[s] = Append(g[Rest(s)], Entry(m, slot, Chosen(s), my.roster[Chosen(s)]))
      BY <2>9, <2>11
    <3>2. Entry(m, slot, Chosen(s), my.roster[Chosen(s)]) \in H
      BY <2>2, <2>6, <2>11
    <3>3. g[Rest(s)] \in Seq(H)
      BY <2>11 DEF V
    <3>4. g[s] \in Seq(H)
      BY <3>1, <3>2, <3>3
    <3> QED BY <2>11, <3>4 DEF V
  <2> HIDE DEF Good
  <2>12. S \in Good
    BY <1>1, <2>10, <2>11, SubsetsUp
  <2> QED BY <2>1, <2>12 DEF Good, V, H
<1> QED BY <1>2, <1>3

\* A pass sends what is honest, to whichever places are for n.
LEMMA PassSendsHonest ==
  ASSUME MeshTypes, home[Creator] = 1, NEW m \in Profiles, NEW my \in Knowledge, Sound(m, my),
         NEW n \in Profiles, NEW yours
  PROVE  PassSends(m, my, n) \in Seq(Honest(m, n, my, yours))
<1> DEFINE V == Seq(Honest(m, n, my, yours))
<1>1. <<>> \in V
  OBVIOUS
<1>2. ASSUME NEW s \in PeerSlots, NEW v \in V, my.slots[s].who = n
      PROVE  v \o Hellos(m, my.slots[s]) \o Reports(m, my.slots[s])
               \o Introductions(m, my, my.slots[s]) \in V
  <2>1. my.slots[s] \in SlotType
    BY DEF Knowledge
  <2>2. Hellos(m, my.slots[s]) \in V
    BY <1>2, HellosHonest
  <2>3. Reports(m, my.slots[s]) \in V
    BY <1>2, <2>1, ReportsHonest
  <2>4. Introductions(m, my, my.slots[s]) \in V
    BY <1>2, <2>1, IntroductionsHonest
  <2> QED BY <2>2, <2>3, <2>4
<1> HIDE DEF V
<1>3. PassSends(m, my, n) \in V
  BY <1>1, <1>2, PassSendsFold
<1> QED BY <1>3 DEF V

-----------------------------------------------------------------------------
(* Receiving.                                                                *)

\* What a handler may leave: yours is what the sender of the packet knows.
Kept(m, n, my, yours) ==
  {r \in [my : Knowledge, out : Seq(PacketType)] :
     Sound(m, r.my) /\ Later(my, r.my) /\ r.out \in Seq(Honest(m, n, r.my, yours))}

LEMMA KeptIs ==
  ASSUME NEW m, NEW n, NEW my, NEW yours, NEW new \in Knowledge, Sound(m, new), Later(my, new),
         NEW out \in Seq(Honest(m, n, new, yours))
  PROVE  [my |-> new, out |-> out] \in Kept(m, n, my, yours)
<1>1. Honest(m, n, new, yours) \subseteq PacketType
  BY DEF Honest
<1>2. out \in Seq(PacketType)
  BY <1>1
<1> QED BY <1>2 DEF Kept

LEMMA IgnoredKept ==
  ASSUME NEW m, NEW n, NEW my \in Knowledge, Sound(m, my), NEW yours
  PROVE  Ignored(my) \subseteq Kept(m, n, my, yours)
BY LaterItself, NoPacket, KeptIs DEF Ignored

\* A place after a request to join, or its answer.
Entered(slot, p) == [slot EXCEPT !.who = p.from, !.at = p.home, !.settled = TRUE,
                                 !.name = p.from, !.far = p.sess, !.connected = TRUE]

LEMMA EnteredIs ==
  ASSUME NEW slot \in SlotType, NEW p \in PacketType
  PROVE  /\ Entered(slot, p) \in SlotType
         /\ Entered(slot, p).used = slot.used /\ Entered(slot, p).dials = slot.dials
         /\ Entered(slot, p).sess = slot.sess /\ Entered(slot, p).who = p.from
         /\ Entered(slot, p).name = p.from /\ Entered(slot, p).far = p.sess
<1>1. p.from \in Profiles /\ p.home \in Nat /\ p.sess \in Sessions
  BY DEF PacketType
<1>2. Entered(slot, p) \in SlotType
  BY <1>1 DEF Entered, SlotType, People
<1> QED BY <1>2 DEF Entered, SlotType

Acked(m, slot, p) == IF Reached(Entered(slot, p)) THEN <<Packet(m, "HelloAck", Entered(slot, p))>>
                                                  ELSE <<>>

LEMMA AckHonest ==
  ASSUME MeshTypes, home[Creator] = 1, NEW m \in Profiles, NEW n \in Profiles, NEW my, NEW yours,
         NEW slot \in SlotType, NEW p \in Honest(n, m, yours, my), p.type = "Hello", NEW new
  PROVE  Acked(m, slot, p) \in Seq(Honest(m, n, new, yours))
<1> DEFINE in == Entered(slot, p)
           q == Packet(m, "HelloAck", in)
<1>1. p \in PacketType /\ p.from = n /\ AskedOf(n, yours, p.sess, m)
  BY DEF Honest
<1>2. in \in SlotType /\ in.who = n /\ in.far = p.sess
  BY <1>1, EnteredIs
<1> HIDE DEF in
<1>3. q \in PacketType
  BY <1>2, PacketTyped
<1>4. q.type = "HelloAck" /\ q.from = m /\ q.to = n /\ q.home = home[m] /\ q.far = p.sess
  BY <1>2 DEF Packet
<1> HIDE DEF q
<1>5. q \in Honest(m, n, new, yours)
  BY <1>1, <1>3, <1>4 DEF Honest
<1>6. Acked(m, slot, p) = <<q>> \/ Acked(m, slot, p) = <<>>
  BY DEF Acked, q, in
<1> QED BY <1>5, <1>6, OnePacket, NoPacket, Zenon

LEMMA JoinedIs ==
  ASSUME NEW m, NEW my, NEW p, NEW s
  PROVE  \/ Joined(m, my, p, s) = Ignored(my)
         \/ Joined(m, my, p, s) = {[my |-> [my EXCEPT !.slots[s] = Entered(my.slots[s], p)],
                                    out |-> Acked(m, my.slots[s], p)]}
BY DEF Joined, Entered, Acked

\* Somebody asks whose place is known.
LEMMA JoinedAgain ==
  ASSUME MeshTypes, home[Creator] = 1, NEW m \in Profiles, NEW n \in Profiles,
         NEW my \in Knowledge, Sound(m, my), NEW yours,
         NEW p \in Honest(n, m, yours, my), p.type = "Hello",
         NEW s \in PeerSlots, my.slots[s].used, my.slots[s].who = n
  PROVE  Joined(m, my, p, s) \subseteq Kept(m, n, my, yours)
<1> DEFINE x == Entered(my.slots[s], p)
           new == [my EXCEPT !.slots[s] = x]
           out == Acked(m, my.slots[s], p)
<1>1. my.slots[s] \in SlotType
  BY DEF Knowledge
<1>2. p \in PacketType /\ p.from = n
  BY DEF Honest
<1>3. /\ x \in SlotType /\ x.used /\ x.sess = my.slots[s].sess /\ x.who = my.slots[s].who
      /\ x.dials = my.slots[s].dials /\ x.name = x.who
  BY <1>1, <1>2, EnteredIs
<1> HIDE DEF x
<1>4. new \in Knowledge /\ Sound(m, new) /\ Later(my, new)
  BY <1>3, Answered
<1> HIDE DEF new
<1>5. out \in Seq(Honest(m, n, new, yours))
  BY <1>1, AckHonest
<1> HIDE DEF out
<1>6. [my |-> new, out |-> out] \in Kept(m, n, my, yours)
  BY <1>4, <1>5, KeptIs
<1>7. Joined(m, my, p, s) = Ignored(my) \/ Joined(m, my, p, s) = {[my |-> new, out |-> out]}
  BY JoinedIs DEF new, x, out
<1> QED BY <1>6, <1>7, IgnoredKept

\* A place of one's own is given to somebody who has none.
LEMMA JoinedAnew ==
  ASSUME MeshTypes, home[Creator] = 1, NEW m \in Profiles, NEW n \in Profiles,
         NEW my \in Knowledge, Sound(m, my), NEW yours,
         NEW p \in Honest(n, m, yours, my), p.type = "Hello",
         \A t \in PeerSlots : my.slots[t].used => my.slots[t].who # n,
         NEW s \in PeerSlots
  PROVE  Joined(m, Given(m, my, s), p, s) \subseteq Kept(m, n, my, yours)
<1> DEFINE slot == Prepared(my.slots[s], FALSE, <<m, my.drawn + 1>>)
           given == Given(m, my, s)
           x == Entered(slot, p)
           new == Placed(my, s, x)
           out == Acked(m, slot, p)
<1>1. my.slots[s] \in SlotType /\ <<m, my.drawn + 1>> \in Sessions
  BY ProfilesAssumption DEF Knowledge, Sessions
<1>2. p \in PacketType /\ p.from = n
  BY DEF Honest
<1>3. /\ slot \in SlotType /\ slot.used /\ slot.sess = <<m, my.drawn + 1>>
      /\ ~slot.dials /\ ~slot.connected
  BY <1>1, PreparedTyped
<1>4. given = Placed(my, s, slot)
  BY DEF Given, Placed, Knowledge
<1> HIDE DEF slot
<1>5. x \in SlotType /\ x.used /\ x.sess = <<m, my.drawn + 1>> /\ x.who = n /\ x.name = x.who
  BY <1>2, <1>3, EnteredIs
<1>6. given \in Knowledge /\ given.slots[s] = slot
  <2>1. given.slots = [my.slots EXCEPT ![s] = slot] /\ given \in Knowledge
    BY <1>3, <1>4, PlacedIs
  <2>2. my.slots \in [PeerSlots -> SlotType]
    BY DEF Knowledge
  <2> QED BY <2>1, <2>2
<1>7. [given EXCEPT !.slots[s] = x] = new
  <2> HIDE DEF x, given
  <2> QED BY <1>3, <1>4 DEF Placed, Knowledge
<1> HIDE DEF given
<1>8. out \in Seq(Honest(m, n, new, yours))
  BY <1>3, AckHonest
<1>9. new \in Knowledge /\ Sound(m, new) /\ Later(my, new)
  <2> HIDE DEF x
  <2>1. new \in Knowledge
    BY <1>5, PlacedIs
  <2> QED BY <1>5, <2>1, Reassigned
<1>10. Joined(m, given, p, s) = {[my |-> new, out |-> out]}
  BY <1>3, <1>6, <1>7 DEF Joined, Entered, Acked
<1> HIDE DEF new, out
<1>11. [my |-> new, out |-> out] \in Kept(m, n, my, yours)
  BY <1>8, <1>9, KeptIs
<1> QED BY <1>10, <1>11 DEF given

\* Somebody without a place, who is not waited for either: a guest waits for
\* the creator alone, at the creator's only address.
LEMMA OnHelloKeeps ==
  ASSUME MeshTypes, home[Creator] = 1, NEW m \in Profiles, NEW n \in Profiles,
         NEW my \in Knowledge, Sound(m, my), NEW yours,
         NEW p \in Honest(n, m, yours, my), p.type = "Hello"
  PROVE  OnHello(m, my, p) \subseteq Kept(m, n, my, yours)
<1>1. p.from = n /\ (n = Creator => p.home = 1) /\ n # NoProfile
  BY ProfilesAssumption DEF Honest, NoProfile
<1>2. SlotsAt(my, p) \subseteq PeerSlots
  BY DEF SlotsAt
<1>3. \/ SlotsAt(my, p) # {} /\ SlotFor(my, p) = {Lowest(SlotsAt(my, p))}
      \/ SlotsAt(my, p) = {} /\ SlotFor(my, p) = {}
  BY DEF SlotFor
<1>4. ASSUME NEW s \in PlaceOf(my, p)
      PROVE  s \in PeerSlots /\ my.slots[s].used /\ my.slots[s].who = n
  <2>1. CASE SlotsAt(my, p) # {}
    <3>1. s \in SlotsAt(my, p)
      BY <1>2, <1>3, <1>4, <2>1, LowestIn DEF PlaceOf
    <3> QED BY <3>1, <1>1 DEF SlotsAt
  <2>2. CASE SlotsAt(my, p) = {}
    <3>1. s \in SlotNamed(my, n)
      BY <1>1, <1>3, <1>4, <2>2 DEF PlaceOf
    <3> QED BY <3>1, <1>1 DEF SlotNamed, Sound, Waiting
  <2> QED BY <2>1, <2>2
<1>5. CASE PlaceOf(my, p) # {}
  <2>1. Lowest(PlaceOf(my, p)) \in PlaceOf(my, p)
    BY <1>4, <1>5, LowestIn
  <2>2. OnHello(m, my, p) = Joined(m, my, p, Lowest(PlaceOf(my, p)))
    BY <1>5 DEF OnHello
  <2> QED BY <2>1, <2>2, <1>4, JoinedAgain
<1>6. CASE PlaceOf(my, p) = {}
  <2>1. SlotsAt(my, p) = {} /\ SlotNamed(my, n) = {}
    BY <1>1, <1>3, <1>6 DEF PlaceOf
  <2>2. \A t \in PeerSlots : my.slots[t].used => my.slots[t].who # n
    <3>1. SUFFICES ASSUME NEW t \in PeerSlots, my.slots[t].used, my.slots[t].who = n PROVE FALSE
      OBVIOUS
    <3>2. Waiting(m, my, t) /\ n = Creator
      BY <2>1, <3>1, NobodyElse
    <3>3. t \in SlotsAt(my, p)
      BY <1>1, <3>1, <3>2 DEF SlotsAt, Waiting
    <3> QED BY <2>1, <3>3
  <2>3. CASE CanAdmit(my)
    <3>1. OnHello(m, my, p) = UNION {Joined(m, Given(m, my, s), p, s) : s \in Free(my)}
      BY <1>6, <2>3 DEF OnHello
    <3>2. \A s \in Free(my) : Joined(m, Given(m, my, s), p, s) \subseteq Kept(m, n, my, yours)
      BY <2>2, FreeIsPlace, JoinedAnew
    <3> QED BY <3>1, <3>2
  <2>4. CASE ~CanAdmit(my)
    <3>1. OnHello(m, my, p) = Ignored(my)
      BY <1>6, <2>4 DEF OnHello
    <3> QED BY <3>1, IgnoredKept
  <2> QED BY <2>3, <2>4
<1> QED BY <1>5, <1>6

\* An answer is for the session that asked, and so from whom it asked.
LEMMA OnAnswerKeeps ==
  ASSUME NEW m \in Profiles, NEW n \in Profiles, NEW my \in Knowledge, Sound(m, my), NEW yours,
         NEW p \in Honest(n, m, yours, my), p.type = "HelloAck"
  PROVE  OnAnswer(my, p) \subseteq Kept(m, n, my, yours)
<1> DEFINE asked == {s \in SlotFor(my, p) : my.slots[s].dials /\ p.far = my.slots[s].sess}
           new(s) == [my EXCEPT !.slots[s] = Entered(my.slots[s], p)]
<1>1. p \in PacketType /\ p.from = n /\ AskedOf(m, my, p.far, n)
  BY DEF Honest
<1>2. OnAnswer(my, p) \subseteq Ignored(my) \union {[my |-> new(s), out |-> <<>>] : s \in asked}
  BY DEF OnAnswer, Entered
<1>3. ASSUME NEW s \in asked PROVE [my |-> new(s), out |-> <<>>] \in Kept(m, n, my, yours)
  <2>1. s \in PeerSlots
    <3>1. SlotsAt(my, p) \subseteq PeerSlots /\ Reaching(my) \subseteq PeerSlots
      BY DEF SlotsAt, Reaching
    <3> QED BY <3>1, LowestIn DEF SlotFor
  <2>2. my.slots[s].used /\ my.slots[s] \in SlotType
    BY <2>1 DEF Sound, Knowledge
  <2>3. my.slots[s].who = n
    BY <1>1, <2>1, <2>2 DEF AskedOf
  <2> DEFINE x == Entered(my.slots[s], p)
  <2>4. /\ x \in SlotType /\ x.used /\ x.sess = my.slots[s].sess /\ x.who = my.slots[s].who
        /\ x.dials = my.slots[s].dials /\ x.name = x.who
    BY <1>1, <2>2, <2>3, EnteredIs
  <2> HIDE DEF x
  <2>5. PICK v \in Knowledge : v = [my EXCEPT !.slots[s] = x] /\ Sound(m, v) /\ Later(my, v)
    BY <2>1, <2>2, <2>4, Answered
  <2>6. [my |-> v, out |-> <<>>] \in Kept(m, n, my, yours)
    BY <2>5, NoPacket, KeptIs
  <2> QED BY <2>5, <2>6 DEF x
<1> HIDE DEF asked, new
<1> QED BY <1>2, <1>3, IgnoredKept

\* While the creator has yet to answer, nobody speaks of the creator.
LEMMA OnCandidatesKeeps ==
  ASSUME NEW m \in Profiles, NEW n \in Profiles, NEW my \in Knowledge, Sound(m, my), NEW yours,
         NEW p \in Honest(n, m, yours, my), p.type = "Candidates"
  PROVE  OnCandidates(m, my, p) \subseteq Kept(m, n, my, yours)
<1>1. CASE ~Believed(m, my, p)
  BY <1>1, IgnoredKept DEF OnCandidates
<1>2. CASE Believed(m, my, p)
  <2>1. p \in PacketType /\ p.from = n /\ (n = Creator \/ p.member = n) /\ p.address \in Nat
    BY DEF Honest, PacketType
  <2>2. /\ my.slots \in [PeerSlots -> SlotType] /\ my.roster \in [Profiles -> Nat]
        /\ my.version \in Nat /\ my.drawn \in Nat
    BY DEF Knowledge
  <2> DEFINE roster == Remembered(my.roster, p.member, p.address)
             version == IF m = Creator THEN my.version + 1 ELSE my.version
             new == [my EXCEPT !.roster = roster, !.version = version]
  <2>3. roster \in [Profiles -> Nat] /\ version \in Nat
    <3>1. version \in Nat
      BY <2>2
    <3>2. roster = my.roster \/ roster = [my.roster EXCEPT ![p.member] = p.address]
      BY DEF Remembered
    <3>3. [my.roster EXCEPT ![p.member] = p.address] \in [Profiles -> Nat]
      BY <2>1, <2>2
    <3> QED BY <2>2, <3>1, <3>2, <3>3
  <2>4. OnCandidates(m, my, p) = {[my |-> new, out |-> <<>>]}
    BY <1>2, <2>2 DEF OnCandidates, Knowledge
  <2>5. ASSUME NEW t \in PeerSlots, my.slots[t].used, Waiting(m, my, t)
        PROVE  roster[Creator] = Nowhere
    <3>1. CASE n = Creator
      <4>1. PICK s \in SlotFor(my, p) : my.slots[s].connected
        BY <1>2 DEF Believed
      <4>2. SlotFor(my, p) = {Lowest(SlotsAt(my, p))} /\ SlotsAt(my, p) # {}
        BY <4>1 DEF SlotFor
      <4>3. SlotsAt(my, p) \subseteq PeerSlots
        BY DEF SlotsAt
      <4>4. s \in SlotsAt(my, p)
        BY <4>1, <4>2, <4>3, LowestIn
      <4>5. s \in PeerSlots /\ my.slots[s].used /\ my.slots[s].who = Creator
        BY <2>1, <3>1, <4>4 DEF SlotsAt
      <4>6. s = t
        BY <2>5, <4>5 DEF Sound, Waiting
      <4> QED BY <2>5, <4>1, <4>6 DEF Waiting
    <3>2. CASE n # Creator
      <4>1. my.roster[Creator] = Nowhere /\ p.member # Creator
        BY <2>1, <2>5, <3>2 DEF Waiting
      <4> QED BY <2>2, <4>1 DEF Remembered
    <3> QED BY <3>1, <3>2
  <2> HIDE DEF roster, version
  <2>6. new \in Knowledge /\ new.slots = my.slots /\ new.drawn = my.drawn /\ new.roster = roster
    BY <2>3 DEF Knowledge
  <2> HIDE DEF new
  <2>7. \A t \in PeerSlots : my.slots[t].used /\ Waiting(m, my, t) => Waiting(m, new, t)
    BY <2>5, <2>6 DEF Waiting
  <2>8. Sound(m, new)
    BY <2>6, <2>7 DEF Sound
  <2>9. Later(my, new)
    BY <2>2, <2>6 DEF Later
  <2>10. [my |-> new, out |-> <<>>] \in Kept(m, n, my, yours)
    BY <2>6, <2>8, <2>9, NoPacket, KeptIs
  <2> QED BY <2>4, <2>10
<1> QED BY <1>1, <1>2

LEMMA ReceivedKept ==
  ASSUME MeshTypes, home[Creator] = 1, NEW m \in Profiles, NEW n \in Profiles,
         NEW my \in Knowledge, Sound(m, my), NEW yours, NEW p \in Honest(n, m, yours, my)
  PROVE  Received(m, my, p) \subseteq Kept(m, n, my, yours)
<1>1. p.type \in {"Hello", "HelloAck", "Candidates"}
  BY DEF Honest, PacketType
<1>2. CASE p.type = "Hello"
  BY <1>2, OnHelloKeeps DEF Received
<1>3. CASE p.type = "HelloAck"
  BY <1>3, OnAnswerKeeps DEF Received
<1>4. CASE p.type = "Candidates"
  BY <1>4, OnCandidatesKeeps DEF Received
<1> QED BY <1>1, <1>2, <1>3, <1>4

-----------------------------------------------------------------------------
(* The steps.                                                                *)

\* Only m's worker learns something.
LEMMA OneLearns ==
  ASSUME MeshInv, NEW m \in Profiles, NEW new \in Knowledge, Sound(m, new), Later(me[m], new),
         me' = [me EXCEPT ![m] = new]
  PROVE  /\ me' \in [Profiles -> Knowledge] /\ me'[m] = new
         /\ \A a \in Profiles : /\ Sound(a, me'[a]) /\ Later(me[a], me'[a])
                                /\ a # m => me'[a] = me[a]
<1>1. me \in [Profiles -> Knowledge] /\ \A a \in Profiles : me[a] \in Knowledge
  BY DEF MeshInv, MeshTypes
<1>2. \A a \in Profiles : me'[a] = IF a = m THEN new ELSE me[a]
  BY <1>1
<1>3. me' \in [Profiles -> Knowledge]
  BY <1>1
<1> QED BY <1>1, <1>2, <1>3, LaterItself DEF MeshInv

\* What was honest when it was sent remains so.
LEMMA WireStays ==
  ASSUME MeshInv, me' \in [Profiles -> Knowledge], \A a \in Profiles : Later(me[a], me'[a]),
         NEW a \in Profiles, NEW b \in Profiles
  PROVE  wire[<<a, b>>] \in Seq(Honest(a, b, me'[a], me'[b]))
<1>1. wire[<<a, b>>] \in Seq(Honest(a, b, me[a], me[b]))
  BY DEF MeshInv, WireInv
<1>2. \A c \in Profiles : me[c] \in Knowledge /\ me'[c] \in Knowledge
  BY DEF MeshInv, MeshTypes
<1> QED BY <1>1, <1>2, StillHonest

LEMMA WireFrom ==
  ASSUME wire' \in [Pairs -> Seq(PacketType)],
         \A a, b \in Profiles : wire'[<<a, b>>] \in Seq(Honest(a, b, me'[a], me'[b]))
  PROVE  WireInv'
BY DEF WireInv

LEMMA HonestTyped ==
  ASSUME NEW a, NEW b, NEW mine, NEW yours
  PROVE  Seq(Honest(a, b, mine, yours)) \subseteq Seq(PacketType)
<1>1. Honest(a, b, mine, yours) \subseteq PacketType
  BY DEF Honest
<1> QED BY <1>1

LEMMA Longer == ASSUME NEW H, NEW q \in Seq(H), NEW r \in Seq(H) PROVE q \o r \in Seq(H)
OBVIOUS

LEMMA Shorter == ASSUME NEW H, NEW q \in Seq(H), q # <<>> PROVE Head(q) \in H /\ Tail(q) \in Seq(H)
OBVIOUS

\* m sends, and takes a packet from n if n is somebody.
LEMMA SendsKeep ==
  ASSUME MeshInv, me' \in [Profiles -> Knowledge], \A a \in Profiles : Later(me[a], me'[a]),
         NEW m \in Profiles, NEW n \in People, n \in Profiles => wire[<<n, m>>] # <<>>,
         NEW sent, \A b \in Profiles : sent[b] \in Seq(Honest(m, b, me'[m], me'[b])),
         wire' = [pair \in Pairs |-> IF pair[1] = m THEN wire[pair] \o sent[pair[2]]
                                     ELSE IF pair = <<n, m>> THEN Tail(wire[pair])
                                     ELSE wire[pair]]
  PROVE  WireInv'
<1>1. ASSUME NEW a \in Profiles, NEW b \in Profiles
      PROVE  wire'[<<a, b>>] \in Seq(Honest(a, b, me'[a], me'[b]))
  <2>0. PICK H : H = Honest(a, b, me'[a], me'[b])
    OBVIOUS
  <2>1. wire[<<a, b>>] \in Seq(H)
    BY <2>0, WireStays
  <2>2. wire'[<<a, b>>] = IF a = m THEN wire[<<a, b>>] \o sent[b]
                          ELSE IF <<a, b>> = <<n, m>> THEN Tail(wire[<<a, b>>]) ELSE wire[<<a, b>>]
    BY DEF Pairs
  <2>3. a = m => sent[b] \in Seq(H)
    BY <2>0
  <2>4. wire'[<<a, b>>] \in Seq(H)
    <3>1. CASE a = m
      BY <2>1, <2>2, <2>3, <3>1, Longer
    <3>2. CASE a # m /\ <<a, b>> = <<n, m>>
      BY <2>1, <2>2, <3>2, Shorter
    <3>3. CASE a # m /\ <<a, b>> # <<n, m>>
      BY <2>1, <2>2, <3>3
    <3> QED BY <3>1, <3>2, <3>3
  <2> QED BY <2>0, <2>4
<1>2. ASSUME NEW pair \in Pairs PROVE wire'[pair] \in Seq(PacketType)
  <2>1. PICK a \in Profiles, b \in Profiles : pair = <<a, b>>
    BY DEF Pairs
  <2> QED BY <2>1, <1>1, HonestTyped
<1>3. wire' \in [Pairs -> Seq(PacketType)]
  <2>1. DOMAIN wire' = Pairs /\ wire' = [pair \in Pairs |-> wire'[pair]]
    OBVIOUS
  <2> QED BY <2>1, <1>2
<1> QED BY <1>1, <1>3, WireFrom

LEMMA PassKeeps ==
  ASSUME MeshInv, NEW m \in Profiles, Pass(m)
  PROVE  MeshInv'
<1> DEFINE my == Opened(m, me[m])
           new == AfterPass(my)
           sent == [b \in Profiles |-> PassSends(m, my, b)]
<1>1. MeshTypes /\ home[Creator] = 1 /\ me[m] \in Knowledge /\ Sound(m, me[m])
  BY DEF MeshInv, MeshTypes
<1>2. my \in Knowledge /\ Sound(m, my) /\ Later(me[m], my)
  BY <1>1, OpenedKeeps
<1>3. me' = [me EXCEPT ![m] = new] /\ up[m] /\ UNCHANGED <<up, home, lost>>
  BY DEF Pass
<1>4. wire' = [pair \in Pairs |-> IF pair[1] = m THEN wire[pair] \o sent[pair[2]]
                                  ELSE IF pair = <<NoProfile, m>> THEN Tail(wire[pair])
                                  ELSE wire[pair]]
  BY DEF Pass, Transmitted
<1> HIDE DEF my
<1>5. new \in Knowledge /\ Sound(m, new) /\ Later(my, new)
  BY <1>2, PassedOn
<1> HIDE DEF new
<1>6. Later(me[m], new)
  BY <1>1, <1>2, <1>5, LaterStill
<1>7. /\ me' \in [Profiles -> Knowledge] /\ me'[m] = new
      /\ \A a \in Profiles : /\ Sound(a, me'[a]) /\ Later(me[a], me'[a])
                             /\ a # m => me'[a] = me[a]
  BY <1>3, <1>5, <1>6, OneLearns
<1>8. ASSUME NEW b \in Profiles PROVE sent[b] \in Seq(Honest(m, b, me'[m], me'[b]))
  <2>1. PassSends(m, my, b) \in Seq(Honest(m, b, my, me'[b]))
    BY <1>1, <1>2, PassSendsHonest
  <2>2. me'[b] \in Knowledge
    BY <1>7
  <2>3. Seq(Honest(m, b, my, me'[b])) \subseteq Seq(Honest(m, b, new, me'[b]))
    BY <1>2, <1>5, <2>2, LaterItself, StillHonest
  <2> QED BY <1>7, <2>1, <2>3
<1> HIDE DEF sent
<1>9. NoProfile \in People /\ NoProfile \notin Profiles
  BY ProfilesAssumption DEF People, NoProfile
<1>10. WireInv'
  BY <1>4, <1>7, <1>8, <1>9, SendsKeep
<1>11. MeshTypes'
  BY <1>1, <1>3, <1>7 DEF MeshTypes
<1>12. DownInv'
  BY <1>3, <1>7 DEF DownInv, MeshInv
<1> QED BY <1>1, <1>3, <1>7, <1>10, <1>11, <1>12 DEF MeshInv

LEMMA ReceiveKeeps ==
  ASSUME MeshInv, NEW m \in Profiles, NEW n \in Profiles, Receive(m, n)
  PROVE  MeshInv'
<1> DEFINE p == Head(wire[<<n, m>>])
<1>1. /\ MeshTypes /\ home[Creator] = 1 /\ me[m] \in Knowledge /\ me[n] \in Knowledge
      /\ Sound(m, me[m])
  BY DEF MeshInv, MeshTypes
<1>2. wire[<<n, m>>] # <<>> /\ wire[<<n, m>>] \in Seq(Honest(n, m, me[n], me[m]))
  BY DEF Receive, MeshInv, WireInv
<1>3. p \in Honest(n, m, me[n], me[m])
  BY <1>2, Shorter
<1>4. PICK r \in Received(m, me[m], p) :
        /\ me' = [me EXCEPT ![m] = r.my]
        /\ Transmitted(m, n, [to \in Profiles |-> IF to = n THEN r.out ELSE <<>>])
  BY DEF Receive
<1> HIDE DEF p
<1>5. r \in Kept(m, n, me[m], me[n])
  BY <1>1, <1>3, ReceivedKept
<1>6. /\ r.my \in Knowledge /\ Sound(m, r.my) /\ Later(me[m], r.my)
      /\ r.out \in Seq(Honest(m, n, r.my, me[n]))
  BY <1>5 DEF Kept
<1>7. /\ me' \in [Profiles -> Knowledge] /\ me'[m] = r.my
      /\ \A a \in Profiles : /\ Sound(a, me'[a]) /\ Later(me[a], me'[a])
                             /\ a # m => me'[a] = me[a]
  BY <1>4, <1>6, OneLearns
<1> DEFINE sent == [b \in Profiles |-> IF b = n THEN r.out ELSE <<>>]
<1>8. ASSUME NEW b \in Profiles PROVE sent[b] \in Seq(Honest(m, b, me'[m], me'[b]))
  <2>1. me'[n] \in Knowledge /\ Later(me[n], me'[n])
    BY <1>7
  <2>2. Seq(Honest(m, n, r.my, me[n])) \subseteq Seq(Honest(m, n, r.my, me'[n]))
    BY <1>1, <1>6, <2>1, LaterItself, StillHonest
  <2>3. CASE b = n
    BY <1>6, <1>7, <2>2, <2>3
  <2>4. CASE b # n
    BY <2>4, NoPacket
  <2> QED BY <2>3, <2>4
<1>9. wire' = [pair \in Pairs |-> IF pair[1] = m THEN wire[pair] \o sent[pair[2]]
                                  ELSE IF pair = <<n, m>> THEN Tail(wire[pair])
                                  ELSE wire[pair]]
  BY <1>4 DEF Pairs, Transmitted
<1> HIDE DEF sent
<1>10. n \in People
  BY DEF People
<1>11. WireInv'
  BY <1>2, <1>7, <1>8, <1>9, <1>10, SendsKeep
<1>12. up[m] /\ UNCHANGED <<up, home, lost>>
  BY DEF Receive
<1>13. MeshTypes'
  BY <1>1, <1>7, <1>12 DEF MeshTypes
<1>14. DownInv'
  BY <1>7, <1>12 DEF DownInv, MeshInv
<1> QED BY <1>1, <1>7, <1>11, <1>12, <1>13, <1>14 DEF MeshInv

LEMMA LoseKeeps ==
  ASSUME MeshInv, NEW m \in Profiles, NEW n \in Profiles, Lose(n, m)
  PROVE  MeshInv'
<1>1. /\ wire[<<n, m>>] # <<>> /\ wire' = [wire EXCEPT ![<<n, m>>] = Tail(@)]
      /\ lost' = lost + 1 /\ UNCHANGED <<up, home, me>>
  BY DEF Lose
<1>2. wire \in [Pairs -> Seq(PacketType)] /\ lost \in Nat /\ <<n, m>> \in Pairs
  BY DEF MeshInv, WireInv, MeshTypes, Pairs
<1>3. \A a, b \in Profiles : <<a, b>> \in Pairs
  BY DEF Pairs
<1>4. ASSUME NEW a \in Profiles, NEW b \in Profiles
      PROVE  wire'[<<a, b>>] \in Seq(Honest(a, b, me'[a], me'[b]))
  <2> DEFINE H == Honest(a, b, me'[a], me'[b])
  <2>1. wire[<<a, b>>] \in Seq(H)
    BY <1>1 DEF MeshInv, WireInv
  <2>2. wire'[<<a, b>>] = IF <<a, b>> = <<n, m>> THEN Tail(wire[<<a, b>>]) ELSE wire[<<a, b>>]
    BY <1>1, <1>2, <1>3
  <2> HIDE DEF H
  <2>3. wire'[<<a, b>>] \in Seq(H)
    BY <1>1, <2>1, <2>2, Shorter
  <2> QED BY <2>3 DEF H
<1>5. wire' \in [Pairs -> Seq(PacketType)]
  <2>1. Tail(wire[<<n, m>>]) \in Seq(PacketType)
    BY <1>1, <1>2, Shorter
  <2> QED BY <1>1, <1>2, <2>1
<1>6. WireInv'
  BY <1>4, <1>5, WireFrom
<1> QED BY <1>1, <1>2, <1>6 DEF MeshInv, MeshTypes, DownInv

\* A step of m's worker alone, that sends nothing.
LEMMA AloneKeeps ==
  ASSUME MeshInv, NEW m \in Profiles, NEW new \in Knowledge, Sound(m, new), Later(me[m], new),
         me' = [me EXCEPT ![m] = new], UNCHANGED <<home, wire, lost>>,
         up' \in [Profiles -> BOOLEAN], up'[m], \A a \in Profiles : a # m => up'[a] = up[a]
  PROVE  MeshInv'
<1>1. /\ me' \in [Profiles -> Knowledge] /\ me'[m] = new
      /\ \A a \in Profiles : /\ Sound(a, me'[a]) /\ Later(me[a], me'[a])
                             /\ a # m => me'[a] = me[a]
  BY OneLearns
<1>2. \A a, b \in Profiles : wire'[<<a, b>>] \in Seq(Honest(a, b, me'[a], me'[b]))
  BY <1>1, WireStays
<1>3. WireInv'
  BY <1>2, WireFrom DEF MeshInv, WireInv
<1>4. MeshTypes'
  BY <1>1 DEF MeshInv, MeshTypes
<1>5. DownInv'
  BY <1>1 DEF MeshInv, DownInv
<1> QED BY <1>1, <1>3, <1>4, <1>5 DEF MeshInv

LEMMA ExpireKeeps ==
  ASSUME MeshInv, NEW m \in Profiles, NEW s \in PeerSlots, Expire(m, s)
  PROVE  MeshInv'
<1> DEFINE my == me[m]
           x == [my.slots[s] EXCEPT !.connected = FALSE, !.published = FALSE]
           new == [my EXCEPT !.slots[s] = x]
<1>1. /\ my \in Knowledge /\ Sound(m, my) /\ my.slots \in [PeerSlots -> SlotType]
      /\ me \in [Profiles -> Knowledge] /\ up \in [Profiles -> BOOLEAN]
  BY DEF MeshInv, MeshTypes, Knowledge
<1>2. my.slots[s] \in SlotType
  BY <1>1
<1>3. me' = [me EXCEPT ![m] = new]
  BY <1>1, <1>2 DEF Expire
<1>4. x \in SlotType
  BY <1>2 DEF SlotType
<1>5. /\ x.used = my.slots[s].used /\ x.dials = my.slots[s].dials /\ x.name = my.slots[s].name
      /\ x.who = my.slots[s].who /\ x.at = my.slots[s].at /\ x.settled = my.slots[s].settled
      /\ x.sess = my.slots[s].sess /\ ~x.connected
  BY <1>2 DEF SlotType
<1> HIDE DEF x
<1>6. new \in Knowledge /\ new.drawn = my.drawn /\ new.roster = my.roster
      /\ new.slots = [my.slots EXCEPT ![s] = x]
  BY <1>1, <1>4 DEF Knowledge
<1>7. \A t \in PeerSlots : new.slots[t] = IF t = s THEN x ELSE my.slots[t]
  BY <1>1, <1>6
<1> HIDE DEF new, my
<1>8. Sound(m, new) /\ Later(my, new)
  BY <1>1, <1>5, <1>6, <1>7, Touched
<1>9. up[m] /\ UNCHANGED <<up, home, wire, lost>>
  BY DEF Expire
<1> QED BY <1>1, <1>3, <1>6, <1>8, <1>9, AloneKeeps DEF my

LEMMA DrawnOne ==
  ASSUME NEW my \in Knowledge, NEW new, new = [my EXCEPT !.drawn = my.drawn + 1]
  PROVE  /\ new \in Knowledge /\ new.roster = my.roster /\ new.slots = my.slots
         /\ new.drawn = my.drawn + 1
<1>1. my.drawn + 1 \in Nat
  BY DEF Knowledge
<1> QED BY <1>1 DEF Knowledge

\* A new transport waits for the creator.
LEMMA JoinRoomKeeps ==
  ASSUME MeshInv, NEW g \in Guests, JoinRoom(g)
  PROVE  MeshInv'
<1> DEFINE my == me[g]
           intro == [Unused EXCEPT !.introducer = TRUE]
           fresh == Prepared(intro, TRUE, <<g, my.drawn + 1>>)
           x == [fresh EXCEPT !.who = Creator, !.at = home[Creator], !.settled = TRUE]
           new == Placed(my, 1, x)
<1>1. /\ g \in Profiles /\ g # Creator /\ g \in Nat /\ Creator \in Profiles /\ home[Creator] = 1
      /\ my \in Knowledge /\ Sound(g, my) /\ me \in [Profiles -> Knowledge]
      /\ up \in [Profiles -> BOOLEAN]
  BY ProfilesAssumption DEF MeshInv, MeshTypes, Guests
<1>2. /\ ~up[g] /\ up' = [up EXCEPT ![g] = TRUE] /\ UNCHANGED <<home, wire, lost>>
  BY DEF JoinRoom
<1>3. (\A s \in PeerSlots : ~my.slots[s].used) /\ my.roster[Creator] = Nowhere
  BY <1>1, <1>2 DEF MeshInv, DownInv
<1>4. /\ my.drawn \in Nat /\ my.slots \in [PeerSlots -> SlotType]
      /\ <<g, my.drawn + 1>> \in Sessions
  BY <1>1 DEF Knowledge, Sessions
<1>5. intro \in SlotType
  BY DEF Unused, SlotType, People, Nowhere, NoSession, Sessions, NoProfile
<1>6. /\ fresh \in SlotType /\ fresh.used /\ fresh.dials /\ ~fresh.connected
      /\ fresh.sess = <<g, my.drawn + 1>> /\ fresh.name = NoProfile
  <2>1. fresh.name = NoProfile
    BY DEF Prepared, Unused
  <2> HIDE DEF intro
  <2> QED BY <1>4, <1>5, <2>1, PreparedTyped
<1>7. me' = [me EXCEPT ![g] = new]
  BY <1>1 DEF JoinRoom, Placed, Knowledge
<1> HIDE DEF fresh
<1>8. /\ x \in SlotType /\ x.used /\ x.dials /\ ~x.connected /\ x.sess = <<g, my.drawn + 1>>
      /\ x.name = NoProfile /\ x.who = Creator /\ x.at = 1 /\ x.settled
  <2>1. x = [fresh EXCEPT !.who = Creator, !.at = 1, !.settled = TRUE]
    BY <1>1
  <2> HIDE DEF x
  <2>2. x \in SlotType
    <3>1. Creator \in People /\ 1 \in Nat
      BY <1>1 DEF People
    <3> QED BY <1>6, <2>1, <3>1 DEF SlotType
  <2>3. x.who = Creator /\ x.at = 1 /\ x.settled
    BY <1>6, <2>1 DEF SlotType
  <2> QED BY <1>6, <2>1, <2>2, <2>3 DEF SlotType
<1> HIDE DEF x
<1>9. /\ new \in Knowledge /\ new.roster = my.roster /\ new.drawn = my.drawn + 1
      /\ \A s \in PeerSlots : new.slots[s] = IF s = 1 THEN x ELSE my.slots[s]
  <2>1. CASE 1 \in PeerSlots
    <3>1. /\ new.slots = [my.slots EXCEPT ![1] = x] /\ new \in Knowledge
          /\ new.roster = my.roster /\ new.drawn = my.drawn + 1
      BY <1>1, <1>8, <2>1, PlacedIs
    <3> HIDE DEF new
    <3> QED BY <1>4, <2>1, <3>1
  <2>2. CASE 1 \notin PeerSlots
    <3>1. [my EXCEPT !.slots[1] = x] = my
      BY <1>1, <1>4, <2>2 DEF Knowledge
    <3>2. new = [my EXCEPT !.drawn = my.drawn + 1]
      BY <1>1, <1>4, <2>2 DEF Placed, Knowledge
    <3> HIDE DEF new, my
    <3>3. /\ new \in Knowledge /\ new.roster = my.roster /\ new.slots = my.slots
          /\ new.drawn = my.drawn + 1
      BY <1>1, <3>2, DrawnOne
    <3> QED BY <2>2, <3>3
  <2> QED BY <2>1, <2>2
<1> HIDE DEF new, my
<1>10. Sound(g, new)
  <2>1. \A s \in PeerSlots : new.slots[s].used => s = 1
    BY <1>3, <1>9
  <2>2. 1 \in PeerSlots => /\ Waiting(g, new, 1) /\ new.slots[1].sess[1] = g
                           /\ new.slots[1].sess[2] = new.drawn
    BY <1>1, <1>3, <1>8, <1>9 DEF Waiting
  <2>3. new.drawn \in Nat
    BY <1>4, <1>9
  <2>4. ASSUME NEW s \in PeerSlots, ~new.slots[s].used
        PROVE  ~new.slots[s].dials /\ ~new.slots[s].connected
    BY <1>1, <1>8, <1>9, <2>4 DEF Sound
  <2> QED BY <2>1, <2>2, <2>3, <2>4 DEF Sound
<1>11. Later(my, new)
  BY <1>3, <1>4, <1>8, <1>9 DEF Later
<1> QED BY <1>1, <1>2, <1>7, <1>9, <1>10, <1>11, AloneKeeps DEF my

LEMMA LeaveKeeps ==
  ASSUME MeshInv, NEW g \in Restless, Leave(g)
  PROVE  MeshInv'
<1> DEFINE new == [Fresh EXCEPT !.drawn = me[g].drawn]
<1>1. /\ g \in Profiles /\ g # Creator /\ MeshTypes /\ me[g] \in Knowledge /\ me[g].drawn \in Nat
  BY ProfilesAssumption DEF MeshInv, MeshTypes, Knowledge
<1>2. /\ up' = [up EXCEPT ![g] = FALSE] /\ home' = [home EXCEPT ![g] = @ + 1]
      /\ me' = [me EXCEPT ![g] = new] /\ lost' = lost
      /\ wire' = [pair \in Pairs |-> IF pair[2] = g THEN <<>> ELSE wire[pair]]
  BY DEF Leave
<1>3. Unused \in SlotType
  BY DEF Unused, SlotType, People, Nowhere, NoSession, Sessions, NoProfile
<1>4. /\ new = [slots |-> [s \in PeerSlots |-> Unused], roster |-> [n \in Profiles |-> Nowhere],
                version |-> 0, drawn |-> me[g].drawn]
  BY DEF Fresh
<1>5. new \in Knowledge
  BY <1>1, <1>3, <1>4 DEF Knowledge, Nowhere
<1>6. /\ \A s \in PeerSlots : new.slots[s] = Unused
      /\ new.roster[Creator] = Nowhere /\ new.drawn = me[g].drawn
  BY <1>4, ProfilesAssumption
<1> HIDE DEF new
<1>7. \A s \in PeerSlots : ~new.slots[s].used /\ ~new.slots[s].dials /\ ~new.slots[s].connected
  BY <1>6 DEF Unused
<1>8. Sound(g, new) /\ Later(me[g], new)
  BY <1>1, <1>6, <1>7 DEF Sound, Later
<1>9. /\ me' \in [Profiles -> Knowledge] /\ me'[g] = new
      /\ \A a \in Profiles : /\ Sound(a, me'[a]) /\ Later(me[a], me'[a])
                             /\ a # g => me'[a] = me[a]
  BY <1>1, <1>2, <1>5, <1>8, OneLearns
<1>10. ASSUME NEW a \in Profiles, NEW b \in Profiles
       PROVE  wire'[<<a, b>>] \in Seq(Honest(a, b, me'[a], me'[b]))
  <2>1. wire[<<a, b>>] \in Seq(Honest(a, b, me'[a], me'[b]))
    BY <1>9, WireStays
  <2>2. wire'[<<a, b>>] = IF b = g THEN <<>> ELSE wire[<<a, b>>]
    BY <1>2 DEF Pairs
  <2> QED BY <2>1, <2>2, NoPacket
<1>11. wire' \in [Pairs -> Seq(PacketType)]
  <2>1. \A pair \in Pairs : wire[pair] \in Seq(PacketType)
    BY DEF MeshInv, WireInv
  <2> QED BY <1>2, <2>1, NoPacket
<1>12. WireInv'
  BY <1>10, <1>11, WireFrom
<1>13. MeshTypes' /\ home'[Creator] = 1
  <2>1. home' \in [Profiles -> Nat \ {0}] /\ home'[Creator] = 1
    BY <1>1, <1>2, ProfilesAssumption DEF MeshInv, MeshTypes
  <2>2. up' \in [Profiles -> BOOLEAN]
    BY <1>1, <1>2 DEF MeshTypes
  <2> QED BY <1>1, <1>2, <1>9, <2>1, <2>2 DEF MeshTypes
<1>14. DownInv'
  <2>1. \A a \in Profiles : a # g => up'[a] = up[a]
    BY <1>1, <1>2 DEF MeshTypes
  <2> QED BY <1>6, <1>7, <1>9, <2>1 DEF DownInv, MeshInv
<1> QED BY <1>9, <1>12, <1>13, <1>14 DEF MeshInv

LEMMA MeshStarts == MeshInit => MeshInv
<1> SUFFICES ASSUME MeshInit PROVE MeshInv
  OBVIOUS
<1>1. Unused \in SlotType
  BY DEF Unused, SlotType, People, Nowhere, NoSession, Sessions, NoProfile
<1>2. Fresh \in Knowledge
  BY <1>1 DEF Fresh, Knowledge, Nowhere
<1>3. MeshTypes /\ home[Creator] = 1 /\ \A m \in Profiles : me[m] = Fresh
  BY <1>2, ProfilesAssumption DEF MeshInit, MeshTypes
<1>4. /\ \A s \in PeerSlots : Fresh.slots[s] = Unused
      /\ Fresh.roster[Creator] = Nowhere
  BY ProfilesAssumption DEF Fresh
<1>5. \A m \in Profiles : Sound(m, me[m])
  <2>1. \A s \in PeerSlots : /\ ~Fresh.slots[s].used /\ ~Fresh.slots[s].dials
                              /\ ~Fresh.slots[s].connected
    BY <1>4 DEF Unused
  <2> QED BY <1>3, <2>1 DEF Sound
<1>6. WireInv
  BY NoPacket DEF MeshInit, WireInv, Pairs
<1>7. DownInv
  BY <1>3, <1>4 DEF DownInv, Unused
<1> QED BY <1>3, <1>5, <1>6, <1>7 DEF MeshInv

LEMMA MeshStep == MeshInv /\ [MeshNext]_meshVars => MeshInv'
<1> SUFFICES ASSUME MeshInv, [MeshNext]_meshVars PROVE MeshInv'
  OBVIOUS
<1>1. CASE \E m \in Profiles : Pass(m)
  BY <1>1, PassKeeps
<1>2. CASE \E m, n \in Profiles : Receive(m, n)
  BY <1>2, ReceiveKeeps
<1>3. CASE \E m, n \in Profiles : Lose(n, m)
  BY <1>3, LoseKeeps
<1>4. CASE \E m \in Profiles, s \in PeerSlots : Expire(m, s)
  BY <1>4, ExpireKeeps
<1>5. CASE \E g \in Guests : JoinRoom(g)
  BY <1>5, JoinRoomKeeps
<1>6. CASE \E g \in Restless : Leave(g)
  BY <1>6, LeaveKeeps
<1>7. CASE UNCHANGED meshVars
  BY <1>7 DEF meshVars, MeshInv, MeshTypes, WireInv, DownInv
<1> QED BY <1>1, <1>2, <1>3, <1>4, <1>5, <1>6, <1>7 DEF MeshNext

(* Every place in use is for one musician and of one session, whatever is  *)
(* on its way between the workers (allocateSlot(), prepareSlotSession(),   *)
(* handlePacket(), admitStranger(), handlePacketForSlot()).                *)
THEOREM MeshCorrect == MeshSpec => []MeshInv
BY MeshStarts, MeshStep, PTL DEF MeshSpec

\* A place that has a name is for the musician of that name.
LEMMA PlacesApart == MeshInv => OnePlaceEach
<1> SUFFICES ASSUME MeshInv, NEW m \in Profiles, NEW s \in PeerSlots, NEW t \in PeerSlots,
                    me[m].slots[s].used, me[m].slots[t].used,
                    me[m].slots[s].name = me[m].slots[t].name, me[m].slots[s].name # NoProfile
             PROVE  s = t
  BY DEF OnePlaceEach
<1>1. Sound(m, me[m])
  BY DEF MeshInv
<1>2. me[m].slots[s].who = me[m].slots[t].who
  BY <1>1 DEF Sound, Waiting
<1> QED BY <1>1, <1>2 DEF Sound

(* A musician never has two places in somebody's room, however often the   *)
(* roster comes and whoever left and came back.                            *)
THEOREM OneSessionEach == MeshSpec => []OnePlaceEach
BY MeshCorrect, PlacesApart, PTL
=============================================================================
