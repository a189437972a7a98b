---------------------------- MODULE Stack_proofs ----------------------------
(***************************************************************************)
(* Proofs about the stack, for every program: that the cells above S hold  *)
(* what has been pushed and not pulled, that RTS and RTI return to where   *)
(* the frame on top of the stack says, and that the cells and registers    *)
(* implement BoundedStack: the steps of StackSpec are steps of the         *)
(* abstract stack whose contents are the cells above S.                    *)
(***************************************************************************)
EXTENDS StackDiscipline, Cpu_proofs, SequenceTheorems

-----------------------------------------------------------------------------
(* The history, counted from its newest entry *)

LEMMA CapacityIs256 == Capacity = 256
BY DEF Capacity

\* r is the history s of which t entries have been dropped and on which u was put
Renews(r, s, t, u) == r = Lifo!Newest(Lifo!Dropped(s, t) \o u, Capacity)

\* r consists, counted from its newest entry, of the n entries of u and then those of
\* s below the first t.
Stacked(r, s, t, u, n) ==
  /\ Len(r) <= Capacity
  /\ \A d \in 1..Len(r) :
       /\ d <= n => r[Len(r) + 1 - d] = u[n + 1 - d]
       /\ d > n => /\ d - n + t \in 1..Len(s)
                   /\ r[Len(r) + 1 - d] = s[Len(s) + 1 - (d - n + t)]

LEMMA Renewed ==
  ASSUME NEW T, NEW s \in Seq(T), NEW u \in Seq(T), NEW t \in 0..3, NEW n \in 0..3,
         Len(s) <= Capacity, Len(u) = n,
         NEW r, Renews(r, s, t, u)
  PROVE  r \in Seq(T) /\ Stacked(r, s, t, u, n)
<1> DEFINE m == Len(s) - (IF t < Len(s) THEN t ELSE Len(s))
           q == Lifo!Dropped(s, t)
           c == q \o u
           k == IF 256 < Len(c) THEN 256 ELSE Len(c)
<1> Len(s) \in Nat /\ Len(u) \in Nat
  OBVIOUS
<1>1. m \in 0..Len(s) /\ (m > 0 => m = Len(s) - t)
  OBVIOUS
<1>2. q = SubSeq(s, 1, m)
  BY DEF Lifo!Dropped, Lifo!Smaller
<1> HIDE DEF m
<1>3. q \in Seq(T) /\ Len(q) = m /\ \A i \in 1..m : q[i] = s[i]
  <2>1. \A i \in 1..m : s[i] \in T
    BY <1>1
  <2> HIDE DEF q
  <2> QED
    BY <2>1, <1>1, <1>2, SubSeqProperties
<1> HIDE DEF q
<1>4. /\ c \in Seq(T) /\ Len(c) = m + Len(u)
      /\ \A i \in 1..m : c[i] = s[i]
      /\ \A i \in 1..Len(u) : c[m + i] = u[i]
  BY <1>1, <1>3
<1>7. k \in 0..Len(c) /\ k <= 256 /\ r = SubSeq(c, Len(c) + 1 - k, Len(c))
  <2>1. r = Lifo!Newest(c, 256)
    BY CapacityIs256 DEF q, Renews
  <2> HIDE DEF c
  <2>2. Len(c) \in Nat
    BY <1>4
  <2>3. Lifo!Smaller(256, Len(c)) = k
    BY DEF Lifo!Smaller
  <2>4. k \in 0..Len(c) /\ k <= 256
    BY <2>2
  <2> HIDE DEF k
  <2> QED
    BY <2>1, <2>3, <2>4 DEF Lifo!Newest
<1> HIDE DEF c, k
<1>8. r \in Seq(T) /\ Len(r) = k /\ \A i \in 1..k : r[i] = c[Len(c) - k + i]
  <2> DEFINE len == Len(c)
             a == len + 1 - k
  <2>1. len \in Nat /\ a \in 1..(len + 1) /\ len \in (a - 1)..len /\ len - a + 1 = k
    BY <1>4, <1>7
  <2>2. r = SubSeq(c, a, len)
    BY <1>7
  <2>3. \A i \in 1..k : a + i - 1 = len - k + i
    BY <2>1
  <2>4. \A i \in a..len : c[i] \in T
    BY <1>4, <2>1
  <2>5. IF a <= len THEN len - a + 1 = k ELSE k = 0
    BY <2>1
  <2> HIDE DEF a, len
  <2>6. r \in Seq(T) /\ Len(r) = k /\ \A i \in 1..k : r[i] = c[a + i - 1]
    BY <2>1, <2>2, <2>4, <2>5, SubSeqProperties
  <2> QED
    BY <2>3, <2>6 DEF len
<1>9. ASSUME NEW d \in 1..k
      PROVE  r[k + 1 - d] = c[Len(c) + 1 - d]
  <2>1. Len(c) \in Nat
    BY <1>4
  <2>2. k + 1 - d \in 1..k /\ Len(c) - k + (k + 1 - d) = Len(c) + 1 - d
    BY <1>7, <2>1
  <2> QED
    BY <1>8, <2>2
<1>10. ASSUME NEW d \in 1..k, d <= Len(u)
       PROVE  c[Len(c) + 1 - d] = u[Len(u) + 1 - d]
  <2>1. Len(u) + 1 - d \in 1..Len(u) /\ Len(c) + 1 - d = m + (Len(u) + 1 - d)
    BY <1>1, <1>4, <1>10
  <2> QED
    BY <2>1, <1>4
<1>11. ASSUME NEW d \in 1..k, d > Len(u)
       PROVE  /\ d - Len(u) + t \in 1..Len(s)
              /\ c[Len(c) + 1 - d] = s[Len(s) + 1 - (d - Len(u) + t)]
  <2>1. Len(c) + 1 - d \in 1..m /\ m = Len(s) - t
    BY <1>1, <1>4, <1>7, <1>11
  <2>2. Len(c) + 1 - d = Len(s) + 1 - (d - Len(u) + t)
    BY <2>1, <1>4, <1>11
  <2>3. d - Len(u) + t \in 1..Len(s)
    BY <2>1, <1>4, <1>11
  <2> QED
    BY <2>1, <2>2, <2>3, <1>4
<1>12. Len(r) <= Capacity
  BY <1>7, <1>8, CapacityIs256
<1>13. ASSUME NEW d \in 1..k
       PROVE  /\ d <= n => r[k + 1 - d] = u[n + 1 - d]
              /\ d > n => /\ d - n + t \in 1..Len(s)
                          /\ r[k + 1 - d] = s[Len(s) + 1 - (d - n + t)]
  BY <1>9, <1>10, <1>11
<1> QED
  BY <1>8, <1>12, <1>13 DEF Stacked

-----------------------------------------------------------------------------
(* The stack, counted from its top *)

\* A stack has at most 256 entries: a cell is reached by wrapping around once.
LEMMA WrapAround == \A n \in 0..511 : n % 256 = IF n < 256 THEN n ELSE n - 256
OBVIOUS

\* The cell of the entry at depth d, where 1 is the newest and s points to it
CellAt(s, d) == (s + d - 1) % 256

\* The 256 cells of the stack are different cells.
LEMMA CellsDiffer ==
  ASSUME NEW s \in Byte, NEW d \in 1..256, NEW e \in 1..256, d # e
  PROVE  CellAt(s, d) \in Byte /\ CellAt(s, d) # CellAt(s, e)
<1>1. s \in 0..255 /\ s + d - 1 \in 0..511 /\ s + e - 1 \in 0..511
  BY DEF Byte
<1>2. /\ CellAt(s, d) = IF s + d - 1 < 256 THEN s + d - 1 ELSE s + d - 257
      /\ CellAt(s, e) = IF s + e - 1 < 256 THEN s + e - 1 ELSE s + e - 257
  BY <1>1, WrapAround DEF CellAt
<1> QED
  BY <1>1, <1>2 DEF Byte

\* An entry that is labelled as part of a frame holds that part of the frame.
Truthful(e) ==
  /\ e.kind \in {"call high", "break high"} => e.byte = high(e.pc)
  /\ e.kind \in {"call low", "break low"} => e.byte = low(e.pc)
  /\ e.kind = "break status" => e.byte = FromBits(e.p)

TrueEntries == {e \in Entries : Truthful(e)}

\* What read finds in the memory m
Content(m, a) == IF a \in DOMAIN m THEN m[a] ELSE 0

\* The memory m holds the history l above s.
Holds(m, s, l) == \A d \in 1..Len(l) : Content(m, CellAt(s, d)) = l[Len(l) + 1 - d].byte

\* The same, counted from the oldest entry as live is
HoldsUpwards(m, s, l) ==
  \A i \in 1..Len(l) : Content(m, (s + Len(l) - i) % 256) = l[i].byte

LEMMA HoldsFromBottom ==
  ASSUME NEW m, NEW s \in Byte, NEW l \in Seq(TrueEntries)
  PROVE  Holds(m, s, l) <=> HoldsUpwards(m, s, l)
<1> DEFINE n == Len(l)
<1>1. n \in Nat /\ s \in Nat
  BY DEF Byte
<1> HIDE DEF n
<1>2. ASSUME NEW i \in 1..n
      PROVE  /\ n + 1 - i \in 1..n
             /\ s + (n + 1 - i) - 1 = s + n - i
             /\ s + n - (n + 1 - i) = s + i - 1
             /\ n + 1 - (n + 1 - i) = i
  BY <1>1
<1>3. ASSUME Holds(m, s, l), NEW i \in 1..n
      PROVE  Content(m, (s + n - i) % 256) = l[i].byte
  <2>1. Content(m, CellAt(s, n + 1 - i)) = l[n + 1 - (n + 1 - i)].byte
    BY <1>2, <1>3 DEF Holds, n
  <2> QED
    BY <1>2, <2>1 DEF CellAt
<1>4. ASSUME \A i \in 1..n : Content(m, (s + n - i) % 256) = l[i].byte, NEW d \in 1..n
      PROVE  Content(m, CellAt(s, d)) = l[n + 1 - d].byte
  <2>1. Content(m, (s + n - (n + 1 - d)) % 256) = l[n + 1 - d].byte
    BY <1>2, <1>4
  <2> QED
    BY <1>2, <2>1 DEF CellAt
<1> QED
  BY <1>3, <1>4 DEF n, Holds, HoldsUpwards

-----------------------------------------------------------------------------
(* What push and pull do to a history and to the memory that holds it *)

History(l) == l \in Seq(TrueEntries) /\ Len(l) <= Capacity

LEMMA ZeroHistory == \A m, s : History(<<>>) /\ Holds(m, s, <<>>)
<1>1. Len(<<>>) <= Capacity
  BY CapacityIs256
<1> QED
  BY <1>1 DEF History, Holds

\* Pulling t bytes moves the pointer up to the entries that are left.
LEMMA Pulling ==
  ASSUME NEW m, NEW s \in Byte, NEW l, History(l), Holds(m, s, l), NEW t \in 0..3,
         NEW r, Renews(r, l, t, <<>>)
  PROVE  History(r) /\ Holds(m, (s + t) % 256, r)
<1>1. l \in Seq(TrueEntries) /\ Len(l) <= Capacity
  BY DEF History
<1>2. /\ r \in Seq(TrueEntries) /\ Len(r) <= Capacity
      /\ \A d \in 1..Len(r) : /\ d + t \in 1..Len(l)
                              /\ r[Len(r) + 1 - d] = l[Len(l) + 1 - (d + t)]
  <2> DEFINE u == <<>>
  <2>1. u \in Seq(TrueEntries) /\ Len(u) = 0 /\ Renews(r, l, t, u)
    OBVIOUS
  <2>2. 0 \in 0..3
    OBVIOUS
  <2> HIDE DEF u
  <2>3. r \in Seq(TrueEntries) /\ Stacked(r, l, t, u, 0)
    BY <1>1, <2>1, <2>2, Renewed
  <2>4. \A d \in 1..Len(r) : d > 0 /\ d - 0 + t = d + t
    OBVIOUS
  <2> QED
    BY <2>3, <2>4 DEF Stacked
<1>3. ASSUME NEW d \in 1..Len(r)
      PROVE  Content(m, CellAt((s + t) % 256, d)) = r[Len(r) + 1 - d].byte
  <2>1. CellAt((s + t) % 256, d) = CellAt(s, d + t)
    <3> DEFINE n == d
    <3>1. n \in Int
      OBVIOUS
    <3> HIDE DEF n
    <3>2. s \in Int
      BY DEF Byte
    <3>3. (((s + t) % 256) + n - 1) % 256 = (s + (n + t) - 1) % 256
      BY <3>1, <3>2
    <3> QED
      BY <3>3 DEF CellAt, n
  <2>2. Content(m, CellAt(s, d + t)) = l[Len(l) + 1 - (d + t)].byte
    BY <1>2 DEF Holds
  <2> QED
    BY <1>2, <2>1, <2>2
<1>4. History(r)
  BY <1>2 DEF History
<1> QED
  BY <1>3, <1>4 DEF Holds

\* The cell z is n cells below s.
IsBelow(z, s, n) == z = (s + 256 - n) % 256

\* The memory w is m with the n entries of u stored in the cells from z upwards.
StoredAbove(w, m, z, u, n) ==
  /\ \A d \in 1..n : Content(w, CellAt(z, d)) = u[n + 1 - d].byte
  /\ \A c : (\A d \in 1..n : c # CellAt(z, d)) => Content(w, c) = Content(m, c)

\* Pushing the bytes of u writes them to the cells below the pointer, and no other.
LEMMA Pushing ==
  ASSUME NEW m, NEW s \in Byte, NEW l, History(l), Holds(m, s, l),
         NEW u \in Seq(TrueEntries), NEW n \in 1..3, Len(u) = n,
         NEW r, Renews(r, l, 0, u),
         NEW w, NEW z \in Byte, IsBelow(z, s, n), StoredAbove(w, m, z, u, n)
  PROVE  History(r) /\ Holds(w, z, r)
<1>1. l \in Seq(TrueEntries) /\ Len(l) <= Capacity
  BY DEF History
<1>2. /\ r \in Seq(TrueEntries) /\ Len(r) <= Capacity
      /\ \A d \in 1..Len(r) :
           /\ d <= n => r[Len(r) + 1 - d] = u[n + 1 - d]
           /\ d > n => /\ d - n \in 1..Len(l)
                       /\ r[Len(r) + 1 - d] = l[Len(l) + 1 - (d - n)]
  <2>1. n \in 0..3 /\ 0 \in 0..3
    OBVIOUS
  <2>2. r \in Seq(TrueEntries) /\ Stacked(r, l, 0, u, n)
    BY <1>1, <2>1, Renewed
  <2>3. \A d \in 1..Len(r) : d - n + 0 = d - n
    OBVIOUS
  <2> QED
    BY <2>2, <2>3 DEF Stacked
<1> DEFINE k == Len(r)
<1>3. k \in Nat /\ k <= 256
  BY <1>2, CapacityIs256
<1> HIDE DEF k
<1>4. ASSUME NEW d \in 1..k
      PROVE  Content(w, CellAt(z, d)) = r[k + 1 - d].byte
  <2>1. CASE d <= n
    BY <1>2, <1>4, <2>1 DEF k, StoredAbove
  <2>2. CASE d > n
    <3>1. /\ d - n \in 1..Len(l)
          /\ r[k + 1 - d] = l[Len(l) + 1 - (d - n)]
      BY <1>2, <1>4, <2>2 DEF k
    <3>2. CellAt(z, d) = CellAt(s, d - n)
      <4>1. s \in 0..255 /\ d \in 1..256
        BY <1>3 DEF Byte
      <4>2. (((s + 256 - n) % 256) + d - 1) % 256 = (s + (d - n) - 1) % 256
        BY <4>1, SMTT(30)
      <4> QED
        BY <4>2 DEF CellAt, IsBelow
    <3>3. ASSUME NEW e \in 1..n
          PROVE  CellAt(z, d) # CellAt(z, e)
      <4>1. d \in 1..256 /\ e \in 1..256 /\ d # e
        BY <1>3, <2>2
      <4> QED
        BY <4>1, CellsDiffer, ZenonT(60)
    <3>4. Content(w, CellAt(z, d)) = Content(m, CellAt(s, d - n))
      BY <3>2, <3>3 DEF StoredAbove
    <3>5. Content(m, CellAt(s, d - n)) = l[Len(l) + 1 - (d - n)].byte
      BY <3>1 DEF Holds
    <3> QED
      BY <3>1, <3>4, <3>5
  <2> QED
    BY <2>1, <2>2
<1>5. History(r)
  BY <1>2 DEF History
<1> QED
  BY <1>4, <1>5 DEF Holds, k

\* The entry e after a store of v
Changed(e, v) == [e EXCEPT !.kind = "stored", !.byte = v]

LEMMA StoredEntry ==
  ASSUME NEW e \in TrueEntries, NEW v \in Byte
  PROVE  Changed(e, v) \in TrueEntries /\ Changed(e, v).byte = v
BY DEF TrueEntries, Truthful, Entries, Kinds, Changed

\* r is the history l after a store of v to the cell a.
Overwrites(r, s, l, a, v) ==
  r = [i \in 1..Len(l) |-> IF (s + Len(l) - i) % 256 = a THEN Changed(l[i], v) ELSE l[i]]

LEMMA IsSequence ==
  ASSUME NEW n \in Nat, NEW T, NEW r \in [1..n -> T]
  PROVE  r \in Seq(T) /\ Len(r) = n
OBVIOUS

\* A store changes the entry whose cell it hits, and no other.
LEMMA Overwriting ==
  ASSUME NEW m, NEW s \in Byte, NEW l, History(l), Holds(m, s, l),
         NEW a, NEW v \in Byte, NEW w,
         \A c : Content(w, c) = IF c = a THEN v ELSE Content(m, c),
         NEW r, Overwrites(r, s, l, a, v)
  PROVE  History(r) /\ Holds(w, s, r)
<1> DEFINE n == Len(l)
<1>1. l \in Seq(TrueEntries) /\ n <= Capacity /\ n \in Nat
  BY DEF History
<1>2. \A i \in 1..n : l[i] \in TrueEntries
  BY <1>1
<1>3. \A i \in 1..n : Content(m, (s + n - i) % 256) = l[i].byte
  <2>1. HoldsUpwards(m, s, l)
    BY <1>1, HoldsFromBottom
  <2> QED
    BY <2>1 DEF HoldsUpwards
<1> HIDE DEF n
<1>4. ASSUME NEW i \in 1..n
      PROVE  r[i] \in TrueEntries /\ Content(w, (s + n - i) % 256) = r[i].byte
  <2>1. CASE (s + n - i) % 256 = a
    <3>1. r[i] = Changed(l[i], v)
      BY <2>1 DEF n, Overwrites
    <3>2. l[i] \in TrueEntries
      BY <1>2
    <3>3. r[i] \in TrueEntries /\ r[i].byte = v
      BY <3>1, <3>2, StoredEntry
    <3> QED
      BY <2>1, <3>3
  <2>2. CASE (s + n - i) % 256 # a
    <3>1. r[i] = l[i]
      BY <2>2 DEF n, Overwrites
    <3> QED
      BY <1>2, <1>3, <2>2, <3>1
  <2> QED
    BY <2>1, <2>2
<1>5. r \in Seq(TrueEntries) /\ Len(r) = n
  <2>1. r \in [1..n -> TrueEntries]
    BY <1>4 DEF n, Overwrites
  <2> QED
    BY <1>1, <2>1, IsSequence
<1>6. History(r)
  BY <1>1, <1>5 DEF History
<1>7. HoldsUpwards(w, s, r)
  BY <1>4, <1>5 DEF HoldsUpwards
<1> QED
  BY <1>5, <1>6, <1>7, HoldsFromBottom

-----------------------------------------------------------------------------
(* The inductive invariant *)

\* The history is one of at most Capacity entries, and the CPU keeps its types.
StackTypeOK == /\ TypeOK
               /\ live \in Seq(Entries)
               /\ Len(live) <= Capacity

StackInv == StackTypeOK /\ StackIntegrity /\ live \in Seq(TrueEntries)

\* It says that the memory holds the history above S.
LEMMA InvHolds ==
  ASSUME StackInv
  PROVE  TypeOK /\ S \in Byte /\ History(live) /\ Holds(mem, S, live)
<1>1. TypeOK /\ History(live)
  BY DEF StackInv, StackTypeOK, History
<1>2. S \in Byte /\ live \in Seq(TrueEntries)
  BY <1>1 DEF TypeOK, RegistersOK, History
<1>3. HoldsUpwards(mem, S, live)
  BY DEF StackInv, StackIntegrity, HoldsUpwards, SlotOf, read, Content
<1> QED
  BY <1>1, <1>2, <1>3, HoldsFromBottom

LEMMA HistoryType == \A l : History(l) => l \in Seq(Entries) /\ Len(l) <= Capacity
<1> SUFFICES ASSUME NEW l, l \in Seq(TrueEntries)
             PROVE  l \in Seq(Entries)
  BY DEF History
<1>1. TrueEntries \subseteq Entries
  BY DEF TrueEntries
<1>2. Len(l) \in Nat /\ l \in [1..Len(l) -> Entries]
  BY <1>1
<1> QED
  BY <1>2, IsSequence

LEMMA HoldsInv ==
  ASSUME TypeOK', History(live'), Holds(mem', S', live')
  PROVE  StackInv'
<1>1. S' \in Byte /\ live' \in Seq(TrueEntries)
  BY DEF TypeOK, RegistersOK, History
<1>2. HoldsUpwards(mem', S', live')
  BY <1>1, HoldsFromBottom
<1>3. StackTypeOK'
  BY HistoryType DEF StackTypeOK, Capacity
<1>4. StackIntegrity'
  BY <1>2 DEF StackIntegrity, HoldsUpwards, SlotOf, read, Content
<1> QED
  BY <1>1, <1>3, <1>4 DEF StackInv

\* The mnemonics whose lambdas move S or store
StackUsers == {"PHA", "PHX", "PHY", "PHP", "JSR", "BRK", "PLA", "PLX", "PLY", "PLP", "RTS",
               "RTI", "TXS", "STA", "STX", "STY", "STZ", "INC", "DEC", "ASL", "LSR", "ROL",
               "ROR", "TSB", "TRB", "RMB", "SMB"}

\* An instruction that takes back n bytes, or none, and stores nothing
LEMMA Pull_Inv ==
  ASSUME StackInv, TypeOK', NEW n \in 0..3, Takes = n, Saves = <<>>, live' = NextLive,
         ~Executing("TXS"), ~Stores, S' = (S + n) % 256, NoWrite
  PROVE  StackInv'
<1>1. TypeOK /\ S \in Byte /\ History(live) /\ Holds(mem, S, live)
  BY InvHolds
<1>2. Renews(live', live, n, <<>>)
  BY DEF NextLive, Renews
<1>3. History(live') /\ Holds(mem, (S + n) % 256, live')
  BY <1>1, <1>2, Pulling, ZenonT(60)
<1>4. mem' = mem
  BY DEF NoWrite
<1>5. History(live') /\ Holds(mem', S', live')
  BY <1>3, <1>4
<1> QED
  BY <1>5, HoldsInv

LEMMA Push_Inv ==
  ASSUME StackInv, TypeOK', NEW n \in 1..3, Takes = 0, Saves \in Seq(TrueEntries), Len(Saves) = n,
         live' = NextLive, ~Executing("TXS"), ~Stores,
         S' = pushed(n), StoredAbove(mem', mem, pushed(n), Saves, n)
  PROVE  StackInv'
<1>1. TypeOK /\ S \in Byte /\ History(live) /\ Holds(mem, S, live)
  BY InvHolds
<1>2. Renews(live', live, 0, Saves)
  BY DEF NextLive, Renews
<1>3. IsBelow(pushed(n), S, n) /\ pushed(n) \in Byte
  BY <1>1, StackPointerType DEF IsBelow, pushed
<1>4. History(live') /\ Holds(mem', pushed(n), live')
  BY <1>1, <1>2, <1>3, Pushing
<1>5. History(live') /\ Holds(mem', S', live')
  BY <1>4
<1> QED
  BY <1>5, HoldsInv

LEMMA Store_Inv ==
  ASSUME StackInv, TypeOK', Stores, ~Executing("TXS"), live' = NextLive, S' = S,
         NEW v, write(op_address, v)
  PROVE  StackInv'
<1>1. TypeOK /\ S \in Byte /\ History(live) /\ Holds(mem, S, live)
  BY InvHolds
<1>2. mem' = written(mem, op_address, v)
  BY DEF write
<1>3. mem'[op_address] = v /\ op_address \in DOMAIN mem'
  BY <1>2 DEF written
<1>4. v \in Byte
  BY <1>3 DEF TypeOK, MemoryOK, IsMemory
<1>5. \A c : Content(mem', c) = IF c = op_address THEN v ELSE Content(mem, c)
  BY <1>2 DEF written, Content
<1>6. Overwrites(live', S, live, op_address, v)
  BY <1>3 DEF NextLive, Overwritten, SlotOf, Overwrites, Changed
<1>7. History(live') /\ Holds(mem', S, live')
  BY <1>1, <1>4, <1>5, <1>6, Overwriting
<1>8. History(live') /\ Holds(mem', S', live')
  BY <1>7
<1> QED
  BY <1>8, HoldsInv

LEMMA Move_Inv ==
  ASSUME TypeOK', Executing("TXS"), live' = NextLive
  PROVE  StackInv'
<1>1. live' = <<>>
  BY DEF NextLive
<1>2. History(live') /\ Holds(mem', S', live')
  BY <1>1, ZeroHistory
<1> QED
  BY <1>2, HoldsInv

-----------------------------------------------------------------------------
(* The instructions *)

LEMMA ContentWritten ==
  \A m, a, v, c : Content(written(m, a, v), c) = IF c = a THEN v ELSE Content(m, c)
BY DEF Content, written

LEMMA EntryType ==
  ASSUME TypeOK, NEW kind \in Kinds, NEW v \in Byte, Truthful(Entry(kind, v))
  PROVE  Entry(kind, v) \in TrueEntries /\ Entry(kind, v).byte = v
BY DEF TypeOK, RegistersOK, ControlOK, Entry, Entries, TrueEntries

\* The cells above the pointer after n pushes
LEMMA PushedCells ==
  ASSUME S \in Byte, NEW n \in 1..3, NEW d \in 1..n
  PROVE  CellAt(pushed(n), d) = pushed(n + 1 - d)
<1>1. S \in 0..255
  BY DEF Byte
<1>2. CASE n = 1
  BY <1>1, <1>2 DEF CellAt, pushed
<1>3. CASE n = 2
  BY <1>1, <1>3 DEF CellAt, pushed
<1>4. CASE n = 3
  BY <1>1, <1>4 DEF CellAt, pushed
<1> QED
  BY <1>2, <1>3, <1>4

LEMMA PushedDiffer ==
  ASSUME S \in Byte
  PROVE  pushed(1) # pushed(2) /\ pushed(1) # pushed(3) /\ pushed(2) # pushed(3)
<1>1. S \in 0..255
  BY DEF Byte
<1> QED
  BY <1>1 DEF pushed

LEMMA PushRegister ==
  ASSUME StackInv, TypeOK', live' = NextLive, NEW v \in Byte, NEW kind \in Kinds,
         Truthful(Entry(kind, v)), Saves = <<Entry(kind, v)>>, Takes = 0, ~Executing("TXS"), ~Stores, push_stack(v)
  PROVE  StackInv'
<1>1. TypeOK /\ S \in Byte
  BY InvHolds
<1>2. Entry(kind, v) \in TrueEntries /\ Entry(kind, v).byte = v
  BY <1>1, EntryType
<1>3. Saves \in Seq(TrueEntries) /\ Len(Saves) = 1 /\ Saves[1].byte = v
  BY <1>2
<1>4. S' = pushed(1) /\ mem' = written(mem, pushed(1), v)
  BY DEF push_stack, write
<1>5. CellAt(pushed(1), 1) = pushed(1)
  BY <1>1, PushedCells
<1>6. StoredAbove(mem', mem, pushed(1), Saves, 1)
  BY <1>3, <1>4, <1>5, ContentWritten DEF StoredAbove
<1> QED
  BY <1>3, <1>4, <1>6, Push_Inv

LEMMA JSR_Inv ==
  ASSUME StackInv, TypeOK', live' = NextLive, JSR
  PROVE  StackInv'
<1>1. TypeOK /\ S \in Byte /\ high(PC) \in Byte /\ low(PC) \in Byte
  BY InvHolds, HalvesType DEF TypeOK, ControlOK
<1> DEFINE h == Entry("call high", high(PC))
           l == Entry("call low", low(PC))
<1>2. /\ Saves = <<h, l>> /\ Takes = 0 /\ ~Executing("TXS") /\ ~Stores
  BY DEF JSR, Executing, ExecutingOneOf, Saves, Takes, Stores
<1>3. h \in TrueEntries /\ h.byte = high(PC) /\ l \in TrueEntries /\ l.byte = low(PC)
  BY <1>1, EntryType DEF Kinds, Truthful, Entry
<1> HIDE DEF h, l
<1>4. Saves \in Seq(TrueEntries) /\ Len(Saves) = 2 /\ Saves[1] = h /\ Saves[2] = l
  BY <1>2, <1>3
<1>5. S' = pushed(2)
      /\ mem' = written(written(mem, pushed(1), high(PC)), pushed(2), low(PC))
  BY DEF JSR, PcPushed
<1>6. \A c : Content(mem', c) = IF c = pushed(2) THEN low(PC)
                               ELSE IF c = pushed(1) THEN high(PC) ELSE Content(mem, c)
  BY <1>5, ContentWritten
<1>7. CellAt(pushed(2), 1) = pushed(2) /\ CellAt(pushed(2), 2) = pushed(1)
  BY <1>1, PushedCells
<1>8. StoredAbove(mem', mem, pushed(2), Saves, 2)
  BY <1>1, <1>3, <1>4, <1>6, <1>7, PushedDiffer DEF StoredAbove
<1> QED
  BY <1>2, <1>4, <1>5, <1>8, Push_Inv

LEMMA BRK_Inv ==
  ASSUME StackInv, TypeOK', live' = NextLive, BRK
  PROVE  StackInv'
<1>1. /\ TypeOK /\ S \in Byte
      /\ high(PC) \in Byte /\ low(PC) \in Byte /\ FromBits(P) \in Byte
  BY InvHolds, HalvesType, BitsType DEF TypeOK, ControlOK
<1> DEFINE h == Entry("break high", high(PC))
           l == Entry("break low", low(PC))
           b == Entry("break status", FromBits(P))
<1>2. /\ Saves = <<h, l, b>> /\ Takes = 0 /\ ~Executing("TXS") /\ ~Stores
  BY DEF BRK, Executing, ExecutingOneOf, Saves, Takes, Stores
<1>3. /\ h \in TrueEntries /\ h.byte = high(PC)
      /\ l \in TrueEntries /\ l.byte = low(PC)
      /\ b \in TrueEntries /\ b.byte = FromBits(P)
  BY <1>1, EntryType DEF Kinds, Truthful, Entry
<1> HIDE DEF h, l, b
<1>4. /\ Saves \in Seq(TrueEntries) /\ Len(Saves) = 3
      /\ Saves[1] = h /\ Saves[2] = l /\ Saves[3] = b
  BY <1>2, <1>3
<1>5. /\ S' = pushed(3)
      /\ mem' = written(written(written(mem, pushed(1), high(PC)), pushed(2), low(PC)),
                        pushed(3), FromBits(P))
  BY DEF BRK, PcPushed
<1>6. \A c : Content(mem', c) = IF c = pushed(3) THEN FromBits(P)
                               ELSE IF c = pushed(2) THEN low(PC)
                               ELSE IF c = pushed(1) THEN high(PC) ELSE Content(mem, c)
  BY <1>5, ContentWritten
<1>7. /\ CellAt(pushed(3), 1) = pushed(3) /\ CellAt(pushed(3), 2) = pushed(2)
      /\ CellAt(pushed(3), 3) = pushed(1)
  BY <1>1, PushedCells
<1>8. StoredAbove(mem', mem, pushed(3), Saves, 3)
  BY <1>1, <1>3, <1>4, <1>6, <1>7, PushedDiffer DEF StoredAbove
<1> QED
  BY <1>2, <1>4, <1>5, <1>8, Push_Inv

\* The pushes of one register
LEMMA Pushes_Inv ==
  ASSUME StackInv, TypeOK', live' = NextLive, PHA \/ PHX \/ PHY \/ PHP
  PROVE  StackInv'
<1>1. /\ A \in Byte /\ X \in Byte /\ Y \in Byte /\ "data" \in Kinds
      /\ FromBits(P \cup {break_command}) \in Byte
  BY InvHolds, BitsType DEF TypeOK, RegistersOK, Kinds
<1>6. \A v : Truthful(Entry("data", v))
  BY DEF Truthful, Entry
<1>2. CASE PHA
  <2>1. /\ push_stack(A) /\ Saves = <<Entry("data", A)>> /\ Takes = 0
        /\ ~Executing("TXS") /\ ~Stores
    BY <1>2 DEF PHA, Executing, ExecutingOneOf, Saves, Takes, Stores
  <2> QED
    BY <1>1, <1>6, <2>1, PushRegister
<1>3. CASE PHX
  <2>1. /\ push_stack(X) /\ Saves = <<Entry("data", X)>> /\ Takes = 0
        /\ ~Executing("TXS") /\ ~Stores
    BY <1>3 DEF PHX, Executing, ExecutingOneOf, Saves, Takes, Stores
  <2> QED
    BY <1>1, <1>6, <2>1, PushRegister
<1>4. CASE PHY
  <2>1. /\ push_stack(Y) /\ Saves = <<Entry("data", Y)>> /\ Takes = 0
        /\ ~Executing("TXS") /\ ~Stores
    BY <1>4 DEF PHY, Executing, ExecutingOneOf, Saves, Takes, Stores
  <2> QED
    BY <1>1, <1>6, <2>1, PushRegister
<1>5. CASE PHP
  <2>1. set_bit(P, break_command, TRUE) = P \cup {break_command}
    BY DEF set_bit, break_command, unused
  <2>2. /\ push_stack(FromBits(P \cup {break_command}))
        /\ Saves = <<Entry("data", FromBits(P \cup {break_command}))>> /\ Takes = 0
        /\ ~Executing("TXS") /\ ~Stores
    BY <1>5, <2>1 DEF PHP, Executing, ExecutingOneOf, Saves, Takes, Stores
  <2> QED
    BY <1>1, <1>6, <2>2, PushRegister
<1> QED
  BY <1>2, <1>3, <1>4, <1>5

\* The pulls, of a register or of a frame
LEMMA Pulls_Inv ==
  ASSUME StackInv, TypeOK', live' = NextLive, PLA \/ PLX \/ PLY \/ PLP \/ RTS \/ RTI
  PROVE  StackInv'
<1>1. CASE PLA \/ PLX \/ PLY \/ PLP
  <2>1. /\ Saves = <<>> /\ Takes = 1 /\ ~Executing("TXS") /\ ~Stores
    BY <1>1 DEF PLA, PLX, PLY, PLP, Executing, ExecutingOneOf, Saves, Takes, Stores
  <2>2. S' = (S + 1) % 256 /\ NoWrite
    BY <1>1 DEF PLA, PLX, PLY, PLP, Pull, popped
  <2> QED
    BY <2>1, <2>2, Pull_Inv
<1>2. CASE RTS
  <2>1. /\ Saves = <<>> /\ Takes = 2 /\ ~Executing("TXS") /\ ~Stores
    BY <1>2 DEF RTS, Executing, ExecutingOneOf, Saves, Takes, Stores
  <2>2. S' = (S + 2) % 256 /\ NoWrite
    BY <1>2 DEF RTS, popped
  <2> QED
    BY <2>1, <2>2, Pull_Inv
<1>3. CASE RTI
  <2>1. /\ Saves = <<>> /\ Takes = 3 /\ ~Executing("TXS") /\ ~Stores
    BY <1>3 DEF RTI, Executing, ExecutingOneOf, Saves, Takes, Stores
  <2>2. S' = (S + 3) % 256 /\ NoWrite
    BY <1>3 DEF RTI, popped
  <2> QED
    BY <2>1, <2>2, Pull_Inv
<1> QED
  BY <1>1, <1>2, <1>3

\* An instruction that leaves S and the memory alone
QuietStep == ~ExecutingOneOf(StackUsers) /\ S' = S /\ NoWrite

\* An instruction that stores changes the cell at its address and leaves S alone.
StoreStep == Stores /\ ~Executing("TXS") /\ S' = S /\ \E v : write(op_address, v)

LEMMA StepKinds ==
  ASSUME step
  PROVE  \/ QuietStep \/ StoreStep \/ TXS
         \/ PHA \/ PHX \/ PHY \/ PHP \/ PLA \/ PLX \/ PLY \/ PLP
         \/ JSR \/ RTS \/ BRK \/ RTI
<1> USE DEF ExecutingOneOf, Executing
<1>1. ASSUME \/ LDA \/ LDAabs \/ TXA \/ TYA \/ ADC \/ SBC \/ INCacc \/ DECacc
             \/ AND \/ ORA \/ EOR \/ ASLacc \/ LSRacc \/ ROLacc \/ RORacc
             \/ LDX \/ TAX \/ TSX \/ INX \/ DEX
             \/ LDY \/ TAY \/ INY \/ DEY
      PROVE  QuietStep
  BY <1>1 DEF LDA, LDAabs, TXA, TYA, ADC, SBC, INCacc, DECacc, AND, ORA, EOR, ASLacc, LSRacc,
              ROLacc, RORacc, LDX, TAX, TSX, INX, DEX, LDY, TAY, INY, DEY, ToA, ToX, ToY,
              QuietStep, StackUsers
<1>2. ASSUME \/ CMP \/ CMPind \/ CPX \/ CPY \/ CPXimm \/ CPYimm \/ BIT \/ BITzp
             \/ CLC \/ SEC \/ CLI \/ SEI \/ CLD \/ SED \/ CLV
      PROVE  QuietStep
  BY <1>2 DEF CMP, CMPind, CPX, CPY, CPXimm, CPYimm, Compare, BIT, BITzp,
              CLC, SEC, CLI, SEI, CLD, SED, CLV, ToP, QuietStep, StackUsers
<1>3. ASSUME \/ BPL \/ BMI \/ BVC \/ BVS \/ BCC \/ BCS \/ BNE \/ BEQ \/ BRA \/ JMP
             \/ BBR \/ BBS \/ DBG \/ NOP \/ STP \/ Unknown
      PROVE  QuietStep
  BY <1>3 DEF BPL, BMI, BVC, BVS, BCC, BCS, BNE, BEQ, BRA, JMP, BBR, BBS, Branch,
              DBG, NOP, STP, Returning, Unknown, registers, QuietStep, StackUsers
<1>4. ASSUME \/ STA \/ STX \/ STY \/ STZ \/ INC \/ DEC \/ ASL \/ LSR \/ ROL \/ ROR
             \/ TSB \/ TRB \/ RMB \/ SMB
      PROVE  StoreStep
  BY <1>4 DEF STA, STX, STY, STZ, INC, DEC, ASL, LSR, ROL, ROR, TSB, TRB, RMB, SMB, ToMem,
              StoreStep, Stores
<1> QED
  BY <1>1, <1>2, <1>3, <1>4 DEF step

LEMMA StackInvStep ==
  ASSUME StackInv, StackNext
  PROVE  StackInv'
<1>1. TypeOK' /\ step /\ live' = NextLive
  BY InvHolds, StepType DEF StackNext, execute
<1>2. CASE QuietStep
  <2>1. /\ Saves = <<>> /\ Takes = 0 /\ ~Executing("TXS") /\ ~Stores
    BY <1>2 DEF QuietStep, StackUsers, ExecutingOneOf, Executing, Saves, Takes, Stores
  <2>2. S' = (S + 0) % 256 /\ NoWrite
    BY <1>2, InvHolds DEF QuietStep, Byte
  <2> QED
    BY <1>1, <2>1, <2>2, Pull_Inv
<1>3. CASE StoreStep
  BY <1>1, <1>3, Store_Inv DEF StoreStep
<1>4. CASE TXS
  BY <1>1, <1>4, Move_Inv DEF TXS
<1>5. CASE PHA \/ PHX \/ PHY \/ PHP
  BY <1>1, <1>5, Pushes_Inv
<1>6. CASE PLA \/ PLX \/ PLY \/ PLP \/ RTS \/ RTI
  BY <1>1, <1>6, Pulls_Inv
<1>7. CASE JSR
  BY <1>1, <1>7, JSR_Inv
<1>8. CASE BRK
  BY <1>1, <1>8, BRK_Inv
<1> QED
  BY <1>1, <1>2, <1>3, <1>4, <1>5, <1>6, <1>7, <1>8, StepKinds

LEMMA StackInvInit == StackInit => StackInv
<1> SUFFICES ASSUME StackInit
             PROVE  StackInv
  OBVIOUS
<1>1. TypeOK /\ live = <<>>
  BY InitType DEF StackInit
<1>2. StackTypeOK /\ live \in Seq(TrueEntries)
  BY <1>1, ZeroHistory, HistoryType DEF StackTypeOK, History
<1>3. StackIntegrity
  BY <1>1 DEF StackIntegrity
<1> QED
  BY <1>2, <1>3 DEF StackInv

LEMMA StackInvStutter == StackInv /\ UNCHANGED stackVars => StackInv'
<1> SUFFICES ASSUME StackInv, UNCHANGED stackVars
             PROVE  StackInv'
  OBVIOUS
<1>1. TypeOK'
  BY InvHolds, StutterType DEF stackVars
<1>2. mem' = mem /\ S' = S /\ live' = live
  BY DEF stackVars, cpuVars, memoryVars
<1>3. History(live') /\ Holds(mem', S', live')
  BY <1>2, InvHolds
<1> QED
  BY <1>1, <1>3, HoldsInv

-----------------------------------------------------------------------------
(* A byte and its bits, an address and its halves *)

LEMMA Weights == /\ Weight(0) = 1 /\ Weight(1) = 2 /\ Weight(2) = 4 /\ Weight(3) = 8
                 /\ Weight(4) = 16 /\ Weight(5) = 32 /\ Weight(6) = 64 /\ Weight(7) = 128
BY DEF Weight

LEMMA BitsOfFromBits ==
  ASSUME NEW p \in SUBSET BitPosition
  PROVE  ToBits(FromBits(p)) = p
<1> DEFINE bit(k) == IF k \in p THEN 1 ELSE 0
           b0 == bit(0)   b1 == bit(1)   b2 == bit(2)   b3 == bit(3)
           b4 == bit(4)   b5 == bit(5)   b6 == bit(6)   b7 == bit(7)
           b == FromBits(p)
<1>1. b = b0 + 2*b1 + 4*b2 + 8*b3 + 16*b4 + 32*b5 + 64*b6 + 128*b7
  BY Weights DEF FromBits
<1>2. /\ b0 \in 0..1 /\ b1 \in 0..1 /\ b2 \in 0..1 /\ b3 \in 0..1
      /\ b4 \in 0..1 /\ b5 \in 0..1 /\ b6 \in 0..1 /\ b7 \in 0..1
  OBVIOUS
<1>3. ASSUME NEW k \in BitPosition
      PROVE  (b \div Weight(k)) % 2 = bit(k)
  <2> HIDE DEF b, b0, b1, b2, b3, b4, b5, b6, b7
  <2>1. /\ (b \div 1) % 2 = b0 /\ (b \div 2) % 2 = b1 /\ (b \div 4) % 2 = b2
        /\ (b \div 8) % 2 = b3 /\ (b \div 16) % 2 = b4 /\ (b \div 32) % 2 = b5
        /\ (b \div 64) % 2 = b6 /\ (b \div 128) % 2 = b7
    BY <1>1, <1>2
  <2> HIDE DEF bit
  <2> QED
    BY <2>1, Weights DEF BitPosition, b0, b1, b2, b3, b4, b5, b6, b7
<1> HIDE DEF b
<1> QED
  BY <1>3 DEF ToBits, b

LEMMA FromBitsOfBits ==
  ASSUME NEW b \in Byte
  PROVE  FromBits(ToBits(b)) = b
<1>1. b \in 0..255
  BY DEF Byte
<1>2. b = ((b \div 1) % 2) + 2*((b \div 2) % 2) + 4*((b \div 4) % 2) + 8*((b \div 8) % 2)
          + 16*((b \div 16) % 2) + 32*((b \div 32) % 2) + 64*((b \div 64) % 2)
          + 128*((b \div 128) % 2)
  BY <1>1
<1> DEFINE bit(k) == (b \div Weight(k)) % 2
           w(k) == IF k \in ToBits(b) THEN Weight(k) ELSE 0
<1>3. /\ bit(0) \in {0, 1} /\ bit(1) \in {0, 1} /\ bit(2) \in {0, 1} /\ bit(3) \in {0, 1}
      /\ bit(4) \in {0, 1} /\ bit(5) \in {0, 1} /\ bit(6) \in {0, 1} /\ bit(7) \in {0, 1}
  BY <1>1, Weights
<1>4. b = bit(0) + 2*bit(1) + 4*bit(2) + 8*bit(3) + 16*bit(4) + 32*bit(5) + 64*bit(6)
            + 128*bit(7)
  BY <1>2, Weights
<1>5. \A k \in BitPosition : k \in ToBits(b) <=> bit(k) = 1
  BY DEF ToBits
<1> HIDE DEF bit
<1>6. /\ w(0) = bit(0) /\ w(1) = 2*bit(1) /\ w(2) = 4*bit(2) /\ w(3) = 8*bit(3)
      /\ w(4) = 16*bit(4) /\ w(5) = 32*bit(5) /\ w(6) = 64*bit(6) /\ w(7) = 128*bit(7)
  BY <1>3, <1>5, Weights DEF BitPosition
<1>7. FromBits(ToBits(b)) = w(0) + w(1) + w(2) + w(3) + w(4) + w(5) + w(6) + w(7)
  BY DEF FromBits
<1> HIDE DEF w
<1> QED
  BY <1>3, <1>4, <1>6, <1>7

LEMMA AddressOfHalves ==
  ASSUME NEW a \in Word
  PROVE  address(low(a), high(a)) = a
BY WordBounds DEF Word, address, low, high

LEMMA HalvesOfAddress ==
  ASSUME NEW lo \in Byte, NEW hi \in Byte
  PROVE  low(address(lo, hi)) = lo /\ high(address(lo, hi)) = hi
BY DEF Byte, address, low, high

-----------------------------------------------------------------------------
(* The frames *)

LEMMA TopCells ==
  ASSUME StackInv, NEW d \in 1..3, Len(live) >= d
  PROVE  read(popped(d - 1)) = Top(d).byte /\ Top(d) \in Entries /\ Truthful(Top(d))
<1>1. S \in Byte /\ live \in Seq(TrueEntries) /\ Holds(mem, S, live)
  BY InvHolds DEF History
<1>2. d \in 1..Len(live) /\ Len(live) + 1 - d \in 1..Len(live)
  BY <1>1
<1>3. CellAt(S, d) = popped(d - 1)
  BY <1>1 DEF CellAt, popped, Byte
<1>4. Content(mem, CellAt(S, d)) = live[Len(live) + 1 - d].byte
  BY <1>1, <1>2 DEF Holds
<1>5. read(popped(d - 1)) = Top(d).byte
  BY <1>3, <1>4 DEF read, Content, Top
<1>6. Top(d) \in TrueEntries
  BY <1>1, <1>2 DEF Top
<1> QED
  BY <1>5, <1>6 DEF TrueEntries

LEMMA AtLeast ==
  ASSUME NEW T, NEW s \in Seq(T)
  PROVE  /\ Len(s) >= 2 => Len(s) >= 1
         /\ Len(s) >= 3 => Len(s) >= 1 /\ Len(s) >= 2
<1>1. \A n \in Nat : (n >= 2 => n >= 1) /\ (n >= 3 => n >= 1 /\ n >= 2)
  OBVIOUS
<1>2. Len(s) \in Nat
  OBVIOUS
<1> QED
  BY <1>1, <1>2

LEMMA PoppedNone == S \in Byte => popped(0) = S
BY DEF popped, Byte

LEMMA ReturnTarget ==
  ASSUME StackInv, RTS, CallOnTop
  PROVE  PC' = Plus(Top(1).pc, 3)
<1>1. Len(live) >= 1 /\ Len(live) >= 2
  BY InvHolds, AtLeast DEF CallOnTop, History
<1>2. /\ read(S) = Top(1).byte /\ Top(1) \in Entries /\ Truthful(Top(1))
      /\ read(popped(1)) = Top(2).byte /\ Truthful(Top(2))
  <2>1. read(popped(1 - 1)) = Top(1).byte /\ Top(1) \in Entries /\ Truthful(Top(1))
    BY <1>1, TopCells
  <2>2. read(popped(2 - 1)) = Top(2).byte /\ Truthful(Top(2))
    BY <1>1, TopCells
  <2> QED
    BY <2>1, <2>2, InvHolds, PoppedNone
<1>3. read(S) = low(Top(1).pc) /\ read(popped(1)) = high(Top(1).pc)
  BY <1>2 DEF CallOnTop, Truthful
<1>4. Top(1).pc \in Word
  BY <1>2 DEF Entries
<1> QED
  BY <1>3, <1>4, AddressOfHalves DEF RTS, set_PC

LEMMA InterruptTarget ==
  ASSUME StackInv, RTI, BreakOnTop
  PROVE  PC' = Plus(Top(1).pc, 1) /\ P' = Top(1).p
<1>1. Len(live) >= 1 /\ Len(live) >= 2 /\ Len(live) >= 3
  BY InvHolds, AtLeast DEF BreakOnTop, History
<1>2. /\ read(S) = Top(1).byte /\ Top(1) \in Entries /\ Truthful(Top(1))
      /\ read(popped(1)) = Top(2).byte /\ Truthful(Top(2))
      /\ read(popped(2)) = Top(3).byte /\ Truthful(Top(3))
  <2>1. read(popped(1 - 1)) = Top(1).byte /\ Top(1) \in Entries /\ Truthful(Top(1))
    BY <1>1, TopCells
  <2>2. read(popped(2 - 1)) = Top(2).byte /\ Truthful(Top(2))
    BY <1>1, TopCells
  <2>3. read(popped(3 - 1)) = Top(3).byte /\ Truthful(Top(3))
    BY <1>1, TopCells
  <2> QED
    BY <2>1, <2>2, <2>3, InvHolds, PoppedNone
<1>3. /\ read(S) = FromBits(Top(1).p)
      /\ read(popped(1)) = low(Top(1).pc) /\ read(popped(2)) = high(Top(1).pc)
  BY <1>2 DEF BreakOnTop, Truthful
<1>4. Top(1).pc \in Word /\ Top(1).p \in SUBSET BitPosition
  BY <1>2 DEF Entries
<1> QED
  BY <1>3, <1>4, AddressOfHalves, BitsOfFromBits DEF RTI, set_PC

\* One mnemonic, one action
LEMMA StepOf ==
  ASSUME step
  PROVE  /\ Executing("RTS") => RTS
         /\ Executing("RTI") => RTI
BY StepKinds DEF QuietStep, StoreStep, Stores, ExecutingOneOf, Executing, StackUsers,
                 TXS, PHA, PHX, PHY, PHP, PLA, PLX, PLY, PLP, JSR, RTS, BRK, RTI

LEMMA StackInvAlways == StackSpec => []StackInv
<1>1. StackInit => StackInv
  BY StackInvInit
<1>2. StackInv /\ [StackNext]_stackVars => StackInv'
  BY StackInvStep, StackInvStutter
<1> QED
  BY <1>1, <1>2, PTL DEF StackSpec

\* Whatever the image, the print device and the debug mode: after any sequence of
\* calls, interrupts, pushes, pulls and stores, and however often S wrapped around,
\* the cells above S hold what was pushed and not pulled (6502cpu.cpp:20,
\* 6502cpu.cpp:35).  Stores count: an entry holds what was stored to it last.
THEOREM StackIntegrityAlways == StackSpec => []StackIntegrity
BY StackInvAlways, PTL DEF StackInv

\* For every program: RTS continues behind the JSR whose frame is on top of the
\* stack, whatever was called, pushed, pulled and stored in between and however
\* often S wrapped around (6502isa.cpp:208, 6502isa.cpp:248).
THEOREM ReturnsAlways == StackSpec => ReturnsToCaller
<1>1. StackInv /\ [StackNext]_stackVars
        => [Executing("RTS") /\ CallOnTop => PC' = Plus(Top(1).pc, 3)]_stackVars
  BY StepOf, ReturnTarget DEF StackNext, execute
<1> QED
  BY <1>1, StackInvAlways, PTL DEF StackSpec, ReturnsToCaller

\* For every program: RTI continues behind the BRK whose frame is on top of the
\* stack, with the status it was executed with (6502isa.cpp:176, 6502isa.cpp:228).
THEOREM InterruptReturnsAlways == StackSpec => InterruptRestores
<1>1. StackInv /\ [StackNext]_stackVars
        => [Executing("RTI") /\ BreakOnTop => /\ PC' = Plus(Top(1).pc, 1)
                                             /\ P' = Top(1).p]_stackVars
  BY StepOf, InterruptTarget DEF StackNext, execute
<1> QED
  BY <1>1, StackInvAlways, PTL DEF StackSpec, InterruptRestores

-----------------------------------------------------------------------------
(* The bytes of a history *)

BytesOf(l) == [i \in 1..Len(l) |-> l[i].byte]

LEMMA BytesType ==
  ASSUME NEW l \in Seq(TrueEntries)
  PROVE  /\ BytesOf(l) \in Seq(Byte) /\ Len(BytesOf(l)) = Len(l)
         /\ \A i \in 1..Len(l) : BytesOf(l)[i] = l[i].byte
<1>1. \A i \in 1..Len(l) : l[i].byte \in Byte
  BY DEF TrueEntries, Entries
<1>2. BytesOf(l) \in [1..Len(l) -> Byte] /\ Len(l) \in Nat
  BY <1>1 DEF BytesOf
<1>3. BytesOf(l) \in Seq(Byte) /\ Len(BytesOf(l)) = Len(l)
  BY <1>2, IsSequence
<1> QED
  BY <1>3 DEF BytesOf

\* The contents of the abstract stack are the bytes of the history.
Contents == [i \in 1..Len(live) |-> read(SlotOf(i))]

LEMMA SameByte == Lifo!Byte = Byte
BY DEF Lifo!Byte, Byte

LEMMA ContentsAreBytes ==
  /\ StackInv => Contents = BytesOf(live)
  /\ StackInv' => Contents' = BytesOf(live')
BY DEF StackInv, StackIntegrity, Contents, BytesOf

\* The bytes of a part of a history are a part of its bytes.
LEMMA PartBytes ==
  ASSUME NEW c \in Seq(TrueEntries), NEW m \in 1..(Len(c) + 1), NEW n \in 0..Len(c), n >= m - 1
  PROVE  BytesOf(SubSeq(c, m, n)) = SubSeq(BytesOf(c), m, n)
<1> DEFINE p == SubSeq(c, m, n)
           b == BytesOf(c)
           q == SubSeq(b, m, n)
           k == n + 1 - m
<1>1. /\ b \in Seq(Byte) /\ Len(b) = Len(c) /\ Len(c) \in Nat
      /\ \A i \in 1..Len(c) : b[i] = c[i].byte
  BY BytesType
<1>2. k \in Nat /\ (IF m <= n THEN n - m + 1 = k ELSE k = 0)
  BY <1>1
<1>3. \A i \in m..n : c[i] \in TrueEntries /\ b[i] \in Byte
  BY <1>1
<1> HIDE DEF b, k
<1>4. p \in Seq(TrueEntries) /\ Len(p) = k /\ \A i \in 1..k : p[i] = c[m + i - 1]
  BY <1>2, <1>3, SubSeqProperties
<1>5. q \in Seq(Byte) /\ Len(q) = k /\ \A i \in 1..k : q[i] = b[m + i - 1]
  BY <1>1, <1>2, <1>3, SubSeqProperties
<1> HIDE DEF p, q
<1>6. /\ BytesOf(p) \in Seq(Byte) /\ Len(BytesOf(p)) = k
      /\ \A i \in 1..k : BytesOf(p)[i] = p[i].byte
  BY <1>4, BytesType
<1>7. ASSUME NEW i \in 1..k
      PROVE  BytesOf(p)[i] = q[i]
  <2>1. m + i - 1 \in 1..Len(c)
    BY <1>1 DEF k
  <2> QED
    BY <1>1, <1>4, <1>5, <1>6, <2>1
<1>8. BytesOf(p) = q
  BY <1>2, <1>5, <1>6, <1>7
<1> QED
  BY <1>8 DEF b, p, q

LEMMA JoinedBytes ==
  ASSUME NEW l \in Seq(TrueEntries), NEW u \in Seq(TrueEntries)
  PROVE  BytesOf(l \o u) = BytesOf(l) \o BytesOf(u)
<1> DEFINE c == l \o u
           m == BytesOf(l)
           n == BytesOf(u)
           b == BytesOf(c)
<1>1. Len(l) \in Nat /\ Len(u) \in Nat
  OBVIOUS
<1>2. /\ c \in Seq(TrueEntries) /\ Len(c) = Len(l) + Len(u)
      /\ \A i \in 1..Len(c) : c[i] = IF i <= Len(l) THEN l[i] ELSE u[i - Len(l)]
  OBVIOUS
<1> HIDE DEF c
<1>3. /\ m \in Seq(Byte) /\ Len(m) = Len(l) /\ \A i \in 1..Len(l) : m[i] = l[i].byte
      /\ n \in Seq(Byte) /\ Len(n) = Len(u) /\ \A i \in 1..Len(u) : n[i] = u[i].byte
      /\ b \in Seq(Byte) /\ Len(b) = Len(c) /\ \A i \in 1..Len(c) : b[i] = c[i].byte
  BY <1>2, BytesType
<1> HIDE DEF m, n, b
<1>4. /\ m \o n \in Seq(Byte) /\ Len(m \o n) = Len(l) + Len(u)
      /\ \A i \in 1..(Len(l) + Len(u)) :
           (m \o n)[i] = IF i <= Len(l) THEN m[i] ELSE n[i - Len(l)]
  <2>1. m \in Seq(Byte) /\ n \in Seq(Byte)
    BY <1>3
  <2>2. /\ m \o n \in Seq(Byte) /\ Len(m \o n) = Len(m) + Len(n)
        /\ \A i \in 1..(Len(m) + Len(n)) :
             (m \o n)[i] = IF i <= Len(m) THEN m[i] ELSE n[i - Len(m)]
    BY <2>1, ConcatProperties
  <2> QED
    BY <1>3, <2>2
<1>5. ASSUME NEW i \in 1..(Len(l) + Len(u))
      PROVE  b[i] = (m \o n)[i]
  <2>1. CASE i <= Len(l)
    BY <1>1, <1>2, <1>3, <1>4, <2>1
  <2>2. CASE i > Len(l)
    <3>1. i - Len(l) \in 1..Len(u) /\ ~(i <= Len(l))
      BY <1>1, <2>2
    <3> QED
      BY <1>2, <1>3, <1>4, <3>1
  <2>3. i <= Len(l) \/ i > Len(l)
    BY <1>1
  <2> QED
    BY <2>1, <2>2, <2>3
<1>6. Len(b) = Len(l) + Len(u)
  BY <1>2, <1>3
<1>7. b = m \o n
  BY <1>3, <1>4, <1>5, <1>6
<1> QED
  BY <1>7 DEF b, c, m, n

LEMMA NewestBytes ==
  ASSUME NEW c \in Seq(TrueEntries), NEW n \in Nat
  PROVE  BytesOf(Lifo!Newest(c, n)) = Lifo!Newest(BytesOf(c), n)
<1>1. Len(BytesOf(c)) = Len(c) /\ Len(c) \in Nat
  BY BytesType
<1>2. Lifo!Smaller(n, Len(c)) \in 0..Len(c)
  BY <1>1 DEF Lifo!Smaller
<1> DEFINE a == Len(c) + 1 - Lifo!Smaller(n, Len(c))
<1>3. a \in 1..(Len(c) + 1) /\ Len(c) \in 0..Len(c) /\ Len(c) >= a - 1
  BY <1>1, <1>2
<1> HIDE DEF a
<1>4. BytesOf(SubSeq(c, a, Len(c))) = SubSeq(BytesOf(c), a, Len(c))
  BY <1>3, PartBytes
<1> QED
  BY <1>1, <1>4 DEF Lifo!Newest, a

LEMMA DroppedBytes ==
  ASSUME NEW c \in Seq(TrueEntries), NEW n \in Nat
  PROVE  BytesOf(Lifo!Dropped(c, n)) = Lifo!Dropped(BytesOf(c), n)
<1>1. Len(BytesOf(c)) = Len(c) /\ Len(c) \in Nat
  BY BytesType
<1>2. Lifo!Smaller(n, Len(c)) \in 0..Len(c)
  BY <1>1 DEF Lifo!Smaller
<1> DEFINE a == Len(c) - Lifo!Smaller(n, Len(c))
<1>3. a \in 0..Len(c) /\ 1 \in 1..(Len(c) + 1) /\ a >= 1 - 1
  BY <1>1, <1>2
<1> HIDE DEF a
<1>4. BytesOf(SubSeq(c, 1, a)) = SubSeq(BytesOf(c), 1, a)
  BY <1>3, PartBytes
<1> QED
  BY <1>1, <1>4 DEF Lifo!Dropped, a

\* Without a pull, what is not kept of the bytes below the new ones is lost.
LEMMA PushedBytes ==
  ASSUME NEW l, History(l), NEW u \in Seq(TrueEntries), NEW r, Renews(r, l, 0, u)
  PROVE  BytesOf(r) = Lifo!Newest(BytesOf(l) \o BytesOf(u), Capacity)
<1>1. l \in Seq(TrueEntries) /\ Len(l) \in Nat
  BY DEF History
<1>2. Lifo!Dropped(l, 0) = l
  <2>1. Lifo!Smaller(0, Len(l)) = 0 /\ Len(l) - 0 = Len(l)
    BY <1>1 DEF Lifo!Smaller
  <2>2. SubSeq(l, 1, Len(l)) = l
    BY <1>1
  <2> QED
    BY <2>1, <2>2 DEF Lifo!Dropped
<1> DEFINE c == l \o u
           e == BytesOf(l) \o BytesOf(u)
<1>3. r = Lifo!Newest(c, Capacity)
  BY <1>2 DEF Renews
<1>4. c \in Seq(TrueEntries)
  BY <1>1
<1>5. e = BytesOf(c)
  BY <1>1, JoinedBytes
<1>6. Capacity \in Nat
  BY CapacityIs256
<1>7. BytesOf(Lifo!Newest(c, Capacity)) = Lifo!Newest(e, Capacity)
  <2> HIDE DEF c, e
  <2> QED
    BY <1>4, <1>5, <1>6, NewestBytes
<1> QED
  BY <1>3, <1>7

\* What a pull leaves fits, and nothing is added to it.
LEMMA PulledBytes ==
  ASSUME NEW l, History(l), NEW n \in 0..3, NEW r, Renews(r, l, n, <<>>)
  PROVE  BytesOf(r) = Lifo!Dropped(BytesOf(l), n)
<1>1. l \in Seq(TrueEntries) /\ Len(l) \in Nat /\ Len(l) <= Capacity /\ Capacity \in Nat
  BY CapacityIs256 DEF History
<1> DEFINE q == Lifo!Dropped(l, n)
           a == Len(l) - Lifo!Smaller(n, Len(l))
<1>2. a \in 0..Len(l)
  BY <1>1 DEF Lifo!Smaller
<1>3. q = SubSeq(l, 1, a)
  BY DEF Lifo!Dropped
<1> HIDE DEF a, q
<1>4. q \in Seq(TrueEntries) /\ Len(q) = a
  <2>1. \A i \in 1..a : l[i] \in TrueEntries
    BY <1>1, <1>2
  <2> QED
    BY <1>1, <1>2, <1>3, <2>1, SubSeqProperties
<1>5. Len(q) \in Nat /\ Len(q) <= Capacity
  BY <1>1, <1>2, <1>4
<1>6. q \o <<>> = q
  BY <1>4, ConcatEmptySeq
<1>7. Lifo!Newest(q, Capacity) = q
  <2>1. Lifo!Smaller(Capacity, Len(q)) = Len(q)
    BY <1>1, <1>5 DEF Lifo!Smaller
  <2>2. Len(q) + 1 - Len(q) = 1
    BY <1>5
  <2>3. SubSeq(q, 1, Len(q)) = q
    BY <1>4
  <2> QED
    BY <2>1, <2>2, <2>3 DEF Lifo!Newest
<1>8. r = q
  BY <1>6, <1>7 DEF Renews, q
<1> QED
  BY <1>1, <1>8, DroppedBytes DEF q

-----------------------------------------------------------------------------
(* The steps *)

LEMMA PushStep ==
  ASSUME StackInv, StackInv', StackNext, Saves \in Seq(TrueEntries), Takes = 0,
         ~Executing("TXS"), ~Stores, last' = Lifo!Operation("push", BytesOf(Saves))
  PROVE  Lifo!Push
<1>1. History(live) /\ Renews(live', live, 0, Saves)
  BY InvHolds DEF StackNext, NextLive, Renews
<1>3. last'.op = "push" /\ last'.moved = BytesOf(Saves)
  BY DEF Lifo!Operation
<1>4. BytesOf(Saves) \in Seq(Byte)
  BY BytesType
<1>5. BytesOf(live') = Lifo!Newest(BytesOf(live) \o BytesOf(Saves), Capacity)
  BY <1>1, PushedBytes
<1>6. Contents' = Lifo!Newest(Contents \o BytesOf(Saves), Capacity)
  BY <1>5, ContentsAreBytes
<1> QED
  BY <1>3, <1>4, <1>6, SameByte DEF Lifo!Push, Contents

\* A pull of n bytes that the registers or the PC took from the top
LEMMA PullStep ==
  ASSUME StackInv, StackInv', StackNext, NEW n \in 1..3, Takes = n, Saves = <<>>,
         ~Executing("TXS"), ~Stores,
         NEW moved \in Seq(Byte), Len(moved) = n, last' = Lifo!Operation("pull", moved),
         \A i \in 1..n : moved[i] = read(popped(i - 1))
  PROVE  Lifo!Pull
<1>1. /\ History(live) /\ Renews(live', live, n, <<>>)
      /\ live \in Seq(TrueEntries) /\ Len(live) \in Nat
  BY InvHolds DEF StackNext, NextLive, Renews, History
<1>2. last'.op = "pull" /\ last'.moved = moved
  BY DEF Lifo!Operation
<1>3. n \in 0..3 /\ n \in Nat
  OBVIOUS
<1>4. BytesOf(live') = Lifo!Dropped(BytesOf(live), n)
  BY <1>1, <1>3, PulledBytes
<1>5. Contents' = Lifo!Dropped(Contents, n)
  BY <1>4, ContentsAreBytes
<1>6. /\ Contents = BytesOf(live) /\ Len(Contents) = Len(live)
      /\ \A i \in 1..Len(live) : Contents[i] = live[i].byte
  BY <1>1, ContentsAreBytes, BytesType
<1>7. ASSUME NEW i \in 1..Lifo!Smaller(n, Len(Contents))
      PROVE  moved[i] = Contents[Len(Contents) + 1 - i]
  <2>1. i \in 1..n /\ i \in 1..3 /\ Len(live) >= i /\ Len(live) + 1 - i \in 1..Len(live)
    BY <1>1, <1>6 DEF Lifo!Smaller
  <2>2. read(popped(i - 1)) = Top(i).byte
    BY <2>1, TopCells
  <2> QED
    BY <1>6, <2>1, <2>2 DEF Top
<1> HIDE DEF Contents
<1>8. /\ last'.op = "pull" /\ last'.moved \in Seq(Byte)
      /\ \A i \in 1..Lifo!Smaller(Len(last'.moved), Len(Contents)) :
           last'.moved[i] = Contents[Len(Contents) + 1 - i]
      /\ Contents' = Lifo!Dropped(Contents, Len(last'.moved))
  BY <1>2, <1>5, <1>7
<1> QED
  BY <1>8, SameByte DEF Lifo!Pull, Contents

-----------------------------------------------------------------------------
(* The instructions *)

LEMMA SavesType ==
  ASSUME TypeOK, PHA \/ PHX \/ PHY \/ PHP \/ JSR \/ BRK
  PROVE  Saves \in Seq(TrueEntries) /\ Saves # <<>>
<1>1. /\ A \in Byte /\ X \in Byte /\ Y \in Byte
      /\ high(PC) \in Byte /\ low(PC) \in Byte /\ \A p : FromBits(p) \in Byte
  BY HalvesType, BitsType DEF TypeOK, RegistersOK, ControlOK
<1>2. ASSUME NEW v \in Byte
      PROVE  Entry("data", v) \in TrueEntries
  BY EntryType DEF Kinds, Truthful, Entry
<1> DEFINE callHigh == Entry("call high", high(PC))
           callLow == Entry("call low", low(PC))
           breakHigh == Entry("break high", high(PC))
           breakLow == Entry("break low", low(PC))
           breakStatus == Entry("break status", FromBits(P))
<1>3. /\ callHigh \in TrueEntries /\ callLow \in TrueEntries
      /\ breakHigh \in TrueEntries /\ breakLow \in TrueEntries
      /\ breakStatus \in TrueEntries
  BY <1>1, EntryType DEF Kinds, Truthful, Entry
<1>4. CASE PHA \/ PHX \/ PHY \/ PHP
  <2>1. \E v \in Byte : Saves = <<Entry("data", v)>>
    BY <1>1, <1>4 DEF PHA, PHX, PHY, PHP, Executing, Saves
  <2> QED
    BY <1>2, <2>1
<1>5. CASE JSR
  <2>1. Saves = <<callHigh, callLow>>
    BY <1>5 DEF JSR, Executing, Saves
  <2> HIDE DEF callHigh, callLow, breakHigh, breakLow, breakStatus
  <2> QED
    BY <1>3, <2>1
<1>6. CASE BRK
  <2>1. Saves = <<breakHigh, breakLow, breakStatus>>
    BY <1>6 DEF BRK, Executing, Saves
  <2> HIDE DEF callHigh, callLow, breakHigh, breakLow, breakStatus
  <2> QED
    BY <1>3, <2>1
<1> QED
  BY <1>4, <1>5, <1>6

LEMMA PushInstruction ==
  ASSUME StackInv, StackInv', StackNext, PHA \/ PHX \/ PHY \/ PHP \/ JSR \/ BRK
  PROVE  Lifo!Push
<1>1. Saves \in Seq(TrueEntries) /\ Saves # <<>>
  BY InvHolds, SavesType
<1>2. /\ Takes = 0 /\ ~Executing("TXS") /\ ~Stores
      /\ ~Executing("PLA") /\ ~Executing("PLX") /\ ~Executing("PLY") /\ ~Executing("PLP")
      /\ ~Executing("RTS") /\ ~Executing("RTI")
  BY DEF PHA, PHX, PHY, PHP, JSR, BRK, Executing, ExecutingOneOf, Takes, Stores
<1>3. NextLast = Lifo!Operation("push", [i \in DOMAIN Saves |-> Saves[i].byte])
  BY <1>1, <1>2 DEF NextLast
<1>4. [i \in DOMAIN Saves |-> Saves[i].byte] = BytesOf(Saves)
  <2>1. DOMAIN Saves = 1..Len(Saves)
    BY <1>1
  <2> QED
    BY <2>1 DEF BytesOf
<1> QED
  BY <1>1, <1>2, <1>3, <1>4, PushStep DEF StackNext

LEMMA PullRegister ==
  ASSUME StackInv, StackInv', StackNext, PLA \/ PLX \/ PLY \/ PLP
  PROVE  Lifo!Pull
<1>1. /\ Takes = 1 /\ Saves = <<>> /\ ~Executing("TXS") /\ ~Stores
      /\ ~Executing("RTS") /\ ~Executing("RTI")
  BY DEF PLA, PLX, PLY, PLP, Executing, ExecutingOneOf, Saves, Takes, Stores
<1>2. S \in Byte /\ read(S) \in Byte /\ popped(0) = S
  BY InvHolds, ReadType, PoppedNone DEF TypeOK, MemoryOK
<1>3. last' = Lifo!Operation("pull", <<read(S)>>)
  <2>1. CASE PLA
    <3>1. A' = read(S) /\ Executing("PLA") /\ ~Executing("PLX") /\ ~Executing("PLY")
          /\ ~Executing("PLP")
      BY <2>1 DEF PLA, Executing
    <3> QED
      BY <1>1, <3>1 DEF StackNext, NextLast, Pulled
  <2>2. CASE PLX
    <3>1. X' = read(S) /\ Executing("PLX") /\ ~Executing("PLA") /\ ~Executing("PLY")
          /\ ~Executing("PLP")
      BY <2>2 DEF PLX, Executing
    <3> QED
      BY <1>1, <3>1 DEF StackNext, NextLast, Pulled
  <2>3. CASE PLY
    <3>1. Y' = read(S) /\ Executing("PLY") /\ ~Executing("PLA") /\ ~Executing("PLX")
          /\ ~Executing("PLP")
      BY <2>3 DEF PLY, Executing
    <3> QED
      BY <1>1, <3>1 DEF StackNext, NextLast, Pulled
  <2>4. CASE PLP
    <3>1. P' = ToBits(read(S)) /\ Executing("PLP") /\ ~Executing("PLA")
          /\ ~Executing("PLX") /\ ~Executing("PLY")
      BY <2>4 DEF PLP, Executing
    <3>2. FromBits(P') = read(S)
      BY <1>2, <3>1, FromBitsOfBits
    <3> QED
      BY <1>1, <3>1, <3>2 DEF StackNext, NextLast, Pulled
  <2> QED
    BY <2>1, <2>2, <2>3, <2>4
<1> DEFINE moved == <<read(S)>>
<1>4. moved \in Seq(Byte) /\ Len(moved) = 1 /\ \A i \in 1..1 : moved[i] = read(popped(i - 1))
  BY <1>2
<1>5. last' = Lifo!Operation("pull", moved) /\ 1 \in 1..3
  BY <1>3
<1> HIDE DEF moved
<1> QED
  BY <1>1, <1>4, <1>5, PullStep

\* Taking back what RTS and RTI add to the address they pulled
LEMMA PlusAndBack ==
  ASSUME NEW a \in Word, NEW n \in 1..3
  PROVE  Plus(Plus(a, n), -n) = a
<1>1. a \in Nat /\ a < WordSize /\ WordSize \in Nat /\ WordSize > 511
  BY WordBounds DEF Word
<1> QED
  BY <1>1 DEF Plus

LEMMA PullCall ==
  ASSUME StackInv, StackInv', StackNext, RTS
  PROVE  Lifo!Pull
<1>1. /\ Takes = 2 /\ Saves = <<>> /\ ~Executing("TXS") /\ ~Stores
      /\ ~Executing("PLA") /\ ~Executing("PLX") /\ ~Executing("PLY") /\ ~Executing("PLP")
      /\ Executing("RTS") /\ ~Executing("RTI")
  BY DEF RTS, Executing, ExecutingOneOf, Saves, Takes, Stores
<1> DEFINE lo == read(S)
           hi == read(popped(1))
           moved == <<lo, hi>>
<1>2. S \in Byte /\ lo \in Byte /\ hi \in Byte /\ popped(0) = S
  BY InvHolds, ReadType, PoppedNone DEF TypeOK, MemoryOK
<1>3. PC' = Plus(address(lo, hi), 3)
  BY DEF RTS, set_PC
<1>4. low(Plus(PC', -3)) = lo /\ high(Plus(PC', -3)) = hi
  <2> HIDE DEF lo, hi
  <2>1. address(lo, hi) \in Word
    BY <1>2, AddressType
  <2>2. Plus(PC', -3) = address(lo, hi)
    BY <1>3, <2>1, PlusAndBack
  <2> QED
    BY <1>2, <2>2, HalvesOfAddress
<1>5. last' = Lifo!Operation("pull", moved)
  <2>1. last' = Pulled(<<low(Plus(PC', -3)), high(Plus(PC', -3))>>)
    BY <1>1 DEF StackNext, NextLast
  <2> QED
    BY <1>4, <2>1 DEF Pulled
<1>6. moved \in Seq(Byte) /\ Len(moved) = 2 /\ \A i \in 1..2 : moved[i] = read(popped(i - 1))
  BY <1>2
<1> HIDE DEF moved
<1> QED
  BY <1>1, <1>5, <1>6, PullStep

LEMMA PullInterrupt ==
  ASSUME StackInv, StackInv', StackNext, RTI
  PROVE  Lifo!Pull
<1>1. /\ Takes = 3 /\ Saves = <<>> /\ ~Executing("TXS") /\ ~Stores
      /\ ~Executing("PLA") /\ ~Executing("PLX") /\ ~Executing("PLY") /\ ~Executing("PLP")
      /\ ~Executing("RTS") /\ Executing("RTI")
  BY DEF RTI, Executing, ExecutingOneOf, Saves, Takes, Stores
<1> DEFINE b == read(S)
           lo == read(popped(1))
           hi == read(popped(2))
           moved == <<b, lo, hi>>
<1>2. S \in Byte /\ b \in Byte /\ lo \in Byte /\ hi \in Byte /\ popped(0) = S
  BY InvHolds, ReadType, PoppedNone DEF TypeOK, MemoryOK
<1>3. PC' = Plus(address(lo, hi), 1) /\ P' = ToBits(b)
  BY DEF RTI, set_PC
<1>4. low(Plus(PC', -1)) = lo /\ high(Plus(PC', -1)) = hi /\ FromBits(P') = b
  <2> HIDE DEF b, lo, hi
  <2>1. address(lo, hi) \in Word
    BY <1>2, AddressType
  <2>2. Plus(PC', -1) = address(lo, hi)
    BY <1>3, <2>1, PlusAndBack
  <2> QED
    BY <1>2, <1>3, <2>2, HalvesOfAddress, FromBitsOfBits
<1>5. last' = Lifo!Operation("pull", moved)
  <2>1. last' = Pulled(<<FromBits(P'), low(Plus(PC', -1)), high(Plus(PC', -1))>>)
    BY <1>1 DEF StackNext, NextLast
  <2> QED
    BY <1>4, <2>1 DEF Pulled
<1>6. moved \in Seq(Byte) /\ Len(moved) = 3 /\ \A i \in 1..3 : moved[i] = read(popped(i - 1))
  BY <1>2
<1> HIDE DEF moved
<1> QED
  BY <1>1, <1>5, <1>6, PullStep

\* A store hits one entry at most: the cells of the stack are different cells.
LEMMA StoreHitsOne ==
  ASSUME StackInv, NEW i \in 1..Len(live), NEW j \in 1..Len(live), i # j
  PROVE  SlotOf(i) # SlotOf(j)
<1> DEFINE n == Len(live)
<1>1. S \in Byte /\ n \in Nat /\ n <= 256
  BY InvHolds, CapacityIs256 DEF History
<1> HIDE DEF n
<1>2. /\ i \in 1..n /\ j \in 1..n
      /\ SlotOf(i) = (S + n - i) % 256 /\ SlotOf(j) = (S + n - j) % 256
  BY DEF n, SlotOf
<1>3. /\ n + 1 - i \in 1..256 /\ n + 1 - j \in 1..256 /\ n + 1 - i # n + 1 - j
      /\ S + (n + 1 - i) - 1 = S + n - i /\ S + (n + 1 - j) - 1 = S + n - j
  BY <1>1, <1>2, SMTT(30) DEF Byte
<1>4. CellAt(S, n + 1 - i) # CellAt(S, n + 1 - j)
  BY <1>1, <1>3, CellsDiffer, ZenonT(60)
<1> QED
  BY <1>2, <1>3, <1>4 DEF CellAt

LEMMA StoreInstruction ==
  ASSUME StackInv, StackInv', StackNext, StoreStep
  PROVE  Lifo!Store
<1>1. PICK v : write(op_address, v)
  BY DEF StoreStep
<1>2. mem' = written(mem, op_address, v) /\ S' = S
  BY <1>1 DEF StoreStep, write
<1>3. mem'[op_address] = v
  BY <1>2 DEF written
<1>4. \A c : Content(mem', c) = IF c = op_address THEN v ELSE Content(mem, c)
  BY <1>2, ContentWritten
<1>5. Len(live') = Len(live) /\ Len(live) \in Nat
  <2>1. live' = Overwritten /\ live \in Seq(TrueEntries)
    BY InvHolds DEF StackNext, NextLive, StoreStep, History
  <2>2. DOMAIN live' = 1..Len(live)
    BY <2>1 DEF Overwritten
  <2>3. live' \in Seq(TrueEntries)
    BY DEF StackInv
  <2>4. DOMAIN live' = 1..Len(live') /\ Len(live') \in Nat /\ Len(live) \in Nat
    BY <2>1, <2>3
  <2> QED
    BY <2>2, <2>4
<1>6. last' = Lifo!Operation("store", <<v>>)
  <2>1. /\ Saves = <<>> /\ Stores /\ ~Executing("TXS")
        /\ ~Executing("PLA") /\ ~Executing("PLX") /\ ~Executing("PLY")
        /\ ~Executing("PLP") /\ ~Executing("RTS") /\ ~Executing("RTI")
    BY DEF StoreStep, Stores, Executing, ExecutingOneOf, Saves
  <2> QED
    BY <1>3, <2>1 DEF StackNext, NextLast
<1>7. last'.op = "store" /\ last'.moved[1] = v
  BY <1>6 DEF Lifo!Operation
<1>8. Contents' = [i \in 1..Len(live) |-> Content(mem', SlotOf(i))]
  BY <1>2, <1>5 DEF Contents, SlotOf, read, Content
<1>9. Contents = [i \in 1..Len(live) |-> Content(mem, SlotOf(i))]
  BY DEF Contents, read, Content
<1>10. CASE \A i \in 1..Len(live) : SlotOf(i) # op_address
  <2>1. Contents' = Contents
    BY <1>4, <1>8, <1>9, <1>10
  <2> QED
    BY <1>7, <2>1 DEF Lifo!Store, Contents
<1>11. CASE \E i \in 1..Len(live) : SlotOf(i) = op_address
  <2>1. PICK i \in 1..Len(live) : SlotOf(i) = op_address
    BY <1>11
  <2>2. \A j \in 1..Len(live) : j # i => SlotOf(j) # op_address
    BY <2>1, StoreHitsOne
  <2>3. Contents' = [Contents EXCEPT ![i] = v]
    BY <1>4, <1>8, <1>9, <2>1, <2>2
  <2>4. i \in DOMAIN Contents
    BY <1>9
  <2> HIDE DEF Contents
  <2>5. \E k \in DOMAIN Contents : Contents' = [Contents EXCEPT ![k] = last'.moved[1]]
    BY <1>7, <2>3, <2>4
  <2> QED
    BY <1>7, <2>5 DEF Lifo!Store, Contents
<1> QED
  BY <1>10, <1>11

LEMMA MoveInstruction ==
  ASSUME StackNext, TXS
  PROVE  Lifo!Move
<1>1. /\ Executing("TXS") /\ Saves = <<>> /\ ~Stores
      /\ ~Executing("PLA") /\ ~Executing("PLX") /\ ~Executing("PLY")
      /\ ~Executing("PLP") /\ ~Executing("RTS") /\ ~Executing("RTI")
  BY DEF TXS, Stores, Executing, ExecutingOneOf, Saves
<1>2. last' = Lifo!Operation("move", <<>>)
  BY <1>1 DEF StackNext, NextLast
<1>3. live' = <<>>
  BY <1>1 DEF StackNext, NextLive
<1>4. Contents' = <<>>
  BY <1>3 DEF Contents
<1> QED
  BY <1>2, <1>4 DEF Lifo!Move, Contents

LEMMA QuietInstruction ==
  ASSUME StackInv, StackInv', StackNext, QuietStep
  PROVE  Lifo!None
<1>1. /\ Saves = <<>> /\ Takes = 0 /\ ~Stores /\ ~Executing("TXS")
      /\ ~Executing("PLA") /\ ~Executing("PLX") /\ ~Executing("PLY")
      /\ ~Executing("PLP") /\ ~Executing("RTS") /\ ~Executing("RTI")
  BY DEF QuietStep, StackUsers, Executing, ExecutingOneOf, Saves, Takes, Stores
<1>2. last' = Lifo!Operation("none", <<>>)
  BY <1>1 DEF StackNext, NextLast
<1>3. /\ History(live) /\ Renews(live', live, 0, <<>>)
      /\ live \in Seq(TrueEntries) /\ Len(live) \in Nat
  BY <1>1, InvHolds DEF StackNext, NextLive, Renews, History
<1>4. BytesOf(live') = Lifo!Dropped(BytesOf(live), 0)
  BY <1>3, PulledBytes
<1>5. BytesOf(live) \in Seq(Byte) /\ Len(BytesOf(live)) \in Nat
  BY <1>3, BytesType
<1>6. Lifo!Dropped(BytesOf(live), 0) = BytesOf(live)
  <2> DEFINE b == BytesOf(live)
  <2>1. b \in Seq(Byte) /\ Len(b) \in Nat
    BY <1>5
  <2> HIDE DEF b
  <2>2. Lifo!Smaller(0, Len(b)) = 0 /\ Len(b) - 0 = Len(b)
    BY <2>1 DEF Lifo!Smaller
  <2>3. SubSeq(b, 1, Len(b)) = b
    BY <2>1
  <2>4. Lifo!Dropped(b, 0) = b
    BY <2>2, <2>3 DEF Lifo!Dropped
  <2> QED
    BY <2>4 DEF b
<1>7. Contents' = Contents
  BY <1>4, <1>6, ContentsAreBytes
<1> QED
  BY <1>2, <1>7 DEF Lifo!None, Contents

LEMMA StepImplements ==
  ASSUME StackInv, StackInv', [StackNext]_stackVars
  PROVE  [Lifo!Next]_(Lifo!stackVars)
<1>1. CASE UNCHANGED stackVars
  <2>1. mem' = mem /\ S' = S /\ live' = live /\ last' = last
    BY <1>1 DEF stackVars, cpuVars, memoryVars
  <2>2. Contents' = Contents
    BY <2>1 DEF Contents, SlotOf, read
  <2> QED
    BY <2>1, <2>2 DEF Lifo!stackVars, Contents
<1>2. CASE StackNext
  <2>1. step
    BY <1>2 DEF StackNext, execute
  <2>2. CASE PHA \/ PHX \/ PHY \/ PHP \/ JSR \/ BRK
    BY <1>2, <2>2, PushInstruction DEF Lifo!Next
  <2>3. CASE PLA \/ PLX \/ PLY \/ PLP
    BY <1>2, <2>3, PullRegister DEF Lifo!Next
  <2>4. CASE RTS
    BY <1>2, <2>4, PullCall DEF Lifo!Next
  <2>5. CASE RTI
    BY <1>2, <2>5, PullInterrupt DEF Lifo!Next
  <2>6. CASE StoreStep
    BY <1>2, <2>6, StoreInstruction DEF Lifo!Next
  <2>7. CASE TXS
    BY <1>2, <2>7, MoveInstruction DEF Lifo!Next
  <2>8. CASE QuietStep
    BY <1>2, <2>8, QuietInstruction DEF Lifo!Next
  <2> QED
    BY <2>1, <2>2, <2>3, <2>4, <2>5, <2>6, <2>7, <2>8, StepKinds
<1> QED
  BY <1>1, <1>2

LEMMA InitImplements == StackInit => Lifo!Init
<1> SUFFICES ASSUME StackInit
             PROVE  Lifo!Init
  OBVIOUS
<1>1. Contents = <<>>
  BY DEF StackInit, Contents
<1> QED
  BY <1>1 DEF StackInit, Lifo!Init, Contents

\* For every program, the cells above S and the registers behave as a last-in-first-out
\* stack of 256 bytes: a pull yields what was pushed last, and nothing else disturbs it
\* but a store to the stack, TXS, or a push too many (6502cpu.cpp:20, 6502cpu.cpp:35).
THEOREM StackImplements == StackSpec => StackImplementsLifo
<1>1. StackInit => Lifo!Init
  BY InitImplements
<1>2. StackInv /\ StackInv' /\ [StackNext]_stackVars => [Lifo!Next]_(Lifo!stackVars)
  BY StepImplements
<1> QED
  BY <1>1, <1>2, StackInvAlways, PTL DEF StackSpec, Lifo!Spec, StackImplementsLifo
=============================================================================
