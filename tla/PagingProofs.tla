---------------------------- MODULE PagingProofs ----------------------------
(***************************************************************************)
(* What is proved about the paged listing.                                 *)
(***************************************************************************)
EXTENDS Paging, SequenceTheorems, DataLemmas

-----------------------------------------------------------------------------
(* Windows and their cost.                                                 *)

\* A narrowed window is not empty, and narrower unless it holds one record.
LEMMA NarrowedWindow ==
  ASSUME NEW n \in Nat \ {0}
  PROVE  Narrowed(n) \in 1 .. n /\ (n > 1 => Narrowed(n) < n)
  <1>. DEFINE q == n \div Shrink
  <1>1. q \in Nat /\ q < n
    BY WindowAssumption
  <1>. HIDE DEF q
  <1>2. \E x \in {1, q} : \A y \in {1, q} : x >= y
    BY <1>1
  <1>3. Max({1, q}) \in {1, q} /\ \A y \in {1, q} : Max({1, q}) >= y
    BY <1>2 DEF Max
  <1>4. QED
    BY <1>1, <1>3 DEF Narrowed, q

\* The recursion of Cost is down to narrower windows, so Cost is defined.
LEMMA CostDefined ==
  /\ Cost[1] = 1
  /\ \A n \in 1 .. PageSize : Cost[n] \in Nat
  /\ \A n \in 2 .. PageSize :
       Cost[n] = 1 + ((n + Narrowed(n) - 1) \div Narrowed(n) - 1) + Cost[Narrowed(n)]
  <1>. DEFINE body(f, n) ==
                IF n = 1 THEN 1
                ELSE LET m == Max({1, n \div Shrink}) IN 1 + ((n + m - 1) \div m - 1) + f[m]
              step(f, n) ==
                IF n = 1 THEN 1
                ELSE 1 + ((n + Narrowed(n) - 1) \div Narrowed(n) - 1) + f[Narrowed(n)]
              T == {k \in Nat : \E f : f = [n \in 1 .. k |-> step(f, n)]}
  <1>1. 0 \in T
    <2>. DEFINE f == [n \in 1 .. 0 |-> 0]
    <2>1. f = [n \in 1 .. 0 |-> step(f, n)]
      OBVIOUS
    <2>. HIDE DEF f
    <2>2. QED
      BY <2>1
  <1>2. ASSUME NEW k \in Nat, k \in T PROVE k + 1 \in T
    <2>1. PICK f : f = [n \in 1 .. k |-> step(f, n)]
      BY <1>2
    <2>. DEFINE g == [n \in 1 .. k + 1 |-> IF n <= k THEN f[n] ELSE step(f, n)]
    <2>2. \A n \in 1 .. k + 1 : n # 1 => Narrowed(n) \in 1 .. k /\ g[Narrowed(n)] = f[Narrowed(n)]
      <3>. SUFFICES ASSUME NEW n \in 1 .. k + 1, n # 1
                    PROVE  Narrowed(n) \in 1 .. k /\ g[Narrowed(n)] = f[Narrowed(n)]
        OBVIOUS
      <3>1. Narrowed(n) \in 1 .. k
        BY NarrowedWindow
      <3>2. QED
        BY <3>1
    <2>3. \A n \in 1 .. k + 1 : g[n] = step(f, n)
      BY <2>1
    <2>4. \A n \in 1 .. k + 1 : step(f, n) = step(g, n)
      <3>. HIDE DEF g
      <3>. QED
        BY <2>2
    <2>5. g = [n \in 1 .. k + 1 |-> step(g, n)]
      <3>1. g = [n \in 1 .. k + 1 |-> g[n]]
        OBVIOUS
      <3>. HIDE DEF g, step
      <3>2. QED
        BY <2>3, <2>4, <3>1
    <2>. HIDE DEF g
    <2>6. QED
      BY <2>5
  <1>3. PageSize \in T
    <2>. HIDE DEF T
    <2>1. Nat \subseteq T
      BY <1>1, <1>2, SetOfNaturals
    <2>2. QED
      BY <2>1, WindowAssumption
  <1>4. PICK f : f = [n \in 1 .. PageSize |-> body(f, n)]
    BY <1>3 DEF Narrowed
  <1>5. Cost = [n \in 1 .. PageSize |-> body(Cost, n)]
    BY <1>4 DEF Cost
  <1>6. \A n \in 1 .. PageSize : Cost[n] = step(Cost, n)
    BY <1>5 DEF Narrowed
  <1>7. \A n \in 1 .. PageSize : Cost[n] \in Nat
    <2>. DEFINE U == {k \in Nat : \A n \in 1 .. PageSize : n <= k => Cost[n] \in Nat}
    <2>1. 0 \in U
      OBVIOUS
    <2>2. ASSUME NEW k \in Nat, k \in U PROVE k + 1 \in U
      <3>. SUFFICES ASSUME NEW n \in 1 .. PageSize, n = k + 1 PROVE Cost[n] \in Nat
        BY <2>2
      <3>1. CASE n = 1
        BY <1>6, <3>1
      <3>2. CASE n # 1
        <4>. DEFINE m == Narrowed(n)
        <4>1. m \in 1 .. PageSize /\ m <= k /\ m >= 1 /\ m < n
          BY <3>2, NarrowedWindow, WindowAssumption
        <4>2. Cost[m] \in Nat
          BY <2>2, <4>1
        <4>. HIDE DEF m
        <4>3. (n + m - 1) \div m - 1 \in Nat
          BY <4>1
        <4>4. Cost[n] = 1 + ((n + m - 1) \div m - 1) + Cost[m]
          BY <1>6, <3>2 DEF m
        <4>5. QED
          BY <4>2, <4>3, <4>4
      <3>3. QED
        BY <3>1, <3>2
    <2>. HIDE DEF U
    <2>3. Nat \subseteq U
      BY <2>1, <2>2, SetOfNaturals
    <2>4. PageSize \in U
      BY <2>3, WindowAssumption
    <2>5. QED
      BY <2>4, WindowAssumption DEF U
  <1>8. QED
    BY <1>6, <1>7, WindowAssumption

-----------------------------------------------------------------------------
(* Libraries and windows.                                                  *)

\* A library with one record less.
LEMMA RemovalOf ==
  ASSUME NEW S, NEW s \in Seq(S), NEW i \in 1 .. Len(s)
  PROVE  LET t == RemoveAt(s, i)
         IN  /\ t \in Seq(S) /\ Len(t) = Len(s) - 1
             /\ \A j \in 1 .. Len(t) : t[j] = s[IF j < i THEN j ELSE j + 1]
  <1>. DEFINE a == SubSeq(s, 1, i - 1)
              b == SubSeq(s, i + 1, Len(s))
              t == RemoveAt(s, i)
  <1>1. Len(s) \in Nat /\ \A j \in 1 .. Len(s) : s[j] \in S
    OBVIOUS
  <1>2. a \in Seq(S) /\ Len(a) = i - 1 /\ \A j \in 1 .. i - 1 : a[j] = s[j]
    BY <1>1, SubSeqProperties
  <1>3. b \in Seq(S) /\ Len(b) = Len(s) - i /\ \A j \in 1 .. Len(s) - i : b[j] = s[i + j]
    BY <1>1, SubSeqProperties
  <1>4. t = a \o b
    BY DEF RemoveAt
  <1>. HIDE DEF a, b, t
  <1>5. /\ t \in Seq(S) /\ Len(t) = Len(a) + Len(b)
        /\ \A j \in 1 .. Len(a) + Len(b) : t[j] = IF j <= Len(a) THEN a[j] ELSE b[j - Len(a)]
    BY <1>2, <1>3, <1>4, ConcatProperties
  <1>6. Len(t) = Len(s) - 1
    BY <1>1, <1>2, <1>3, <1>5
  <1>7. ASSUME NEW j \in 1 .. Len(t) PROVE t[j] = s[IF j < i THEN j ELSE j + 1]
    <2>1. CASE j < i
      BY <1>1, <1>2, <1>3, <1>5, <1>6, <2>1
    <2>2. CASE j >= i
      <3>1. t[j] = b[j - (i - 1)] /\ j - (i - 1) \in 1 .. Len(s) - i
        BY <1>1, <1>2, <1>3, <1>5, <1>6, <2>2
      <3>2. b[j - (i - 1)] = s[i + (j - (i - 1))]
        BY <1>3, <3>1
      <3>3. i + (j - (i - 1)) = j + 1
        BY <1>1, <1>6
      <3>4. QED
        BY <2>2, <3>1, <3>2, <3>3, <1>1, <1>6
    <2>3. QED
      BY <2>1, <2>2, <1>1, <1>6
  <1>8. QED
    BY <1>5, <1>6, <1>7 DEF t

\* A library with one record more.
LEMMA InsertionOf ==
  ASSUME NEW S, NEW s \in Seq(S), NEW i \in 1 .. Len(s) + 1, NEW x \in S
  PROVE  LET t == InsertAt(s, i, x)
         IN  /\ t \in Seq(S) /\ Len(t) = Len(s) + 1
             /\ \A j \in 1 .. Len(t) :
                  t[j] = IF j < i THEN s[j] ELSE IF j = i THEN x ELSE s[j - 1]
  <1>. DEFINE a == SubSeq(s, 1, i - 1)
              b == SubSeq(s, i, Len(s))
              m == <<x>>
              am == a \o m
              t == InsertAt(s, i, x)
  <1>1. Len(s) \in Nat /\ \A j \in 1 .. Len(s) : s[j] \in S
    OBVIOUS
  <1>2. a \in Seq(S) /\ Len(a) = i - 1 /\ \A j \in 1 .. i - 1 : a[j] = s[j]
    BY <1>1, SubSeqProperties
  <1>3. b \in Seq(S) /\ Len(b) = Len(s) - i + 1 /\ \A j \in 1 .. Len(s) - i + 1 : b[j] = s[i + j - 1]
    BY <1>1, SubSeqProperties
  <1>4. m \in Seq(S) /\ Len(m) = 1 /\ m[1] = x
    OBVIOUS
  <1>5. t = am \o b /\ am = a \o m
    BY DEF InsertAt
  <1>. HIDE DEF a, b, m, am, t
  <1>6. am \in Seq(S) /\ Len(am) = i
        /\ \A j \in 1 .. i : am[j] = IF j < i THEN s[j] ELSE x
    <2>1. /\ am \in Seq(S) /\ Len(am) = Len(a) + Len(m)
          /\ \A j \in 1 .. Len(a) + Len(m) : am[j] = IF j <= Len(a) THEN a[j] ELSE m[j - Len(a)]
      BY <1>2, <1>4, <1>5, ConcatProperties
    <2>2. QED
      BY <1>1, <1>2, <1>4, <2>1
  <1>7. /\ t \in Seq(S) /\ Len(t) = Len(am) + Len(b)
        /\ \A j \in 1 .. Len(am) + Len(b) : t[j] = IF j <= Len(am) THEN am[j] ELSE b[j - Len(am)]
    <2>1. /\ am \o b \in Seq(S) /\ Len(am \o b) = Len(am) + Len(b)
          /\ \A j \in 1 .. Len(am) + Len(b) :
               (am \o b)[j] = IF j <= Len(am) THEN am[j] ELSE b[j - Len(am)]
      BY <1>3, <1>6, ConcatProperties
    <2>2. QED
      BY <1>5, <2>1
  <1>8. Len(t) = Len(s) + 1
    BY <1>1, <1>3, <1>6, <1>7
  <1>9. ASSUME NEW j \in 1 .. Len(t)
        PROVE  t[j] = IF j < i THEN s[j] ELSE IF j = i THEN x ELSE s[j - 1]
    <2>1. CASE j <= i
      BY <1>1, <1>3, <1>6, <1>7, <1>8, <2>1
    <2>2. CASE j > i
      <3>1. t[j] = b[j - i] /\ j - i \in 1 .. Len(s) - i + 1
        BY <1>1, <1>3, <1>6, <1>7, <1>8, <2>2
      <3>2. b[j - i] = s[i + (j - i) - 1]
        BY <1>3, <3>1
      <3>3. i + (j - i) - 1 = j - 1
        BY <1>1, <1>8
      <3>4. QED
        BY <2>2, <3>1, <3>2, <3>3, <1>1, <1>8
    <2>3. QED
      BY <2>1, <2>2, <1>1, <1>8
  <1>10. QED
    BY <1>7, <1>8, <1>9 DEF t

\* A window is what the library has from start on, and shorter than its size
\* only at the end.
LEMMA WindowIs ==
  ASSUME TypeOK
  PROVE  /\ Window \in Seq(Records) /\ Len(Window) \in Nat
         /\ DOMAIN Window = 1 .. Len(Window)
         /\ Len(Window) <= size
         /\ Len(Window) > 0 => start + Len(Window) <= Len(library)
         /\ Len(Window) < size => start + Len(Window) >= Len(library)
         /\ \A i \in 1 .. Len(Window) : Window[i] = library[start + i]
  <1>. DEFINE m == start + 1
              n == Shorter(start + size, Len(library))
  <1>1. /\ library \in Seq(Records) /\ Len(library) \in Nat /\ start \in Nat
        /\ size \in Nat /\ size >= 1
    BY WindowAssumption DEF TypeOK
  <1>2. m \in Int /\ n \in Int /\ n <= Len(library) /\ n <= start + size
        /\ (n = start + size \/ n = Len(library))
    BY <1>1 DEF Shorter
  <1>3. m = start + 1 /\ Window = SubSeq(library, m, n)
    BY DEF Window
  <1>. HIDE DEF m, n
  <1>4. \A i \in m .. n : library[i] \in Records
    BY <1>1, <1>2, <1>3
  <1>5. /\ Window \in Seq(Records)
        /\ Len(Window) = IF m <= n THEN n - m + 1 ELSE 0
        /\ \A i \in 1 .. n - m + 1 : Window[i] = library[m + i - 1]
    BY <1>2, <1>3, <1>4, SubSeqProperties
  <1>6. QED
    BY <1>1, <1>2, <1>3, <1>5

\* What a listing has with one more page.
LEMMA Appended ==
  ASSUME NEW S, NEW s \in Seq(S), NEW t \in Seq(S)
  PROVE  /\ s \o t \in Seq(S) /\ Len(s \o t) = Len(s) + Len(t)
         /\ Image(s \o t) = Image(s) \cup Image(t)
         /\ \A i \in 1 .. Len(s) + Len(t) :
              (s \o t)[i] = IF i <= Len(s) THEN s[i] ELSE t[i - Len(s)]
  <1>. DEFINE u == s \o t
  <1>1. /\ u \in Seq(S) /\ Len(u) = Len(s) + Len(t)
        /\ \A i \in 1 .. Len(s) + Len(t) : u[i] = IF i <= Len(s) THEN s[i] ELSE t[i - Len(s)]
    BY ConcatProperties
  <1>. HIDE DEF u
  <1>2. DOMAIN u = 1 .. Len(u) /\ DOMAIN s = 1 .. Len(s) /\ DOMAIN t = 1 .. Len(t)
        /\ Len(s) \in Nat /\ Len(t) \in Nat
    BY <1>1
  <1>3. Image(u) \subseteq Image(s) \cup Image(t)
    <2>. SUFFICES ASSUME NEW i \in 1 .. Len(u) PROVE u[i] \in Image(s) \cup Image(t)
      BY <1>2 DEF Image
    <2>1. CASE i <= Len(s)
      <3>1. i \in DOMAIN s /\ u[i] = s[i]
        BY <1>1, <1>2, <2>1
      <3>2. QED
        BY <3>1 DEF Image
    <2>2. CASE i > Len(s)
      <3>1. i - Len(s) \in DOMAIN t /\ u[i] = t[i - Len(s)]
        BY <1>1, <1>2, <2>2
      <3>2. QED
        BY <3>1 DEF Image
    <2>3. QED
      BY <1>2, <2>1, <2>2
  <1>4. Image(s) \subseteq Image(u)
    BY <1>1, <1>2 DEF Image
  <1>5. Image(t) \subseteq Image(u)
    <2>. SUFFICES ASSUME NEW i \in 1 .. Len(t) PROVE t[i] \in Image(u)
      BY <1>2 DEF Image
    <2>1. Len(s) + i \in 1 .. Len(u) /\ (Len(s) + i) - Len(s) = i /\ ~(Len(s) + i <= Len(s))
      BY <1>1, <1>2
    <2>2. u[Len(s) + i] = t[i]
      BY <1>1, <2>1
    <2>3. QED
      BY <1>2, <2>1, <2>2 DEF Image
  <1>6. QED
    BY <1>1, <1>3, <1>4, <1>5 DEF u

\* Records are numbers.
LEMMA RecordsAreFinite ==
  /\ Records \subseteq Nat /\ IsFiniteSet(Records)
  /\ NRecords + MaxEdits \in Nat
  BY LibraryAssumption, FS_Interval DEF Records

-----------------------------------------------------------------------------
(* Types.                                                                  *)

\* The walk starts with a whole page of nothing.
LEMMA TypeInit == Init => TypeOK
  <1>. SUFFICES ASSUME Init PROVE TypeOK
    OBVIOUS
  <1>1. broken \subseteq 1 .. NRecords
    <2>1. PICK k \in 0 .. Shorter(MaxBroken, NRecords) : broken \in kSubset(k, 1 .. NRecords)
      BY DEF Init
    <2>2. QED
      BY <2>1 DEF kSubset
  <1>2. library \in Seq(Records) /\ all \in Seq(Records)
    BY LibraryAssumption DEF Init, Records
  <1>3. QED
    BY <1>1, <1>2, LibraryAssumption, WindowAssumption DEF Init, TypeOK

\* The window of every step is one to PageSize records.
LEMMA TypeStep ==
  ASSUME TypeOK, result = "walking" => skipped <= MaxSkips, [Next]_vars
  PROVE  TypeOK'
  <1>. USE LibraryAssumption, WindowAssumption
  <1>1. CASE RecordRemoved
    <2>1. PICK i \in 1 .. Len(library) : library' = RemoveAt(library, i)
      BY <1>1 DEF RecordRemoved
    <2>2. library' \in Seq(Records)
      BY <2>1, RemovalOf DEF TypeOK
    <2>3. removed' \in 0 .. MaxEdits
      BY <1>1 DEF RecordRemoved, TypeOK
    <2>4. QED
      BY <1>1, <2>2, <2>3 DEF RecordRemoved, TypeOK, walk, asking
  <1>2. CASE RecordAdded
    <2>1. PICK i \in 1 .. Len(library) + 1 :
            library' = InsertAt(library, i, NRecords + added + 1)
      BY <1>2 DEF RecordAdded
    <2>2. NRecords + added + 1 \in Records /\ added' \in 0 .. MaxEdits
      BY <1>2 DEF RecordAdded, TypeOK, Records
    <2>3. library' \in Seq(Records)
      BY <2>1, <2>2, InsertionOf DEF TypeOK
    <2>4. QED
      BY <1>2, <2>2, <2>3 DEF RecordAdded, TypeOK, walk, asking
  <1>3. CASE Refuse \/ Fault
    <2>1. UNCHANGED <<library, broken, start, size, page, skipped, all, result, stepped,
                      added, removed>>
      BY <1>3 DEF Refuse, Fault, server, walk, edits
    <2>2. /\ attempt' \in 0 .. MetadataRetries + 1 /\ faults' \in 0 .. MaxFaults
          /\ lastErr' \in {"none", "500", "other"}
      BY <1>3 DEF Refuse, Fault, Asking, TypeOK
    <2>3. QED
      BY <2>1, <2>2 DEF TypeOK
  <1>4. CASE Deadline \/ Abandon \/ RunOut
    BY <1>4 DEF Deadline, Abandon, RunOut, TypeOK, server, asking, edits
  <1>5. CASE FullPage \/ ShortPage
    <2>1. all' \in Seq(Records)
      <3>1. Window \in Seq(Records) /\ all \in Seq(Records)
        BY WindowIs DEF TypeOK
      <3>2. all \o Window \in Seq(Records)
        BY <3>1, Appended
      <3>3. QED
        BY <1>5, <3>2 DEF FullPage, ShortPage
    <2>2. start' \in Nat /\ page' \in 0 .. MaxPages
      BY <1>5, WindowIs DEF FullPage, ShortPage, Asking, Walking, TypeOK
    <2>3. /\ attempt' = 0 /\ lastErr' = "none" /\ result' \in {"walking", "listed"}
          /\ UNCHANGED <<library, broken, size, skipped, stepped, faults, added, removed>>
      BY <1>5 DEF FullPage, ShortPage, FreshAttempt, Asking, Walking, server, edits
    <2>4. QED
      BY <2>1, <2>2, <2>3 DEF TypeOK
  <1>6. CASE Narrow
    <2>1. size' \in 1 .. PageSize
      BY <1>6, NarrowedWindow DEF Narrow, TypeOK
    <2>2. QED
      BY <1>6, <2>1 DEF Narrow, Refused, Walking, FreshAttempt, TypeOK, server, edits
  <1>7. CASE StepOver
    <2>1. stepped' \subseteq Records
      <3>1. \A i \in DOMAIN library : library[i] \in Records
        BY DEF TypeOK
      <3>2. QED
        BY <1>7, <3>1 DEF StepOver, TypeOK
    <2>2. start' \in Nat /\ size' \in 1 .. PageSize /\ skipped' \in 0 .. MaxSkips + 1
      BY <1>7 DEF StepOver, PastRecord, Refused, Walking, TypeOK
    <2>3. page' \in 0 .. MaxPages /\ result' \in {"walking", "failed"}
      BY <1>7 DEF StepOver, Refused, Walking, TypeOK
    <2>4. QED
      BY <1>7, <2>1, <2>2, <2>3 DEF StepOver, FreshAttempt, TypeOK, server, edits
  <1>8. CASE UNCHANGED vars
    BY <1>8 DEF TypeOK, vars, server, walk, asking, edits
  <1>9. QED
    BY <1>1, <1>2, <1>3, <1>4, <1>5, <1>6, <1>7, <1>8 DEF Next

-----------------------------------------------------------------------------
(* Counting.                                                               *)

\* The records of a sequence without repetitions are as many as its length.
LEMMA Distinct ==
  ASSUME NEW S, NEW s \in Seq(S), \A i, j \in DOMAIN s : i # j => s[i] # s[j]
  PROVE  IsFiniteSet(Image(s)) /\ Cardinality(Image(s)) = Len(s)
  <1>. DEFINE n == Len(s)
              T == Image(s)
  <1>1. n \in Nat /\ DOMAIN s = 1 .. n
    OBVIOUS
  <1>2. s \in [1 .. n -> T] /\ \A x \in T : \E i \in 1 .. n : s[i] = x
    BY <1>1 DEF Image
  <1>3. s \in Bijection(1 .. n, T)
    <2>. HIDE DEF n, T
    <2>. QED
      BY <1>1, <1>2 DEF Bijection, Injection, Surjection, IsInjective
  <1>4. IsFiniteSet(1 .. n) /\ Cardinality(1 .. n) = n
    BY <1>1, FS_Interval
  <1>5. ExistsBijection(1 .. n, T)
    BY <1>3 DEF ExistsBijection
  <1>. HIDE DEF n, T
  <1>6. IsFiniteSet(T) /\ Cardinality(T) = n
    BY <1>4, <1>5, FS_Bijection
  <1>7. QED
    BY <1>6 DEF n, T

\* A set of records has at most one more than another that it exceeds by one.
LEMMA OneMore ==
  ASSUME NEW S \in SUBSET Records, NEW T \in SUBSET Records, NEW x, T \subseteq S \cup {x}
  PROVE  /\ IsFiniteSet(S) /\ IsFiniteSet(T) /\ Cardinality(S) \in Nat /\ Cardinality(T) \in Nat
         /\ Cardinality(T) <= Cardinality(S) + 1
         /\ T \subseteq S => Cardinality(T) <= Cardinality(S)
  <1>1. IsFiniteSet(S) /\ IsFiniteSet(T)
    BY RecordsAreFinite, FS_Subset
  <1>2. Cardinality(S) \in Nat /\ Cardinality(T) \in Nat
    BY <1>1, FS_CardinalityType
  <1>3. IsFiniteSet(S \cup {x}) /\ Cardinality(S \cup {x}) <= Cardinality(S) + 1
    BY <1>1, <1>2, FS_AddElement
  <1>4. Cardinality(T) <= Cardinality(S \cup {x})
    BY <1>3, FS_Subset
  <1>5. Cardinality(S \cup {x}) \in Nat
    BY <1>3, FS_CardinalityType
  <1>6. T \subseteq S => Cardinality(T) <= Cardinality(S)
    BY <1>1, FS_Subset
  <1>7. QED
    BY <1>1, <1>2, <1>3, <1>4, <1>5, <1>6

\* Sets of records, before and after the window.
LEMMA RecordSets ==
  ASSUME TypeOK
  PROVE  /\ Image(library) \subseteq Records /\ Image(all) \subseteq Records
         /\ Before \subseteq Records /\ Rest \subseteq Records
         /\ Image(library) = Before \cup Rest
  BY DEF TypeOK, Image, Before, Rest

-----------------------------------------------------------------------------
(* The library changes.                                                    *)

\* What a removal does to the sets of records.
LEMMA RemovalMoves ==
  ASSUME TypeOK, OneOfEach, RecordRemoved
  PROVE  /\ \A i, j \in DOMAIN library' : i # j => library'[i] # library'[j]
         /\ Image(library') \subseteq Image(library)
         /\ \E x : Before' \subseteq Before \cup {x}
         /\ Rest' \subseteq Rest
  <1>1. PICK i \in 1 .. Len(library) : library' = RemoveAt(library, i)
    BY DEF RecordRemoved
  <1>2. library \in Seq(Records) /\ start \in Nat /\ start' = start
    BY DEF RecordRemoved, TypeOK, walk
  <1>3. /\ Len(library') = Len(library) - 1 /\ library' \in Seq(Records)
        /\ \A j \in 1 .. Len(library') : library'[j] = library[IF j < i THEN j ELSE j + 1]
    BY <1>1, <1>2, RemovalOf
  <1>4. /\ Len(library) \in Nat /\ Len(library') \in Nat /\ DOMAIN library = 1 .. Len(library)
        /\ DOMAIN library' = 1 .. Len(library')
    BY <1>2, <1>3
  <1>. DEFINE from(j) == IF j < i THEN j ELSE j + 1
  <1>5. \A j \in DOMAIN library' : from(j) \in DOMAIN library /\ library'[j] = library[from(j)]
    BY <1>3, <1>4
  <1>6. \A j, k \in DOMAIN library' : j # k => from(j) # from(k)
    BY <1>4
  <1>7. \A j, k \in DOMAIN library' : j # k => library'[j] # library'[k]
    <2>. HIDE DEF from
    <2>. QED
      BY <1>5, <1>6 DEF OneOfEach
  <1>8. Image(library') \subseteq Image(library)
    <2>. HIDE DEF from
    <2>. QED
      BY <1>5 DEF Image
  <1>9. Before' \subseteq Before \cup {library[start + 1]}
    <2>. SUFFICES ASSUME NEW j \in DOMAIN library', j <= start
                  PROVE  library'[j] \in Before \cup {library[start + 1]}
      BY <1>2 DEF Before
    <2>1. from(j) <= start \/ from(j) = start + 1
      BY <1>2, <1>4
    <2>. HIDE DEF from
    <2>2. QED
      BY <1>5, <2>1 DEF Before
  <1>10. Rest' \subseteq Rest
    <2>. SUFFICES ASSUME NEW j \in DOMAIN library', j > start PROVE library'[j] \in Rest
      BY <1>2 DEF Rest
    <2>1. from(j) > start
      BY <1>2, <1>4
    <2>. HIDE DEF from
    <2>2. QED
      BY <1>5, <2>1 DEF Rest
  <1>11. QED
    BY <1>7, <1>8, <1>9, <1>10

\* What an addition does to them: the new record has a new number.
LEMMA AdditionMoves ==
  ASSUME TypeOK, OneOfEach, RecordAdded
  PROVE  LET new == NRecords + added + 1
         IN  /\ \A i, j \in DOMAIN library' : i # j => library'[i] # library'[j]
             /\ Image(library') \subseteq Image(library) \cup {new}
             /\ Before' \subseteq Before \cup {new}
             /\ \E x : Rest' \subseteq Rest \cup {new, x}
  <1>. DEFINE new == NRecords + added + 1
  <1>1. PICK i \in 1 .. Len(library) + 1 : library' = InsertAt(library, i, new)
    BY DEF RecordAdded
  <1>2. library \in Seq(Records) /\ start \in Nat /\ start' = start
    BY DEF RecordAdded, TypeOK, walk
  <1>3. new \in Records /\ new \notin Image(library)
    BY LibraryAssumption DEF RecordAdded, TypeOK, Records, OneOfEach
  <1>. HIDE DEF new
  <1>4. /\ Len(library') = Len(library) + 1 /\ library' \in Seq(Records)
        /\ \A j \in 1 .. Len(library') :
             library'[j] = IF j < i THEN library[j] ELSE IF j = i THEN new ELSE library[j - 1]
    <2>. DEFINE t == InsertAt(library, i, new)
    <2>1. t \in Seq(Records) /\ Len(t) = Len(library) + 1
      BY <1>2, <1>3, InsertionOf
    <2>2. \A j \in 1 .. Len(t) :
            t[j] = IF j < i THEN library[j] ELSE IF j = i THEN new ELSE library[j - 1]
      BY <1>2, <1>3, InsertionOf
    <2>. HIDE DEF t
    <2>3. QED
      BY <1>1, <2>1, <2>2 DEF t
  <1>5. /\ Len(library) \in Nat /\ Len(library') \in Nat /\ DOMAIN library = 1 .. Len(library)
        /\ DOMAIN library' = 1 .. Len(library')
    BY <1>2, <1>4
  <1>. DEFINE from(j) == IF j < i THEN j ELSE j - 1
  <1>6. \A j \in DOMAIN library' : j # i =>
          from(j) \in DOMAIN library /\ library'[j] = library[from(j)]
    BY <1>4, <1>5
  <1>7. library'[i] = new
    BY <1>4, <1>5
  <1>8. \A j, k \in DOMAIN library' : j # k /\ j # i /\ k # i => from(j) # from(k)
    BY <1>5
  <1>9. \A j, k \in DOMAIN library' : j # k => library'[j] # library'[k]
    <2>. HIDE DEF from
    <2>. QED
      BY <1>3, <1>6, <1>7, <1>8 DEF OneOfEach, Image
  <1>10. Image(library') \subseteq Image(library) \cup {new}
    <2>. HIDE DEF from
    <2>. QED
      BY <1>6, <1>7 DEF Image
  <1>11. Before' \subseteq Before \cup {new}
    <2>. SUFFICES ASSUME NEW j \in DOMAIN library', j <= start, j # i
                  PROVE  library'[j] \in Before
      BY <1>2, <1>7 DEF Before
    <2>1. from(j) <= start
      BY <1>2, <1>5
    <2>. HIDE DEF from
    <2>2. QED
      BY <1>6, <2>1 DEF Before
  <1>12. Rest' \subseteq Rest \cup {new, library[start]}
    <2>. SUFFICES ASSUME NEW j \in DOMAIN library', j > start, j # i
                  PROVE  library'[j] \in Rest \cup {library[start]}
      BY <1>2, <1>7 DEF Rest
    <2>1. from(j) > start \/ from(j) = start
      BY <1>2, <1>5
    <2>. HIDE DEF from
    <2>2. QED
      BY <1>6, <2>1 DEF Rest
  <1>13. QED
    BY <1>9, <1>10, <1>11, <1>12 DEF new

\* An edit of the library costs at most one record.
LEMMA EditStep ==
  ASSUME PagingInv, RecordRemoved \/ RecordAdded
  PROVE  OneOfEach' /\ ListedInOrder' /\ CostSoFar' /\ EditsCostOneEach' /\ Earning' /\ Budget'
  <1>. USE DEF PagingInv
  <1>1. /\ UNCHANGED <<all, stepped, result, skipped, start>>
        /\ result = "walking" /\ added \in Nat /\ removed \in Nat
    BY LibraryAssumption DEF RecordRemoved, RecordAdded, Walking, walk, TypeOK
  <1>2. ~StoodStill'
    BY <1>1 DEF RecordRemoved, RecordAdded, StoodStill
  <1>3. ListedInOrder' /\ Earning' /\ Budget'
    BY <1>2 DEF ListedInOrder, Earning, Budget
  <1>4. Image(all)' = Image(all)
    BY <1>1 DEF Image
  <1>. DEFINE behind == (Before \cap 1 .. NRecords) \ (Image(all) \cup stepped)
              again == Image(all) \cap Rest
  <1>5. behind \in SUBSET Records /\ again \in SUBSET Records
    BY RecordSets
  <1>6. Cardinality(behind) <= removed /\ Len(all) + Cardinality(again) <= added + Cardinality(Image(all))
    BY <1>1 DEF CostSoFar
  <1>7. behind' \in SUBSET Records /\ again' \in SUBSET Records
    <2>1. TypeOK'
      BY TypeStep DEF Next, OneOfEach
    <2>2. library' \in Seq(Records)
      BY <2>1 DEF TypeOK, Records
    <2>. HIDE DEF PagingInv
    <2>. DEFINE lib == library'
    <2>3. lib \in Seq(Records)
      BY <2>2
    <2>. HIDE DEF lib
    <2>4. \A i \in DOMAIN lib : lib[i] \in Records
      BY ONLY <2>3
    <2>5. Before' \subseteq Records /\ Rest' \subseteq Records
      BY <2>4 DEF Before, Rest, lib
    <2>6. QED
      BY <1>4, <2>5, RecordSets
  <1>8. CASE RecordRemoved
    <2>1. PICK x : Before' \subseteq Before \cup {x}
      BY <1>8, RemovalMoves
    <2>2. behind' \subseteq behind \cup {x} /\ again' \subseteq again
      BY <1>1, <1>4, <1>8, <2>1, RemovalMoves
    <2>. HIDE DEF behind, again
    <2>3. Cardinality(behind') <= Cardinality(behind) + 1 /\ Cardinality(behind) \in Nat
          /\ Cardinality(behind') \in Nat
      BY <1>5, <1>7, <2>2, OneMore
    <2>4. Cardinality(again') <= Cardinality(again) /\ Cardinality(again) \in Nat
          /\ Cardinality(again') \in Nat
      BY <1>5, <1>7, <2>2, OneMore
    <2>5. OneOfEach'
      BY <1>1, <1>2, <1>4, <1>8, RemovalMoves DEF OneOfEach, RecordRemoved
    <2>6. removed' = removed + 1 /\ added' = added
      BY <1>8 DEF RecordRemoved
    <2>7. Len(all) \in Nat /\ Cardinality(Image(all)) \in Nat
      BY RecordSets, OneMore DEF TypeOK
    <2>8. Cardinality(behind') <= removed' /\ Len(all)' + Cardinality(again') <= added' + Cardinality(Image(all))'
      BY <1>1, <1>4, <1>6, <2>3, <2>4, <2>6, <2>7
    <2>9. Len(all)' - Cardinality(Image(all)') <= added'
      BY <1>1, <1>4, <2>4, <2>6, <2>7, <2>8
    <2>10. QED
      BY <1>1, <1>3, <2>5, <2>8, <2>9 DEF CostSoFar, EditsCostOneEach, behind, again
  <1>9. CASE RecordAdded
    <2>. DEFINE new == NRecords + added + 1
    <2>1. PICK x : Rest' \subseteq Rest \cup {new, x}
      BY <1>9, AdditionMoves
    <2>2. new \notin 1 .. NRecords /\ new \notin Image(all)
      BY <1>1, LibraryAssumption DEF OneOfEach
    <2>3. behind' \subseteq behind /\ again' \subseteq again \cup {x}
      BY <1>1, <1>4, <1>9, <2>1, <2>2, AdditionMoves
    <2>4. OneOfEach'
      <3>1. added' = added + 1
        BY <1>9 DEF RecordAdded
      <3>2. Image(library)' \cup Image(all)' \subseteq 1 .. NRecords + added'
        <4>1. Image(library)' \subseteq Image(library) \cup {new}
          BY <1>9, AdditionMoves DEF Image
        <4>2. 1 .. NRecords + added \subseteq 1 .. NRecords + added' /\ new \in 1 .. NRecords + added'
          BY <1>1, <3>1, LibraryAssumption
        <4>3. QED
          BY <1>4, <4>1, <4>2 DEF OneOfEach
      <3>3. QED
        BY <1>1, <1>2, <1>9, <3>2, AdditionMoves DEF OneOfEach
    <2>. HIDE DEF behind, again
    <2>5. Cardinality(again') <= Cardinality(again) + 1 /\ Cardinality(again) \in Nat
          /\ Cardinality(again') \in Nat
      BY <1>5, <1>7, <2>3, OneMore
    <2>6. Cardinality(behind') <= Cardinality(behind) /\ Cardinality(behind) \in Nat
          /\ Cardinality(behind') \in Nat
      BY <1>5, <1>7, <2>3, OneMore
    <2>7. removed' = removed /\ added' = added + 1
      BY <1>9 DEF RecordAdded
    <2>8. Len(all) \in Nat /\ Cardinality(Image(all)) \in Nat
      BY RecordSets, OneMore DEF TypeOK
    <2>9. Cardinality(behind') <= removed' /\ Len(all)' + Cardinality(again') <= added' + Cardinality(Image(all))'
      BY <1>1, <1>4, <1>6, <2>5, <2>6, <2>7, <2>8
    <2>10. Len(all)' - Cardinality(Image(all)') <= added'
      BY <1>1, <1>4, <2>5, <2>7, <2>8, <2>9
    <2>11. QED
      BY <1>1, <1>3, <2>4, <2>9, <2>10 DEF CostSoFar, EditsCostOneEach, behind, again
  <1>10. QED
    BY <1>8, <1>9

-----------------------------------------------------------------------------
(* A page is listed.                                                       *)

\* What a page adds: records of its own, none of which is in front of the
\* next window.
LEMMA PageHolds ==
  ASSUME TypeOK, OneOfEach
  PROVE  LET shown == Image(Window)
         IN  /\ shown \subseteq Rest /\ shown \subseteq Records
             /\ IsFiniteSet(shown) /\ Cardinality(shown) = Len(Window)
             /\ {library[i] : i \in {j \in DOMAIN library : j <= start + Len(Window)}} = Before \cup shown
             /\ {library[i] : i \in {j \in DOMAIN library : j > start + Len(Window)}} = Rest \ shown
  <1>. DEFINE w == Window
              n == Len(w)
              W == Image(w)
  <1>1. /\ w \in Seq(Records) /\ n \in Nat /\ DOMAIN w = 1 .. n
        /\ n > 0 => start + n <= Len(library)
        /\ \A i \in 1 .. n : w[i] = library[start + i]
    BY WindowIs
  <1>2. library \in Seq(Records) /\ DOMAIN library = 1 .. Len(library) /\ Len(library) \in Nat
        /\ start \in Nat
    BY DEF TypeOK
  <1>. HIDE DEF w, n
  <1>3. \A i \in 1 .. n : start + i \in DOMAIN library /\ start + i > start
    BY <1>1, <1>2
  <1>4. W = {library[i] : i \in {j \in DOMAIN library : j > start /\ j <= start + n}}
    <2>1. \A i \in 1 .. n : start + i <= start + n
      BY <1>1, <1>2
    <2>2. \A j \in DOMAIN library : j > start /\ j <= start + n =>
            j - start \in 1 .. n /\ start + (j - start) = j
      BY <1>1, <1>2
    <2>3. QED
      BY <1>1, <1>3, <2>1, <2>2 DEF Image
  <1>5. \A i, j \in DOMAIN w : i # j => w[i] # w[j]
    <2>. SUFFICES ASSUME NEW i \in 1 .. n, NEW j \in 1 .. n, i # j PROVE w[i] # w[j]
      BY <1>1
    <2>1. start + i # start + j
      BY <1>2
    <2>2. QED
      BY <1>1, <1>3, <2>1 DEF OneOfEach
  <1>6. IsFiniteSet(W) /\ Cardinality(W) = n
    BY <1>1, <1>5, Distinct DEF n
  <1>. HIDE DEF W
  <1>7. W \subseteq Rest
    BY <1>4 DEF Rest
  <1>8. {library[i] : i \in {j \in DOMAIN library : j <= start + n}} = Before \cup W
    <2>1. \A j \in DOMAIN library : j <= start + n <=> (j <= start \/ (j > start /\ j <= start + n))
      BY <1>1, <1>2
    <2>2. QED
      BY <1>4, <2>1 DEF Before
  <1>9. {library[i] : i \in {j \in DOMAIN library : j > start + n}} = Rest \ W
    <2>1. \A j \in DOMAIN library : j > start + n <=> (j > start /\ ~(j > start /\ j <= start + n))
      BY <1>1, <1>2
    <2>2. \A j \in DOMAIN library : library[j] \in W => j > start /\ j <= start + n
      BY <1>4 DEF OneOfEach
    <2>3. QED
      BY <1>4, <2>1, <2>2 DEF Rest
  <1>10. W \subseteq Records
    BY <1>7, RecordSets
  <1>11. QED
    BY <1>6, <1>7, <1>8, <1>9, <1>10 DEF W, n, w

\* What a page costs.
LEMMA PageCounts ==
  ASSUME TypeOK, OneOfEach, CostSoFar, result = "walking", all' = all \o Window
  PROVE  LET shown == Image(Window)
         IN  /\ Image(all') = Image(all) \cup shown /\ Len(all') = Len(all) + Len(Window)
             /\ Len(all') + Cardinality(Image(all') \cap (Rest \ shown))
                  <= added + Cardinality(Image(all'))
             /\ Len(all') \in Nat /\ Cardinality(Image(all')) \in Nat
             /\ Cardinality(Image(all') \cap (Rest \ shown)) \in Nat
  <1>. DEFINE W == Image(Window)
              A == Image(all)
  <1>1. /\ W \subseteq Rest /\ W \subseteq Records
        /\ IsFiniteSet(W) /\ Cardinality(W) = Len(Window)
    BY PageHolds
  <1>2. A \subseteq Records /\ Rest \subseteq Records
    BY RecordSets
  <1>3. Window \in Seq(Records) /\ all \in Seq(Records)
    BY WindowIs DEF TypeOK
  <1>4. Image(all') = A \cup W /\ Len(all') = Len(all) + Len(Window)
    BY <1>3, Appended
  <1>5. Len(all) + Cardinality(A \cap Rest) <= added + Cardinality(A)
    BY DEF CostSoFar
  <1>6. added \in Nat /\ Len(all) \in Nat /\ Len(Window) \in Nat
    BY <1>3, LibraryAssumption DEF TypeOK
  <1>. HIDE DEF W, A
  <1>7. IsFiniteSet(A) /\ IsFiniteSet(W)
    BY <1>1, <1>2, RecordsAreFinite, FS_Subset
  <1>8. Cardinality(A \cup W) = Cardinality(A) + Cardinality(W) - Cardinality(A \cap W)
    BY <1>7, FS_Union
  <1>. DEFINE B == A \cap W
              C == A \cap (Rest \ W)
  <1>9. IsFiniteSet(B) /\ IsFiniteSet(C) /\ Cardinality(A \cap Rest) = Cardinality(B) + Cardinality(C)
    <2>1. IsFiniteSet(B) /\ IsFiniteSet(C)
      BY <1>7, FS_Intersection
    <2>2. B \cap C = {} /\ B \cup C = A \cap Rest
      BY <1>1
    <2>. HIDE DEF B, C
    <2>3. Cardinality(B \cap C) = 0
      BY <2>2, FS_EmptySet
    <2>4. Cardinality(B) \in Nat /\ Cardinality(C) \in Nat
      BY <2>1, FS_CardinalityType
    <2>5. Cardinality(B \cup C) = Cardinality(B) + Cardinality(C) - Cardinality(B \cap C)
      BY <2>1, FS_Union
    <2>6. Cardinality(A \cap Rest) = Cardinality(B \cup C)
      BY <2>2, Zenon
    <2>7. QED
      BY <2>1, <2>3, <2>4, <2>5, <2>6
  <1>10. Cardinality(Image(all') \cap (Rest \ W)) = Cardinality(C)
    <2>1. Image(all') \cap (Rest \ W) = C
      BY <1>4
    <2>. HIDE DEF C
    <2>2. QED
      BY <2>1, Zenon
  <1>11. /\ Cardinality(A) \in Nat /\ Cardinality(B) \in Nat /\ Cardinality(C) \in Nat
         /\ Cardinality(A \cup W) \in Nat
    <2>1. IsFiniteSet(A \cup W)
      BY <1>7, FS_Union
    <2>. HIDE DEF B, C
    <2>2. QED
      BY <1>7, <1>9, <2>1, FS_CardinalityType
  <1>. HIDE DEF C
  <1>12. Len(all') + Cardinality(C) <= added + Cardinality(A \cup W)
    BY <1>1, <1>4, <1>5, <1>6, <1>8, <1>9, <1>11
  <1>13. /\ Len(all') + Cardinality(Image(all') \cap (Rest \ W)) <= added + Cardinality(Image(all'))
         /\ Len(all') \in Nat /\ Cardinality(Image(all')) \in Nat
         /\ Cardinality(Image(all') \cap (Rest \ W)) \in Nat
    <2>1. Cardinality(Image(all')) = Cardinality(A \cup W)
      BY <1>4, Zenon
    <2>2. QED
      BY <1>4, <1>6, <1>10, <1>11, <1>12, <2>1
  <1>14. QED
    BY <1>4, <1>13 DEF W, A

\* A page, with no edit since, costs nothing.
LEMMA PageCosts ==
  ASSUME PagingInv, FullPage \/ ShortPage
  PROVE  CostSoFar' /\ EditsCostOneEach'
  <1>. USE DEF PagingInv
  <1>. DEFINE W == Image(Window)
              behind == (Before \cap 1 .. NRecords) \ (Image(all) \cup stepped)
  <1>1. /\ result = "walking" /\ all' = all \o Window
        /\ UNCHANGED <<library, stepped, added, removed>>
    BY DEF FullPage, ShortPage, Asking, Walking, server, edits
  <1>2. /\ Image(all') = Image(all) \cup W
        /\ Len(all') + Cardinality(Image(all') \cap (Rest \ W)) <= added + Cardinality(Image(all'))
        /\ Len(all') \in Nat /\ Cardinality(Image(all')) \in Nat
        /\ Cardinality(Image(all') \cap (Rest \ W)) \in Nat
    BY <1>1, PageCounts
  <1>3. Cardinality(behind) <= removed
    BY <1>1 DEF CostSoFar
  <1>4. behind \in SUBSET Records /\ removed \in Nat /\ added \in Nat
    BY RecordSets, LibraryAssumption DEF TypeOK
  <1>5. /\ {library[i] : i \in {j \in DOMAIN library : j <= start + Len(Window)}} = Before \cup W
        /\ {library[i] : i \in {j \in DOMAIN library : j > start + Len(Window)}} = Rest \ W
    BY PageHolds
  <1>6. Image(library)' = Image(library)
    BY <1>1 DEF Image
  <1>7. ASSUME NEW S, S \subseteq ((Before \cup W) \cap 1 .. NRecords) \ (Image(all') \cup stepped)
        PROVE  Cardinality(S) <= removed
    <2>1. S \subseteq behind
      BY <1>2, <1>7
    <2>. HIDE DEF behind
    <2>2. S \in SUBSET Records
      BY <1>4, <2>1
    <2>3. Cardinality(S) <= Cardinality(behind) /\ Cardinality(S) \in Nat /\ Cardinality(behind) \in Nat
      BY <1>4, <2>1, <2>2, OneMore
    <2>4. QED
      BY <1>3, <1>4, <2>3
  <1>8. Len(all') - Cardinality(Image(all')) <= added
    BY <1>2, <1>4
  <1>9. CASE FullPage
    <2>1. start' = start + Len(Window) /\ result' = "walking"
      BY <1>1, <1>9 DEF FullPage
    <2>2. Before' = Before \cup W /\ Rest' = Rest \ W
      BY <1>1, <1>5, <2>1 DEF Before, Rest
    <2>. HIDE DEF W
    <2>3. Cardinality(((Before' \cap 1 .. NRecords) \ (Image(all') \cup stepped'))) <= removed'
      BY <1>1, <1>7, <2>2
    <2>4. Len(all') + Cardinality(Image(all') \cap Rest') <= added' + Cardinality(Image(all'))
      BY <1>1, <1>2, <2>2
    <2>5. CostSoFar'
      BY <2>3, <2>4 DEF CostSoFar, Image
    <2>6. EditsCostOneEach'
      BY <1>1, <1>8, <2>1 DEF EditsCostOneEach, Image
    <2>7. QED
      BY <2>5, <2>6
  <1>10. CASE ShortPage
    <2>1. result' = "listed" /\ start + Len(Window) >= Len(library)
      BY <1>10, WindowIs DEF ShortPage
    <2>2. Image(library) = Before \cup W
      <3>1. DOMAIN library = 1 .. Len(library) /\ Len(library) \in Nat /\ start \in Nat
            /\ Len(Window) \in Nat
        BY WindowIs DEF TypeOK
      <3>2. \A j \in DOMAIN library : j <= start + Len(Window)
        BY <2>1, <3>1
      <3>3. QED
        BY <1>5, <3>2 DEF Image
    <2>. HIDE DEF W
    <2>3. Cardinality((Image(library') \cap 1 .. NRecords) \ (Image(all') \cup stepped')) <= removed'
      BY <1>1, <1>7, <2>2
    <2>4. QED
      BY <1>1, <1>8, <2>1, <2>3 DEF CostSoFar, EditsCostOneEach, Image
  <1>11. QED
    BY <1>9, <1>10

-----------------------------------------------------------------------------
(* While the library stands still.                                         *)

\* The library is the one the walk began with.
LEMMA Still ==
  ASSUME TypeOK, OneOfEach, StoodStill
  PROVE  /\ Len(library) = NRecords /\ DOMAIN library = 1 .. NRecords
         /\ \A i \in 1 .. NRecords : library[i] = i
         /\ NRecords \in Nat /\ start \in Nat
         /\ \A n \in Nat : n <= NRecords => {library[i] : i \in 1 .. n} = 1 .. n
  <1>1. library = [i \in 1 .. NRecords |-> i] /\ NRecords \in Nat /\ start \in Nat
    BY LibraryAssumption DEF OneOfEach, TypeOK
  <1>2. Len(library) = NRecords /\ DOMAIN library = 1 .. NRecords
        /\ \A i \in 1 .. NRecords : library[i] = i
    BY <1>1
  <1>3. ASSUME NEW n \in Nat, n <= NRecords PROVE {library[i] : i \in 1 .. n} = 1 .. n
    BY <1>1, <1>2, <1>3
  <1>4. QED
    BY <1>1, <1>2, <1>3

\* A page goes on where the listing ends.
LEMMA PageOrder ==
  ASSUME PagingInv, FullPage \/ ShortPage
  PROVE  OneOfEach' /\ ListedInOrder'
  <1>. USE DEF PagingInv
  <1>. DEFINE n == Len(Window)
  <1>1. /\ result = "walking" /\ all' = all \o Window
        /\ UNCHANGED <<library, broken, stepped, skipped, added, removed>>
    BY DEF FullPage, ShortPage, Asking, Walking, server, edits
  <1>2. /\ Window \in Seq(Records) /\ n \in Nat /\ DOMAIN Window = 1 .. n
        /\ n > 0 => start + n <= Len(library)
        /\ n < size => start + n >= Len(library)
        /\ \A i \in 1 .. n : Window[i] = library[start + i]
    BY WindowIs
  <1>3. all \in Seq(Records) /\ start \in Nat /\ size \in Nat /\ size > 0 /\ NRecords \in Nat
    BY WindowAssumption, LibraryAssumption DEF TypeOK
  <1>4. \/ result' = "walking" /\ n = size /\ start' = start + n
        \/ result' = "listed" /\ n < size /\ start' = start
    BY <1>1 DEF FullPage, ShortPage
  <1>5. /\ Image(all') = Image(all) \cup Image(Window)
        /\ Len(all') = Len(all) + n /\ all' \in Seq(Records)
        /\ \A i \in 1 .. Len(all) + n : all'[i] = IF i <= Len(all) THEN all[i] ELSE Window[i - Len(all)]
    BY <1>1, <1>2, <1>3, Appended
  <1>. HIDE DEF n
  <1>6. OneOfEach'
    <2>1. Image(Window) \subseteq Image(library)
      BY PageHolds, RecordSets
    <2>2. Image(library') \cup Image(all') \subseteq 1 .. NRecords + added'
      BY <1>1, <1>5, <2>1 DEF OneOfEach
    <2>3. StoodStill' = StoodStill
      BY <1>1 DEF StoodStill
    <2>4. StoodStill => stepped' \subseteq 1 .. Shorter(start', NRecords)
      BY <1>1, <1>2, <1>3, <1>4 DEF OneOfEach, Shorter
    <2>5. (\A i, j \in DOMAIN library : i # j => library[i] # library[j])'
      BY <1>1 DEF OneOfEach
    <2>6. (StoodStill => library = [i \in 1 .. NRecords |-> i])'
      BY <1>1, <2>3 DEF OneOfEach
    <2>7. (result = "walking" => skipped <= MaxSkips)'
      BY <1>1, <1>4 DEF OneOfEach
    <2>8. QED
      BY <2>2, <2>3, <2>4, <2>5, <2>6, <2>7 DEF OneOfEach, Image
  <1>7. ListedInOrder'
    <2>. SUFFICES ASSUME StoodStill PROVE ListedInOrder'
      BY <1>1 DEF ListedInOrder, StoodStill
    <2>1. /\ Len(library) = NRecords /\ DOMAIN library = 1 .. NRecords
          /\ \A i \in 1 .. NRecords : library[i] = i
          /\ \A k \in Nat : k <= NRecords => {library[i] : i \in 1 .. k} = 1 .. k
      BY Still
    <2>. DEFINE before == Shorter(start, NRecords)
                reached == IF result' = "listed" THEN NRecords ELSE Shorter(start', NRecords)
    <2>2. before \in Nat /\ before <= NRecords /\ before <= start
      BY <1>3 DEF Shorter
    <2>3. Image(all) = (1 .. before) \ stepped /\ \A i, j \in DOMAIN all : i < j => all[i] < all[j]
      BY <1>1, <2>1, <2>2 DEF ListedInOrder
    <2>4. stepped \subseteq 1 .. before
      BY DEF OneOfEach
    <2>5. \A i \in 1 .. n : Window[i] = start + i
      BY <1>2, <1>3, <2>1
    <2>6. Image(Window) = (start + 1) .. (start + n)
      <3>1. \A k \in (start + 1) .. (start + n) : k - start \in 1 .. n /\ start + (k - start) = k
        BY <1>2, <1>3
      <3>2. Image(Window) \subseteq (start + 1) .. (start + n)
        BY <1>2, <1>3, <2>5 DEF Image
      <3>3. \A k \in (start + 1) .. (start + n) : Window[k - start] = k
        BY <2>5, <3>1
      <3>4. (start + 1) .. (start + n) \subseteq Image(Window)
        BY <1>2, <3>1, <3>3 DEF Image
      <3>5. QED
        BY <3>2, <3>4
    <2>7. reached \in Nat /\ reached <= NRecords /\ 1 .. reached = (1 .. before) \cup ((start + 1) .. (start + n))
      <3>1. CASE n = 0
        <4>1. reached = NRecords /\ before = NRecords
          BY <1>2, <1>3, <1>4, <2>1, <3>1 DEF Shorter
        <4>2. QED
          BY <1>3, <3>1, <4>1
      <3>2. CASE n > 0
        <4>1. before = start /\ start + n <= NRecords /\ reached = start + n
          <5>1. start + n <= NRecords /\ start < NRecords
            BY <1>2, <1>3, <2>1, <3>2
          <5>2. before = start
            BY <1>3, <5>1 DEF Shorter
          <5>3. CASE result' = "walking"
            BY <1>2, <1>3, <1>4, <5>1, <5>3 DEF Shorter
          <5>4. CASE result' = "listed"
            <6>1. n < size /\ reached = NRecords
              BY <1>4, <5>4
            <6>2. start + n >= NRecords
              BY <1>2, <2>1, <6>1
            <6>3. QED
              BY <1>2, <1>3, <5>1, <5>2, <6>1, <6>2
          <5>5. QED
            BY <1>4, <5>1, <5>2, <5>3, <5>4
        <4>2. QED
          BY <1>2, <1>3, <4>1
      <3>3. QED
        BY <1>2, <3>1, <3>2
    <2>8. ((start + 1) .. (start + n)) \cap stepped = {}
      BY <1>3, <2>2, <2>4
    <2>. HIDE DEF before, reached
    <2>9. Image(all') = (1 .. reached) \ stepped
      BY <1>5, <2>3, <2>6, <2>7, <2>8
    <2>10. Image(all') = {library[i] : i \in 1 .. reached} \ stepped
      BY <2>1, <2>7, <2>9
    <2>11. \A i, j \in DOMAIN all' : i < j => all'[i] < all'[j]
      <3>. SUFFICES ASSUME NEW i \in 1 .. Len(all) + n, NEW j \in 1 .. Len(all) + n, i < j
                    PROVE  all'[i] < all'[j]
        BY <1>5
      <3>0. Len(all) \in Nat /\ DOMAIN all = 1 .. Len(all)
        BY <1>3
      <3>1. CASE j <= Len(all)
        <4>1. i \in DOMAIN all /\ j \in DOMAIN all /\ all'[i] = all[i] /\ all'[j] = all[j]
          BY <1>5, <3>0, <3>1
        <4>2. QED
          BY <2>3, <4>1
      <3>2. CASE i > Len(all)
        <4>1. /\ i - Len(all) \in 1 .. n /\ j - Len(all) \in 1 .. n
              /\ all'[i] = Window[i - Len(all)] /\ all'[j] = Window[j - Len(all)]
          BY <1>2, <1>5, <3>0, <3>2
        <4>2. all'[i] = start + (i - Len(all)) /\ all'[j] = start + (j - Len(all))
          BY <2>5, <4>1
        <4>3. QED
          BY <1>3, <3>0, <4>2
      <3>3. CASE i <= Len(all) /\ j > Len(all)
        <4>1. /\ j - Len(all) \in 1 .. n /\ all'[i] = all[i] /\ all'[j] = Window[j - Len(all)]
              /\ i \in DOMAIN all
          BY <1>2, <1>5, <3>0, <3>3
        <4>2. all[i] \in 1 .. before
          BY <2>3, <4>1 DEF Image
        <4>3. all'[j] = start + (j - Len(all))
          BY <2>5, <4>1
        <4>4. QED
          BY <1>2, <1>3, <2>2, <3>0, <4>1, <4>2, <4>3
      <3>4. QED
        BY <1>2, <3>0, <3>1, <3>2, <3>3
    <2>12. reached = IF result' = "listed" THEN Len(library') ELSE Shorter(start', Len(library'))
      BY <1>1, <2>1 DEF reached
    <2>13. Image(all)' = {library'[i] : i \in 1 .. reached} \ stepped'
      BY <1>1, <2>10 DEF Image
    <2>14. QED
      BY <2>11, <2>12, <2>13 DEF ListedInOrder
  <1>8. QED
    BY <1>6, <1>7

\* The attempts at a window that is left behind do not count any more.
LEMMA FreshEarns ==
  ASSUME PagingInv, attempt' = 0, UNCHANGED <<broken, stepped, added, removed, faults>>
  PROVE  Earning'
  <1>. USE DEF PagingInv
  <1>1. UNCHANGED <<broken, stepped, added, removed, faults>> /\ attempt' = 0
    OBVIOUS
  <1>2. CASE StoodStill
    <2>. DEFINE earned == Cardinality(stepped \ broken) * (MetadataRetries + 1)
    <2>1. earned \in Nat /\ attempt \in Nat /\ faults \in Nat
      <3>1. Cardinality(stepped \ broken) \in Nat
        <4>1. stepped \ broken \in SUBSET Records
          BY DEF TypeOK
        <4>2. QED
          BY <4>1, OneMore
      <3>2. QED
        BY <3>1, WindowAssumption, LibraryAssumption DEF TypeOK
    <2>. HIDE DEF earned
    <2>2. earned <= faults
      BY <1>2, <2>1 DEF Earning, earned
    <2>. DEFINE still == IF Listable(Window)' THEN attempt' ELSE 0
    <2>3. still = 0 /\ earned' = earned
      BY <1>1 DEF earned
    <2>. HIDE DEF still
    <2>4. earned' + still <= faults'
      BY <1>1, <2>1, <2>2, <2>3
    <2>5. QED
      BY <2>4 DEF Earning, earned, still
  <1>3. CASE ~StoodStill
    BY <1>1, <1>3 DEF Earning, StoodStill
  <1>4. QED
    BY <1>2, <1>3

-----------------------------------------------------------------------------
(* The budget.                                                             *)

\* Division, as far as it is needed: what adding a whole divisor does, and
\* that it is monotone.
LEMMA Division ==
  ASSUME NEW m \in Nat \ {0}
  PROVE  /\ \A a \in Nat : a \div m \in Nat /\ (a + m) \div m = a \div m + 1
         /\ \A a, b \in Nat : a <= b => a \div m <= b \div m
         /\ \A a \in Nat : a >= m => a \div m >= 1
  <1>1. \A a \in Nat : a \div m \in Nat /\ m * (a \div m) <= a /\ a < m * (a \div m) + m
    OBVIOUS
  <1>2. ASSUME NEW a \in Nat PROVE (a + m) \div m = a \div m + 1
    OBVIOUS
  <1>3. ASSUME NEW a \in Nat, NEW b \in Nat, a <= b PROVE a \div m <= b \div m
    BY <1>3
  <1>4. ASSUME NEW a \in Nat, a >= m PROVE a \div m >= 1
    BY <1>4
  <1>5. QED
    BY <1>1, <1>2, <1>3, <1>4

\* What broken records may cost from here on.
Allowed == start \div PageSize + Cost[PageSize] * (skipped + 1)

\* The quantities of the budget are numbers.
LEMMA BudgetTypes ==
  ASSUME TypeOK
  PROVE  /\ Allowed \in Nat /\ page \in Nat /\ start \in Nat /\ skipped \in Nat
         /\ size \in Nat \ {0} /\ Cost[size] \in Nat /\ Cost[PageSize] \in Nat
         /\ PageSize \in Nat \ {0}
         /\ start \div PageSize \in Nat /\ Cost[PageSize] * (skipped + 1) \in Nat
  <1>1. /\ page \in Nat /\ start \in Nat /\ skipped \in Nat /\ size \in 1 .. PageSize
        /\ PageSize \in 1 .. PageSize
    BY WindowAssumption DEF TypeOK
  <1>2. Cost[size] \in Nat /\ Cost[PageSize] \in Nat
    BY <1>1, CostDefined
  <1>3. start \div PageSize \in Nat
    BY <1>1, WindowAssumption, Division
  <1>4. Cost[PageSize] * (skipped + 1) \in Nat
    BY <1>1, <1>2
  <1>5. QED
    BY <1>1, <1>2, <1>3, <1>4 DEF Allowed

\* The current window is within the budget.
LEMMA BudgetCovers ==
  ASSUME TypeOK, Budget, StoodStill, faults = 0
  PROVE  page + Cost[size] <= Allowed
  <1>1. CASE size = PageSize /\ page + Cost[PageSize] <= Allowed
    BY <1>1
  <1>2. CASE \E b \in broken : start < b /\ page + CostWithin(b - start) <= Allowed
    <2>1. PICK b \in broken : start < b /\ page + CostWithin(b - start) <= Allowed
      BY <1>2
    <2>. DEFINE q == (b - start + size - 1) \div size
    <2>2. b - start + size - 1 \in Nat /\ b - start + size - 1 >= size
      BY <2>1, BudgetTypes, LibraryAssumption DEF TypeOK
    <2>3. q \in Nat /\ q >= 1
      BY <2>2, BudgetTypes, Division
    <2>4. CostWithin(b - start) = q - 1 + Cost[size]
      BY DEF CostWithin
    <2>. HIDE DEF q
    <2>5. QED
      BY <2>1, <2>3, <2>4, BudgetTypes
  <1>3. QED
    BY <1>1, <1>2 DEF Budget, Allowed

\* A page of whole size costs one for every PageSize records, or one of those
\* that lead up to a broken record.
LEMMA PageBudget ==
  ASSUME PagingInv, FullPage \/ ShortPage
  PROVE  Budget'
  <1>. USE DEF PagingInv
  <1>1. UNCHANGED <<library, broken, skipped, size, faults, added, removed>>
    BY DEF FullPage, ShortPage, server, edits
  <1>. SUFFICES ASSUME StoodStill, faults = 0 PROVE Budget'
    BY <1>1 DEF Budget, StoodStill
  <1>2. CASE ShortPage
    <2>1. start' = start /\ page' = page
      BY <1>2 DEF ShortPage
    <2>2. QED
      BY <1>1, <2>1 DEF Budget, CostWithin, StoodStill
  <1>3. CASE FullPage
    <2>1. start' = start + size /\ page' = page + 1 /\ Len(Window) = size /\ Listable(Window)
      BY <1>3 DEF FullPage
    <2>2. /\ Allowed' \in Nat
          /\ Allowed <= Allowed' /\ (size = PageSize => Allowed' = Allowed + 1)
      <3>. DEFINE rest == Cost[PageSize] * (skipped + 1)
      <3>1. rest \in Nat /\ start \div PageSize \in Nat /\ Allowed = start \div PageSize + rest
        BY BudgetTypes DEF Allowed
      <3>2. Allowed' = (start + size) \div PageSize + rest
        BY <1>1, <2>1 DEF Allowed
      <3>. HIDE DEF rest
      <3>3. /\ (start + size) \div PageSize \in Nat
            /\ start \div PageSize <= (start + size) \div PageSize
            /\ size = PageSize => (start + size) \div PageSize = start \div PageSize + 1
        <4>1. /\ PageSize \in Nat \ {0} /\ start \in Nat /\ start + size \in Nat
              /\ start <= start + size
          BY BudgetTypes
        <4>2. (start + size) \div PageSize \in Nat
          BY <4>1, Division
        <4>3. start \div PageSize <= (start + size) \div PageSize
          BY <4>1, Division
        <4>4. (start + PageSize) \div PageSize = start \div PageSize + 1
          BY <4>1, Division
        <4>5. QED
          BY <4>2, <4>3, <4>4
      <3>4. QED
        BY <3>1, <3>2, <3>3
    <2>3. CASE size = PageSize /\ page + Cost[PageSize] <= Allowed
      <3>1. size' = PageSize /\ page' + Cost[PageSize] <= Allowed'
        BY <1>1, <2>1, <2>2, <2>3, BudgetTypes
      <3>2. QED
        BY <3>1 DEF Budget, Allowed
    <2>4. CASE \E b \in broken : start < b /\ page + CostWithin(b - start) <= Allowed
      <3>1. PICK b \in broken : start < b /\ page + CostWithin(b - start) <= Allowed
        BY <2>4
      <3>2. b \in 1 .. NRecords
        BY DEF TypeOK
      <3>3. b > start + size
        <4>. SUFFICES ASSUME b <= start + size PROVE FALSE
          BY <3>2, BudgetTypes, LibraryAssumption
        <4>1. b - start \in 1 .. size /\ start + (b - start) = b
          BY <3>1, <3>2, BudgetTypes, LibraryAssumption
        <4>2. b - start \in DOMAIN Window /\ Window[b - start] = library[b]
          BY <2>1, <4>1, WindowIs
        <4>3. library[b] = b
          BY <3>2, Still
        <4>4. QED
          BY <2>1, <4>2, <4>3 DEF Listable
      <3>. DEFINE d == b - start
                  q == (d - 1) \div size
      <3>4. d \in Nat /\ d - 1 \in Nat /\ d > size
        BY <3>2, <3>3, BudgetTypes, LibraryAssumption
      <3>5. q \in Nat /\ (d - 1 + size) \div size = q + 1
        BY <3>4, BudgetTypes, Division
      <3>6. CostWithin(b - start) = (q + 1) - 1 + Cost[size]
        <4>1. d + size - 1 = d - 1 + size
          BY <3>4, BudgetTypes
        <4>2. QED
          BY <3>5, <4>1 DEF CostWithin
      <3>. DEFINE ahead == (b - start' + size' - 1) \div size' - 1 + Cost[size']
      <3>7. ahead = q - 1 + Cost[size]
        <4>1. b - start' + size' - 1 = d - 1 /\ size' = size
          BY <1>1, <2>1, <3>2, BudgetTypes, LibraryAssumption
        <4>2. QED
          BY <4>1
      <3>. HIDE DEF q, ahead
      <3>8. page' + ahead <= Allowed'
        <4>1. Cost[size] \in Nat /\ page \in Nat /\ Allowed \in Nat
          BY BudgetTypes
        <4>2. QED
          BY <2>1, <2>2, <3>1, <3>5, <3>6, <3>7, <4>1
      <3>9. b \in broken' /\ start' < b
        BY <1>1, <2>1, <3>3
      <3>10. QED
        BY <3>8, <3>9 DEF Budget, Allowed, CostWithin, ahead
    <2>5. QED
      BY <2>3, <2>4 DEF Budget, Allowed
  <1>4. QED
    BY <1>2, <1>3

-----------------------------------------------------------------------------
(* Requests that fail.                                                     *)

\* Whatever leaves the window where it is, lists nothing and steps over
\* nothing keeps what is said about the listing.
LEMMA SameLists ==
  ASSUME PagingInv, result = "walking", result' # "listed",
         UNCHANGED <<library, broken, start, all, stepped, skipped, added, removed>>
  PROVE  OneOfEach' /\ ListedInOrder' /\ CostSoFar' /\ EditsCostOneEach'
  <1>. USE DEF PagingInv
  <1>1. OneOfEach'
    BY DEF OneOfEach, Image, StoodStill
  <1>2. ListedInOrder'
    BY DEF ListedInOrder, Image, StoodStill
  <1>3. CostSoFar'
    BY DEF CostSoFar, Before, Rest, Image
  <1>4. EditsCostOneEach'
    BY DEF EditsCostOneEach, Image
  <1>5. QED
    BY <1>1, <1>2, <1>3, <1>4

\* An attempt is a broken record's, or a fault's.
LEMMA AttemptStep ==
  ASSUME PagingInv, Refuse \/ Fault
  PROVE  OneOfEach' /\ ListedInOrder' /\ CostSoFar' /\ EditsCostOneEach' /\ Earning' /\ Budget'
  <1>. USE DEF PagingInv
  <1>1. /\ UNCHANGED <<library, broken, start, size, page, all, result, stepped, skipped, added,
                       removed>>
        /\ result = "walking" /\ attempt' = attempt + 1
        /\ \/ ~Listable(Window) /\ faults' = faults
           \/ faults' = faults + 1
    BY DEF Refuse, Fault, Asking, Walking, server, walk, edits
  <1>2. OneOfEach' /\ ListedInOrder' /\ CostSoFar' /\ EditsCostOneEach'
    BY <1>1, SameLists
  <1>3. Window' = Window /\ Listable(Window)' = Listable(Window) /\ StoodStill' = StoodStill
    BY <1>1 DEF Window, Listable, StoodStill
  <1>4. attempt \in Nat /\ faults \in Nat
    BY WindowAssumption, LibraryAssumption DEF TypeOK
  <1>5. Earning'
    <2>. DEFINE earned == Cardinality(stepped \ broken) * (MetadataRetries + 1)
                still == IF Listable(Window) THEN attempt ELSE 0
    <2>1. earned \in Int
      <3>1. stepped \ broken \in SUBSET Records
        BY DEF TypeOK
      <3>2. Cardinality(stepped \ broken) \in Nat
        BY <3>1, OneMore
      <3>3. QED
        BY <3>2, WindowAssumption
    <2>2. earned' = earned
      BY <1>1
    <2>. HIDE DEF earned
    <2>3. StoodStill => earned + still <= faults
      BY DEF Earning, earned
    <2>4. still' = IF Listable(Window) THEN attempt + 1 ELSE 0
      BY <1>1, <1>3
    <2>5. StoodStill => earned' + still' <= faults'
      <3>1. CASE Listable(Window)
        BY <1>1, <1>4, <2>1, <2>2, <2>3, <2>4, <3>1
      <3>2. CASE ~Listable(Window)
        BY <1>1, <1>4, <2>1, <2>2, <2>3, <2>4, <3>2
      <3>3. QED
        BY <3>1, <3>2
    <2>6. QED
      BY <1>3, <2>5 DEF Earning, earned
  <1>6. Budget'
    <2>1. CASE faults' = faults
      BY <1>1, <2>1 DEF Budget, CostWithin, StoodStill
    <2>2. CASE faults' = faults + 1
      <3>1. faults' # 0
        BY <1>4, <2>2
      <3>2. QED
        BY <3>1 DEF Budget
    <2>3. QED
      BY <1>1, <2>1, <2>2
  <1>7. QED
    BY <1>2, <1>5, <1>6

\* A walk that ends without a short page has what it had.
LEMMA EndStep ==
  ASSUME PagingInv, Deadline \/ Abandon \/ RunOut
  PROVE  OneOfEach' /\ ListedInOrder' /\ CostSoFar' /\ EditsCostOneEach' /\ Earning' /\ Budget'
  <1>. USE DEF PagingInv
  <1>1. /\ UNCHANGED <<library, broken, start, size, page, all, stepped, skipped, attempt, faults,
                       added, removed>>
        /\ result = "walking" /\ result' # "listed"
    BY DEF Deadline, Abandon, RunOut, Refused, Walking, server, asking, edits
  <1>2. OneOfEach' /\ ListedInOrder' /\ CostSoFar' /\ EditsCostOneEach'
    BY <1>1, SameLists
  <1>3. Earning'
    BY <1>1 DEF Earning, StoodStill, Listable, Window
  <1>4. Budget'
    BY <1>1 DEF Budget, CostWithin, StoodStill
  <1>5. QED
    BY <1>2, <1>3, <1>4

\* A window is narrowed for a broken record in it, and that pays for it.
LEMMA NarrowStep ==
  ASSUME PagingInv, Narrow
  PROVE  OneOfEach' /\ ListedInOrder' /\ CostSoFar' /\ EditsCostOneEach' /\ Earning' /\ Budget'
  <1>. USE DEF PagingInv
  <1>1. /\ UNCHANGED <<library, broken, start, all, result, stepped, skipped, faults, added, removed>>
        /\ result = "walking" /\ attempt' = 0 /\ page' = page + 1
        /\ size > 1 /\ size' = Narrowed(size) /\ attempt > MetadataRetries
    BY DEF Narrow, Refused, Walking, FreshAttempt, server, edits
  <1>2. OneOfEach' /\ ListedInOrder' /\ CostSoFar' /\ EditsCostOneEach'
    BY <1>1, SameLists
  <1>3. Earning'
    BY <1>1, FreshEarns
  <1>4. Budget'
    <2>. SUFFICES ASSUME StoodStill, faults = 0 PROVE Budget'
      BY <1>1 DEF Budget, StoodStill
    <2>1. ~Listable(Window)
      <3>. SUFFICES ASSUME Listable(Window) PROVE FALSE
        OBVIOUS
      <3>1. stepped \ broken \in SUBSET Records
        BY DEF TypeOK
      <3>2. Cardinality(stepped \ broken) \in Nat
        BY <3>1, OneMore
      <3>. DEFINE earned == Cardinality(stepped \ broken) * (MetadataRetries + 1)
      <3>3. earned \in Nat
        BY <3>2, WindowAssumption
      <3>4. earned + attempt <= 0
        BY DEF Earning
      <3>. HIDE DEF earned
      <3>5. QED
        BY <1>1, <3>3, <3>4, WindowAssumption DEF TypeOK
    <2>2. PICK i \in 1 .. Len(Window) : Window[i] \in broken
      BY <2>1, WindowIs DEF Listable
    <2>. DEFINE m == Narrowed(size)
                a == i + m - 1
                b == size + m - 1
    <2>0. size \in Nat \ {0} /\ start \in Nat /\ page \in Nat /\ Allowed \in Nat /\ Cost[size] \in Nat
      BY BudgetTypes
    <2>3. i \in Nat \ {0} /\ i <= size /\ Window[i] = library[start + i]
      BY <2>0, WindowIs
    <2>4. start + i \in DOMAIN library
      <3>1. start + Len(Window) <= Len(library) /\ i <= Len(Window) /\ Len(Window) \in Nat
        BY <2>3, WindowIs
      <3>2. DOMAIN library = 1 .. Len(library) /\ Len(library) \in Nat
        BY DEF TypeOK
      <3>3. QED
        BY <2>0, <2>3, <3>1, <3>2
    <2>5. start + i \in broken
      BY <2>2, <2>3, <2>4, Still
    <2>6. m \in 1 .. size
      BY <2>0, NarrowedWindow
    <2>. HIDE DEF m
    <2>7. m \in Nat \ {0} /\ a \in Nat /\ b \in Nat /\ a <= b
      BY <2>0, <2>3, <2>6
    <2>8. a \div m <= b \div m /\ a \div m \in Nat /\ b \div m \in Nat
      <3>. HIDE DEF a, b
      <3>. QED
        BY <2>7, Division
    <2>9. Cost[size] = 1 + (b \div m - 1) + Cost[m] /\ Cost[m] \in Nat
      <3>1. size \in 2 .. PageSize /\ m \in 1 .. PageSize
        BY <1>1, <2>0, <2>6, WindowAssumption DEF TypeOK
      <3>2. QED
        BY <3>1, CostDefined DEF m
    <2>10. page + Cost[size] <= Allowed
      BY BudgetCovers
    <2>11. page + 1 + (a \div m - 1 + Cost[m]) <= Allowed
      <3>. DEFINE x == a \div m
                  y == b \div m
      <3>1. x <= y /\ x \in Nat /\ y \in Nat /\ Cost[size] = 1 + (y - 1) + Cost[m]
        BY <2>8, <2>9
      <3>. HIDE DEF x, y
      <3>2. page + 1 + (x - 1 + Cost[m]) <= Allowed
        BY <2>0, <2>9, <2>10, <3>1
      <3>3. QED
        BY <3>2 DEF x
    <2>12. PICK c : c = start + i
      OBVIOUS
    <2>13. c - start' + size' - 1 = a /\ size' = m /\ Allowed' = Allowed
      BY <1>1, <2>0, <2>3, <2>7, <2>12 DEF m, Allowed
    <2>14. page' + ((c - start' + size' - 1) \div size' - 1 + Cost[size']) <= Allowed'
      BY <1>1, <2>11, <2>13
    <2>15. start' < c /\ c \in broken'
      BY <1>1, <2>0, <2>3, <2>5, <2>12
    <2>16. QED
      BY <2>14, <2>15 DEF Budget, CostWithin, Allowed
  <1>5. QED
    BY <1>2, <1>3, <1>4

-----------------------------------------------------------------------------
(* A record is stepped over.                                               *)

\* The record alone in its window, if the library reaches that far.
Stuck == {library[i] : i \in {start + 1} \cap DOMAIN library}

\* What stepping over does.
LEMMA StepOverDoes ==
  ASSUME TypeOK, StepOver
  PROVE  /\ size = 1 /\ attempt > MetadataRetries /\ result = "walking"
         /\ start' = start + 1 /\ size' = PageSize /\ skipped' = skipped + 1
         /\ stepped' = stepped \cup Stuck /\ attempt' = 0
         /\ \/ result' = "failed" /\ page' = page
            \/ result' = "walking" /\ page' = page + 1 /\ skipped' <= MaxSkips
         /\ UNCHANGED <<library, broken, all, faults, added, removed>>
         /\ library \in Seq(Records) /\ DOMAIN library = 1 .. Len(library) /\ Len(library) \in Nat
         /\ start \in Nat /\ skipped \in Nat /\ page \in Nat
  <1>1. start \in Nat /\ skipped \in Nat /\ page \in Nat /\ library \in Seq(Records)
    BY DEF TypeOK
  <1>2. MaxSkips \in Nat
    BY WindowAssumption
  <1>3. /\ size = 1 /\ attempt > MetadataRetries /\ result = "walking"
        /\ start' = start + 1 /\ size' = PageSize /\ skipped' = skipped + 1
        /\ stepped' = stepped \cup Stuck /\ attempt' = 0
        /\ UNCHANGED <<library, broken, all, faults, added, removed>>
    BY DEF StepOver, Refused, Walking, FreshAttempt, PastRecord, Stuck, server, edits
  <1>4. \/ result' = "failed" /\ page' = page
        \/ result' = "walking" /\ page' = page + 1 /\ skipped' <= MaxSkips
    BY <1>1, <1>2, <1>3 DEF StepOver
  <1>5. QED
    BY <1>1, <1>3, <1>4

\* A record stepped over is accounted for.
LEMMA StepOverLists ==
  ASSUME PagingInv, StepOver
  PROVE  OneOfEach' /\ ListedInOrder' /\ CostSoFar' /\ EditsCostOneEach'
  <1>. USE DEF PagingInv
  <1>1. /\ result = "walking" /\ result' # "listed"
        /\ start' = start + 1 /\ stepped' = stepped \cup Stuck
        /\ result' = "walking" => skipped' <= MaxSkips
        /\ UNCHANGED <<library, broken, all, faults, added, removed>>
        /\ library \in Seq(Records) /\ DOMAIN library = 1 .. Len(library) /\ Len(library) \in Nat
        /\ start \in Nat
    BY StepOverDoes
  <1>2. StoodStill' = StoodStill /\ Image(all)' = Image(all) /\ Image(library)' = Image(library)
    BY <1>1 DEF StoodStill, Image
  <1>3. ASSUME StoodStill
        PROVE  /\ stepped' \subseteq 1 .. Shorter(start + 1, NRecords)
               /\ (1 .. Shorter(start, NRecords)) \ stepped
                    = (1 .. Shorter(start + 1, NRecords)) \ stepped'
    <2>1. /\ Len(library) = NRecords /\ NRecords \in Nat
          /\ \A i \in 1 .. NRecords : library[i] = i
      BY <1>3, Still
    <2>2. stepped \subseteq 1 .. Shorter(start, NRecords)
      BY <1>3 DEF OneOfEach
    <2>3. CASE start + 1 <= NRecords
      <3>1. start + 1 \in 1 .. NRecords
        BY <1>1, <2>1, <2>3
      <3>2. Stuck = {start + 1}
        BY <1>1, <2>1, <3>1 DEF Stuck
      <3>3. Shorter(start, NRecords) = start /\ Shorter(start + 1, NRecords) = start + 1
        BY <1>1, <2>1, <2>3 DEF Shorter
      <3>4. 1 .. start + 1 = (1 .. start) \cup {start + 1} /\ start + 1 \notin 1 .. start
        BY <1>1
      <3>5. QED
        BY <1>1, <2>2, <3>2, <3>3, <3>4
    <2>4. CASE ~(start + 1 <= NRecords)
      <3>1. start + 1 \notin 1 .. NRecords
        BY <2>4, <1>1, <2>1
      <3>2. Stuck = {}
        BY <1>1, <2>1, <3>1 DEF Stuck
      <3>3. Shorter(start, NRecords) = NRecords /\ Shorter(start + 1, NRecords) = NRecords
        BY <1>1, <2>1, <2>4 DEF Shorter
      <3>4. QED
        BY <1>1, <2>2, <3>2, <3>3
    <2>5. QED
      BY <2>3, <2>4
  <1>4. OneOfEach'
    BY <1>1, <1>2, <1>3 DEF OneOfEach
  <1>5. ListedInOrder'
    <2>. SUFFICES ASSUME StoodStill PROVE ListedInOrder'
      BY <1>2 DEF ListedInOrder
    <2>1. /\ Len(library) = NRecords /\ NRecords \in Nat
          /\ \A n \in Nat : n <= NRecords => {library[i] : i \in 1 .. n} = 1 .. n
      BY Still
    <2>. DEFINE here == Shorter(start, NRecords)
                there == Shorter(start + 1, NRecords)
    <2>2. here \in Nat /\ here <= NRecords /\ there \in Nat /\ there <= NRecords
      BY <1>1, <2>1 DEF Shorter
    <2>3. Image(all) = {library[i] : i \in 1 .. here} \ stepped
          /\ \A i, j \in DOMAIN all : i < j => all[i] < all[j]
      BY <1>1, <2>1 DEF ListedInOrder
    <2>4. (1 .. here) \ stepped = (1 .. there) \ stepped'
      BY <1>3
    <2>. HIDE DEF here, there
    <2>5. Image(all) = {library[i] : i \in 1 .. there} \ stepped'
      BY <2>1, <2>2, <2>3, <2>4
    <2>6. Image(all)' = {library'[i] : i \in 1 .. there} \ stepped'
      BY <1>1, <1>2, <2>5
    <2>7. there = IF result' = "listed" THEN Len(library') ELSE Shorter(start', Len(library'))
      BY <1>1, <2>1 DEF there
    <2>8. (\A i, j \in DOMAIN all : i < j => all[i] < all[j])'
      BY <1>1, <2>3
    <2>9. QED
      BY <2>6, <2>7, <2>8 DEF ListedInOrder
  <1>6. CostSoFar' /\ EditsCostOneEach'
    <2>. DEFINE behind == (Before \cap 1 .. NRecords) \ (Image(all) \cup stepped)
                again == Image(all) \cap Rest
    <2>1. Before' \subseteq Before \cup Stuck
      <3>1. \A j \in DOMAIN library : j <= start + 1 => j <= start \/ j = start + 1
        BY <1>1
      <3>2. QED
        BY <1>1, <3>1 DEF Before, Stuck
    <2>2. Rest' \subseteq Rest
      <3>1. \A j \in DOMAIN library : j > start + 1 => j > start
        BY <1>1
      <3>2. QED
        BY <1>1, <3>1 DEF Rest
    <2>3. behind' \subseteq behind /\ again' \subseteq again
      BY <1>1, <1>2, <2>1, <2>2
    <2>4. behind \in SUBSET Records /\ again \in SUBSET Records
      BY RecordSets
    <2>5. Cardinality(behind) <= removed /\ Len(all) + Cardinality(again) <= added + Cardinality(Image(all))
      BY <1>1 DEF CostSoFar
    <2>6. /\ Len(all) \in Nat /\ Cardinality(Image(all)) \in Nat /\ added \in Nat /\ removed \in Nat
      BY RecordSets, OneMore, LibraryAssumption DEF TypeOK
    <2>7. behind' \in SUBSET Records /\ again' \in SUBSET Records
      BY <2>3, <2>4
    <2>. HIDE DEF behind, again
    <2>8. Cardinality(behind') <= Cardinality(behind) /\ Cardinality(again') <= Cardinality(again)
          /\ Cardinality(behind) \in Nat /\ Cardinality(again) \in Nat
          /\ Cardinality(behind') \in Nat /\ Cardinality(again') \in Nat
      BY <2>3, <2>4, <2>7, OneMore
    <2>9. Cardinality(behind') <= removed'
          /\ Len(all)' + Cardinality(again') <= added' + Cardinality(Image(all))'
      BY <1>1, <1>2, <2>5, <2>6, <2>8
    <2>10. Len(all)' - Cardinality(Image(all)') <= added'
      BY <1>1, <1>2, <2>6, <2>8, <2>9
    <2>11. QED
      BY <1>1, <2>9, <2>10 DEF CostSoFar, EditsCostOneEach, behind, again
  <1>7. QED
    BY <1>4, <1>5, <1>6

\* A record that could be listed is stepped over for as many faults as get
\* has attempts.
LEMMA StepOverEarns ==
  ASSUME PagingInv, StepOver
  PROVE  Earning'
  <1>. USE DEF PagingInv
  <1>1. /\ size = 1 /\ attempt > MetadataRetries /\ attempt' = 0
        /\ stepped' = stepped \cup Stuck
        /\ UNCHANGED <<library, broken, all, faults, added, removed>>
    BY StepOverDoes
  <1>. SUFFICES ASSUME StoodStill PROVE Earning'
    BY <1>1 DEF Earning, StoodStill
  <1>. DEFINE S == stepped \ broken
              T == stepped' \ broken'
              k == MetadataRetries + 1
  <1>2. S \in SUBSET Records /\ T \in SUBSET Records /\ T \subseteq S \cup {library[start + 1]}
    BY <1>1, RecordSets DEF TypeOK, Stuck, Image
  <1>3. attempt \in Nat /\ faults \in Nat /\ k \in Nat /\ attempt >= k
    BY <1>1, WindowAssumption, LibraryAssumption DEF TypeOK
  <1>4. Cardinality(S) * k + (IF Listable(Window) THEN attempt ELSE 0) <= faults
    BY DEF Earning
  <1>. HIDE DEF S, T, k
  <1>5. Cardinality(S) \in Nat /\ Cardinality(T) \in Nat /\ Cardinality(T) <= Cardinality(S) + 1
        /\ (T \subseteq S => Cardinality(T) <= Cardinality(S))
    BY <1>2, OneMore
  <1>6. CASE T \subseteq S
    <2>1. Cardinality(T) * k <= Cardinality(S) * k
      BY <1>3, <1>5, <1>6
    <2>2. Cardinality(S) * k <= faults /\ Cardinality(S) * k \in Nat /\ Cardinality(T) * k \in Nat
      BY <1>3, <1>4, <1>5
    <2>3. Cardinality(T) * k <= faults
      BY <1>3, <2>1, <2>2
    <2>4. QED
      BY <1>1, <1>3, <1>5, <2>2, <2>3 DEF Earning, T, k
  <1>7. CASE ~(T \subseteq S)
    <2>1. Stuck \cap broken = {}
      BY <1>1, <1>7 DEF S, T, Stuck
    <2>2. Listable(Window)
      <3>. SUFFICES ASSUME NEW i \in DOMAIN Window PROVE Window[i] \in Stuck
        BY <2>1 DEF Listable
      <3>1. i = 1 /\ Window[i] = library[start + i] /\ start + 1 <= Len(library)
        BY <1>1, WindowIs DEF TypeOK
      <3>2. start + 1 \in DOMAIN library
        BY <3>1 DEF TypeOK
      <3>3. QED
        BY <3>1, <3>2 DEF Stuck
    <2>3. Cardinality(S) * k + k <= faults
      <3>1. Cardinality(S) * k \in Nat
        BY <1>3, <1>5
      <3>2. QED
        BY <1>3, <1>4, <2>2, <3>1
    <2>4. Cardinality(T) * k <= (Cardinality(S) + 1) * k
      BY <1>3, <1>5
    <2>5. (Cardinality(S) + 1) * k = Cardinality(S) * k + k
      BY <1>3, <1>5
    <2>6. Cardinality(T) * k \in Nat /\ Cardinality(S) * k \in Nat
      BY <1>3, <1>5
    <2>7. Cardinality(T) * k <= faults
      BY <1>3, <2>3, <2>4, <2>5, <2>6
    <2>8. QED
      BY <1>1, <1>3, <2>6, <2>7 DEF Earning, T, k
  <1>8. QED
    BY <1>6, <1>7

\* A record stepped over opens the budget of the next one.
LEMMA StepOverBudget ==
  ASSUME PagingInv, StepOver
  PROVE  Budget'
  <1>. USE DEF PagingInv
  <1>1. /\ size = 1 /\ start' = start + 1 /\ size' = PageSize /\ skipped' = skipped + 1
        /\ page' \in {page, page + 1}
        /\ UNCHANGED <<library, broken, all, faults, added, removed>>
    BY StepOverDoes
  <1>. SUFFICES ASSUME StoodStill, faults = 0 PROVE Budget'
    BY <1>1 DEF Budget, StoodStill
  <1>2. page + 1 <= Allowed
    BY <1>1, BudgetCovers, CostDefined
  <1>. DEFINE whole == Cost[PageSize]
              before == start \div PageSize
              after == (start + 1) \div PageSize
              paid == whole * (skipped + 1)
  <1>3. /\ whole \in Nat /\ before \in Nat /\ paid \in Nat /\ Allowed = before + paid
        /\ page \in Nat /\ skipped \in Nat /\ start \in Nat /\ PageSize \in Nat \ {0}
    BY BudgetTypes DEF Allowed
  <1>4. before <= after /\ after \in Nat
    <2>1. start + 1 \in Nat /\ start <= start + 1
      BY <1>3
    <2>2. QED
      BY <1>3, <2>1, Division
  <1>5. whole * (skipped' + 1) = paid + whole
    <2>. HIDE DEF whole
    <2>1. whole * (skipped + 1 + 1) = whole * (skipped + 1) + whole
      BY <1>3
    <2>2. QED
      BY <1>1, <2>1
  <1>6. Allowed' = after + (paid + whole)
    BY <1>1, <1>5 DEF Allowed
  <1>. HIDE DEF whole, before, after, paid
  <1>7. page' + whole <= Allowed'
    <2>1. page' \in Nat /\ page' <= page + 1
      BY <1>1, <1>3
    <2>2. page' <= before + paid
      BY <1>2, <1>3, <2>1
    <2>3. page' + whole <= after + (paid + whole)
      <3>. DEFINE p == page'
      <3>1. p \in Nat /\ p <= before + paid
        BY <2>1, <2>2
      <3>. HIDE DEF p
      <3>2. p <= after + paid
        BY <1>3, <1>4, <3>1
      <3>3. p + whole <= after + (paid + whole)
        BY <1>3, <1>4, <3>1, <3>2
      <3>4. QED
        BY <3>3 DEF p
    <2>4. QED
      BY <1>6, <2>3
  <1>8. QED
    BY <1>1, <1>7 DEF Budget, Allowed, whole

-----------------------------------------------------------------------------
(* The theorems.                                                           *)

\* The walk begins within its budget, with nothing listed.
LEMMA PagingInvInit == Init => PagingInv
  <1>. SUFFICES ASSUME Init PROVE PagingInv
    OBVIOUS
  <1>1. /\ library = [i \in 1 .. NRecords |-> i] /\ NRecords \in Nat
        /\ start = 0 /\ size = PageSize /\ page = 0 /\ skipped = 0
        /\ all = <<>> /\ result = "walking" /\ stepped = {}
        /\ attempt = 0 /\ faults = 0 /\ added = 0 /\ removed = 0
    BY LibraryAssumption DEF Init
  <1>2. TypeOK
    BY TypeInit
  <1>3. Len(library) = NRecords /\ DOMAIN library = 1 .. NRecords
        /\ Len(all) = 0 /\ DOMAIN all = {} /\ Image(all) = {}
    BY <1>1 DEF Image
  <1>4. OneOfEach
    <2>1. Image(library) = 1 .. NRecords
      BY <1>1, <1>3 DEF Image
    <2>2. Image(library) \cup Image(all) \subseteq 1 .. NRecords + added
      BY <1>1, <1>3, <2>1
    <2>3. QED
      BY <1>1, <1>3, <2>2, WindowAssumption DEF OneOfEach
  <1>5. ListedInOrder
    <2>1. Shorter(start, Len(library)) = 0
      BY <1>1, <1>3 DEF Shorter
    <2>2. QED
      BY <1>1, <1>3, <2>1 DEF ListedInOrder
  <1>6. CostSoFar /\ EditsCostOneEach
    <2>1. Before = {}
      BY <1>1, <1>3 DEF Before
    <2>. DEFINE behind == (Before \cap 1 .. NRecords) \ (Image(all) \cup stepped)
                again == Image(all) \cap Rest
    <2>2. behind = {} /\ again = {}
      BY <1>3, <2>1
    <2>. HIDE DEF behind, again
    <2>3. Cardinality(behind) = 0 /\ Cardinality(again) = 0 /\ Cardinality(Image(all)) = 0
      BY <1>3, <2>2, FS_EmptySet
    <2>4. CostSoFar
      BY <1>1, <1>3, <2>3 DEF CostSoFar, behind, again
    <2>5. EditsCostOneEach
      BY <1>1, <1>3, <2>3 DEF EditsCostOneEach
    <2>6. QED
      BY <2>4, <2>5
  <1>7. Earning
    <2>1. stepped \ broken = {}
      BY <1>1
    <2>2. Cardinality(stepped \ broken) = 0
      BY <2>1, FS_EmptySet
    <2>3. Cardinality(stepped \ broken) * (MetadataRetries + 1) = 0
      BY <2>2, WindowAssumption
    <2>4. QED
      BY <1>1, <2>3 DEF Earning
  <1>8. Budget
    <2>1. 0 \div PageSize = 0
      BY WindowAssumption
    <2>2. Cost[PageSize] \in Nat
      BY CostDefined, WindowAssumption
    <2>3. QED
      BY <1>1, <2>1, <2>2 DEF Budget
  <1>9. QED
    BY <1>2, <1>4, <1>5, <1>6, <1>7, <1>8 DEF PagingInv

\* After every step of the walk, the server or the library it holds again.
LEMMA PagingInvStep ==
  ASSUME PagingInv, [Next]_vars
  PROVE  PagingInv'
  <1>1. TypeOK'
    BY TypeStep DEF PagingInv, OneOfEach
  <1>2. OneOfEach' /\ ListedInOrder' /\ CostSoFar' /\ EditsCostOneEach' /\ Earning' /\ Budget'
    <2>1. CASE RecordRemoved \/ RecordAdded
      BY <2>1, EditStep
    <2>2. CASE Refuse \/ Fault
      BY <2>2, AttemptStep
    <2>3. CASE Deadline \/ Abandon \/ RunOut
      BY <2>3, EndStep
    <2>4. CASE FullPage \/ ShortPage
      <3>1. Earning'
        BY <2>4, FreshEarns DEF FullPage, ShortPage, FreshAttempt, server, edits
      <3>2. QED
        BY <2>4, <3>1, PageCosts, PageOrder, PageBudget
    <2>5. CASE Narrow
      BY <2>5, NarrowStep
    <2>6. CASE StepOver
      BY <2>6, StepOverLists, StepOverEarns, StepOverBudget
    <2>7. CASE UNCHANGED vars
      <3>1. UNCHANGED <<library, broken, start, size, page, all, result, stepped, skipped, attempt,
                        faults, added, removed>>
        BY <2>7 DEF vars, server, walk, asking, edits
      <3>2. OneOfEach' /\ ListedInOrder'
        BY <3>1 DEF PagingInv, OneOfEach, ListedInOrder, Image, StoodStill
      <3>3. CostSoFar' /\ EditsCostOneEach'
        BY <3>1 DEF PagingInv, CostSoFar, EditsCostOneEach, Image, Before, Rest
      <3>4. Earning'
        BY <3>1 DEF PagingInv, Earning, Listable, Window, StoodStill
      <3>5. Budget'
        BY <3>1 DEF PagingInv, Budget, CostWithin, StoodStill
      <3>6. QED
        BY <3>2, <3>3, <3>4, <3>5
    <2>8. QED
      BY <2>1, <2>2, <2>3, <2>4, <2>5, <2>6, <2>7 DEF Next
  <1>3. QED
    BY <1>1, <1>2 DEF PagingInv

\* The inductive invariant of a listing.
THEOREM PagingInvariance == Spec => []PagingInv
  BY PagingInvInit, PagingInvStep, PTL DEF Spec

\* Type correctness: no window is empty, or wider than a page.
THEOREM PagingTypeCorrect == Spec => []TypeOK
  <1>1. PagingInv => TypeOK
    BY DEF PagingInv
  <1>2. QED
    BY <1>1, PagingInvariance, PTL

\* Whatever the page size and the divisor, windows of changing width neither
\* lose nor repeat a record of a library that stands still.
THEOREM ListsInOrder == Spec => []ListedInOrder
  <1>1. PagingInv => ListedInOrder
    BY DEF PagingInv
  <1>2. QED
    BY <1>1, PagingInvariance, PTL

\* Every edit during the walk costs at most one record.
THEOREM EditsAreCheap == Spec => []EditsCostOneEach
  <1>1. PagingInv => EditsCostOneEach
    BY DEF PagingInv
  <1>2. QED
    BY <1>1, PagingInvariance, PTL

\* No healthy record is given up for less than all the attempts of get.
THEOREM SkipsAreDue == Spec => []SkipsAreEarned
  <1>1. PagingInv => SkipsAreEarned
    <2>. SUFFICES ASSUME PagingInv, StoodStill
                  PROVE  Cardinality(stepped \ broken) * (MetadataRetries + 1) <= faults
      BY DEF SkipsAreEarned
    <2>. DEFINE earned == Cardinality(stepped \ broken) * (MetadataRetries + 1)
    <2>1. earned + (IF Listable(Window) THEN attempt ELSE 0) <= faults
      BY DEF PagingInv, Earning
    <2>2. stepped \ broken \in SUBSET Records /\ attempt \in Nat /\ faults \in Nat
      BY WindowAssumption, LibraryAssumption DEF PagingInv, TypeOK
    <2>3. earned \in Nat
      BY <2>2, OneMore, WindowAssumption
    <2>. HIDE DEF earned
    <2>4. QED
      BY <2>1, <2>2, <2>3 DEF earned
  <1>2. QED
    BY <1>1, PagingInvariance, PTL

\* Isolating broken records stays within the pages they may cost, for every
\* page size and every divisor.
THEOREM BudgetIsKept == Spec => []PagesWithinBudget
  <1>1. PagingInv => PagesWithinBudget
    BY BudgetCovers DEF PagingInv, PagesWithinBudget, Allowed
  <1>2. QED
    BY <1>1, PagingInvariance, PTL
=============================================================================
