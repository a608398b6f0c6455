--------------------------- MODULE LogRotationProofs ---------------------------
(***************************************************************************)
(* For any numbers of files and lines, sizes of records and bounds: only   *)
(* the oldest lines are given up, as many are kept as full files hold, and *)
(* a search beside the rotation finds what was there and stays.            *)
(***************************************************************************)
EXTENDS LogRotation, FiniteSetTheorems, TLAPS

Last == LOG_FILE_RETENTION - 1

\* What the steps need to know of the types.
Types ==
    /\ content \in [Indices -> SUBSET (1 .. written)] /\ written \in Nat
    /\ there \subseteq Indices
    /\ \A i \in Indices \ there : content[i] = {}
    /\ pc \in {"ready", "rotate"} => 0 \in there
    /\ index \in 0 .. Last - 1

\* Every line is in one file, the older in the higher.
Ordered == \A i, j \in Indices : i < j => \A m \in content[i], n \in content[j] : n < m

\* What comes after a line that is there is there too.
NoGap == \A i \in Indices : \A m \in content[i] : \A n \in m .. written : \E j \in Indices : n \in content[j]

\* A file is moved to a slot that is free, but for the last one, which may still be
\* there if it could not be removed.
SlotFree == pc = "shift" /\ index < Last - 1 => content[index + 1] = {}

WriterInv == Types /\ Ordered /\ NoGap /\ SlotFree

\* The files still to be read are the upper part of those listed, and a line that was
\* there has been seen, or is in one of them, or in a file beyond all that were listed.
Ahead(i) == i \in search.left \/ \A l \in search.listed : l < i

SearchTypes ==
    /\ search.listed \subseteq Indices /\ search.left \subseteq search.listed
    /\ \A l \in search.left, k \in search.listed : l < k => k \in search.left
    /\ search.known \subseteq 1 .. written

AheadOrGone ==
    search.pc = "read" /\ WithoutGap(search.listed) =>
        \A m \in search.known : \A i \in Indices : m \in content[i] => m \in search.seen \/ Ahead(i)

IInv == WriterInv /\ SearchTypes /\ AheadOrGone

-----------------------------------------------------------------------------
(* The writer. *)

LEMMA Bounds == LOG_FILE_RETENTION \in Nat /\ LOG_FILE_RETENTION > 1 /\ Last \in Indices
                 /\ Last = LOG_FILE_RETENTION - 1 /\ Indices = 0 .. Last
BY LogAssumption DEF Last, Indices

LEMMA InitWriter == Init => WriterInv
BY Bounds DEF Init, WriterInv, Types, Ordered, NoGap, SlotFree

\* A step that takes the lines of the last file away, or none.
LEMMA LastGone ==
    ASSUME WriterInv, content' = [content EXCEPT ![Last] = {}], UNCHANGED written
    PROVE  Ordered' /\ NoGap'
<1>1. /\ content' \in [Indices -> SUBSET (1 .. written)]
      /\ \A i \in Indices : content'[i] = IF i = Last THEN {} ELSE content[i]
  BY Bounds DEF WriterInv, Types
<1>2. Ordered'
  BY <1>1 DEF WriterInv, Ordered
<1>3. NoGap'
  <2> SUFFICES ASSUME NEW i \in Indices, NEW m \in content'[i], NEW n \in m .. written
               PROVE  \E j \in Indices : n \in content'[j]
    BY DEF NoGap
  <2>1. i # Last /\ m \in content[i] /\ i < Last
    BY <1>1, Bounds
  <2>2. PICK j \in Indices : n \in content[j]
    BY <2>1 DEF WriterInv, NoGap
  <2>3. m \in Nat /\ n \in Nat /\ m <= n
    BY <2>1 DEF WriterInv, Types
  <2>4. j # Last
    <3> SUFFICES ASSUME j = Last PROVE FALSE
      OBVIOUS
    <3> QED BY <2>1, <2>2, <2>3 DEF WriterInv, Ordered
  <2> QED BY <1>1, <2>2, <2>4
<1> QED BY <1>2, <1>3

\* One rename of the loop: the lines of one slot, into the next.
LEMMA MovedUp ==
    ASSUME WriterInv, pc = "shift", index \in there, Rename(index), UNCHANGED written
    PROVE  /\ content' \in [Indices -> SUBSET (1 .. written)]
           /\ \A j \in Indices : content'[j] = IF j = index + 1 THEN content[index]
                                               ELSE IF j = index THEN {} ELSE content[j]
           /\ Ordered' /\ NoGap'
<1> DEFINE i == index
           From(a) == IF a = i + 1 THEN i ELSE a
<1>1. /\ i \in Indices /\ i + 1 \in Indices /\ i + 1 # i /\ i \in Int
      /\ content \in [Indices -> SUBSET (1 .. written)]
  BY Bounds DEF WriterInv, Types
<1>2. content' = [content EXCEPT ![i + 1] = content[i], ![i] = {}]
  BY DEF Rename
<1>3. /\ content' \in [Indices -> SUBSET (1 .. written)]
      /\ \A j \in Indices : content'[j] = IF j = i + 1 THEN content[i]
                                          ELSE IF j = i THEN {} ELSE content[j]
  BY <1>1, <1>2
<1>4. \A a \in Indices : \A m \in content'[a] : a # i /\ From(a) \in Indices /\ m \in content[From(a)]
  BY <1>1, <1>3
<1>5. \A a, b \in Indices : a < b /\ a # i /\ b # i => From(a) < From(b)
  BY <1>1, Bounds
<1>6. Ordered'
  <2> SUFFICES ASSUME NEW a \in Indices, NEW b \in Indices, a < b,
                      NEW m \in content'[a], NEW n \in content'[b]
               PROVE  n < m
    BY DEF Ordered, Indices
  <2> HIDE DEF From, i
  <2>1. From(a) < From(b) /\ From(a) \in Indices /\ From(b) \in Indices
        /\ m \in content[From(a)] /\ n \in content[From(b)]
    BY <1>4, <1>5
  <2> QED BY <2>1 DEF WriterInv, Ordered
<1>7. NoGap'
  <2> SUFFICES ASSUME NEW a \in Indices, NEW m \in content'[a], NEW n \in m .. written
               PROVE  \E j \in Indices : n \in content'[j]
    BY DEF NoGap, Indices
  <2>1. a # i /\ From(a) \in Indices /\ m \in content[From(a)]
    BY <1>4
  <2>2. PICK j \in Indices : n \in content[j]
    <3> HIDE DEF From
    <3> QED BY <2>1 DEF WriterInv, NoGap
  <2>3. m \in Nat /\ n \in Nat /\ m <= n
    BY <1>3
  <2>4. CASE j = i
    BY <2>2, <2>4, <1>1, <1>3
  <2>5. CASE j = i + 1
    <3>1. i = Last - 1
      BY <2>2, <2>5, Bounds DEF WriterInv, SlotFree, Types
    <3>2. From(a) < j
      BY <2>1, <2>5, <3>1, <1>1, Bounds
    <3> HIDE DEF From, i
    <3>3. n < m
      BY <2>1, <2>2, <3>2 DEF WriterInv, Ordered
    <3> QED BY <2>3, <3>3
  <2>6. CASE j # i /\ j # i + 1
    BY <2>2, <2>6, <1>3
  <2> QED BY <2>4, <2>5, <2>6
<1> QED BY <1>3, <1>6, <1>7

LEMMA RemoveOldestWriter == WriterInv /\ RemoveOldest => WriterInv'
<1> SUFFICES ASSUME WriterInv, RemoveOldest PROVE WriterInv'
  OBVIOUS
<1>1. Ordered' /\ NoGap'
  <2>1. CASE content' = [content EXCEPT ![Last] = {}]
    BY <2>1, LastGone DEF RemoveOldest
  <2>2. CASE UNCHANGED content
    BY <2>2 DEF WriterInv, Ordered, NoGap, RemoveOldest, Indices
  <2> QED BY <2>1, <2>2 DEF RemoveOldest, Last
<1>2. Types'
  <2>1. /\ content \in [Indices -> SUBSET (1 .. written)] /\ written \in Nat /\ there \subseteq Indices
        /\ \A i \in Indices \ there : content[i] = {}
    BY DEF WriterInv, Types
  <2>2. /\ written' = written /\ pc' = "shift" /\ index' = Last - 1
        /\ Last \in Nat \ {0}
    BY Bounds DEF RemoveOldest, Last
  <2>3. \/ there' = there \ {Last} /\ content' = [content EXCEPT ![Last] = {}]
        \/ UNCHANGED <<there, content>>
    BY DEF RemoveOldest, Last
  <2>4. /\ content' \in [Indices -> SUBSET (1 .. written)] /\ there' \subseteq Indices
        /\ \A i \in Indices \ there' : content'[i] = {}
    BY <2>1, <2>3
  <2> QED BY <2>1, <2>2, <2>4 DEF Types, Indices
<1>3. SlotFree'
  BY Bounds DEF RemoveOldest, SlotFree
<1> QED BY <1>1, <1>2, <1>3 DEF WriterInv

LEMMA ShiftWriter == WriterInv /\ Shift => WriterInv'
<1> SUFFICES ASSUME WriterInv, Shift PROVE WriterInv'
  OBVIOUS
<1> USE Bounds
<1>1. CASE Rename(index) /\ index \in there /\ UNCHANGED <<broken, budget>>
  <2>1. /\ content' \in [Indices -> SUBSET (1 .. written)] /\ written' = written
        /\ \A j \in Indices : content'[j] = IF j = index + 1 THEN content[index]
                                            ELSE IF j = index THEN {} ELSE content[j]
        /\ Ordered' /\ NoGap'
    BY <1>1, MovedUp DEF Shift
  <2>2. there' = (there \ {index}) \cup {index + 1} /\ index + 1 \in Indices /\ index \in Indices
    BY <1>1 DEF Rename, WriterInv, Types
  <2>3. /\ pc = "shift" /\ pc' \in {"shift", "reopen", "silent"} /\ index' \in 0 .. Last - 1
        /\ pc' = "shift" => index' = index - 1
    BY DEF Shift, FallSilent, WriterInv, Types
  <2>4. Types'
    BY <2>1, <2>2, <2>3 DEF WriterInv, Types, Indices
  <2>5. SlotFree'
    BY <1>1, <2>1, <2>2, <2>3 DEF SlotFree, WriterInv, Types
  <2> QED BY <2>1, <2>4, <2>5 DEF WriterInv
<1>2. CASE Rename(index) /\ index \notin there /\ UNCHANGED <<broken, budget>>
  <2>1. UNCHANGED <<content, there, written>>
    BY <1>2 DEF Rename, Shift
  <2>2. /\ pc' \in {"shift", "reopen", "silent"} /\ index' \in 0 .. Last - 1
        /\ pc' = "shift" => index' = index - 1
    BY <1>2 DEF Shift, FallSilent, WriterInv, Types
  <2>3. index \in Indices /\ content[index] = {}
    BY <1>2 DEF WriterInv, Types
  <2>4. Ordered' /\ NoGap'
    BY <2>1 DEF WriterInv, Ordered, NoGap, Indices
  <2>5. Types'
    BY <2>1, <2>2 DEF WriterInv, Types, Indices
  <2>6. SlotFree'
    BY <2>1, <2>2, <2>3 DEF SlotFree, WriterInv, Types
  <2> QED BY <2>4, <2>5, <2>6 DEF WriterInv
<1>3. CASE FallSilent /\ UNCHANGED <<there, content, index>>
  BY <1>3 DEF Shift, FallSilent, WriterInv, Types, Ordered, NoGap, SlotFree, Indices
<1> QED BY <1>1, <1>2, <1>3 DEF Shift

\* Lines are added to agpeer.log, all of a record or some.
LEMMA AppendWriter ==
    ASSUME NEW k \in Nat, WriterInv, Append(k), pc = "ready", pc' \in {"ready", "rotate"},
           UNCHANGED <<there, index>>
    PROVE  WriterInv'
<1> USE Bounds
<1> DEFINE new == written + 1 .. written + k
<1>1. k \in Nat /\ written \in Nat /\ written' = written + k /\ 0 \in Indices
  BY DEF Append, WriterInv, Types, Indices
<1>2. content' = [content EXCEPT ![0] = @ \cup new] /\ content \in [Indices -> SUBSET (1 .. written)]
  BY DEF Append, WriterInv, Types
<1>3. /\ content' \in [Indices -> SUBSET (1 .. written')]
      /\ \A i \in Indices : content'[i] = IF i = 0 THEN content[0] \cup new ELSE content[i]
  BY <1>1, <1>2
<1>4. Types'
  <2>1. /\ pc' \in {"ready", "rotate"} /\ 0 \in there /\ UNCHANGED <<there, index>>
    BY DEF WriterInv, Types
  <2> QED BY <1>1, <1>3, <2>1 DEF WriterInv, Types, Indices
<1>5. Ordered'
  <2> SUFFICES ASSUME NEW a \in Indices, NEW b \in Indices, a < b,
                      NEW m \in content'[a], NEW n \in content'[b]
               PROVE  n < m
    BY DEF Ordered, Indices
  <2>1. b # 0 /\ n \in content[b] /\ n <= written
    BY <1>1, <1>2, <1>3 DEF Indices
  <2>2. CASE m \in new
    BY <1>1, <1>2, <2>1, <2>2
  <2>3. CASE m \in content[a]
    BY <2>1, <2>3 DEF WriterInv, Ordered
  <2> QED BY <1>3, <2>2, <2>3
<1>6. NoGap'
  <2> SUFFICES ASSUME NEW a \in Indices, NEW m \in content'[a], NEW n \in m .. written'
               PROVE  \E j \in Indices : n \in content'[j]
    BY DEF NoGap, Indices
  <2>1. m \in 1 .. written' /\ n \in Nat /\ m <= n
    BY <1>1, <1>3
  <2>2. CASE n > written
    BY <1>1, <1>3, <2>1, <2>2
  <2>3. CASE n <= written
    <3>1. m \in content[a] /\ n \in m .. written
      BY <1>1, <1>3, <2>1, <2>3
    <3>2. PICK j \in Indices : n \in content[j]
      BY <3>1 DEF WriterInv, NoGap
    <3> QED BY <1>3, <3>2
  <2> QED BY <1>1, <2>1, <2>2, <2>3
<1> QED BY <1>4, <1>5, <1>6 DEF WriterInv, SlotFree

\* A record is written or fails: lines are added, and more are counted only if all were.
LEMMA RecordAppended ==
    ASSUME NEW n \in Sizes, WriteRecord(n)
    PROVE  /\ pc = "ready" /\ pc' \in {"ready", "rotate"} /\ UNCHANGED <<there, index, broken, search>>
           /\ \E k \in Nat : Append(k)
BY LogAssumption DEF WriteRecord

LEMMA WriteRecordWriter ==
    ASSUME NEW n \in Sizes, WriterInv, WriteRecord(n)
    PROVE  WriterInv'
BY RecordAppended, AppendWriter

\* The steps that leave the files alone, or only make agpeer.log.
LEMMA QuietWriter ==
    ASSUME WriterInv,
           \/ Open \/ Reopen \/ Stop \/ List \/ EndSearch \/ UNCHANGED vars
           \/ \E i \in Indices : Read(i)
    PROVE  WriterInv' /\ UNCHANGED <<content, written>>
<1> USE Bounds
<1>1. /\ UNCHANGED <<content, index, written>>
      /\ there' = there \/ there' = there \cup {0}
      /\ pc' \in {"ready", "rotate"} => 0 \in there' \/ UNCHANGED <<pc, there>>
      /\ pc' = "shift" => pc = "shift"
  BY DEF Open, Reopen, Stop, List, EndSearch, Read, FallSilent, vars
<1>2. Types'
  <2>1. /\ content \in [Indices -> SUBSET (1 .. written)] /\ written \in Nat /\ there \subseteq Indices
        /\ \A i \in Indices \ there : content[i] = {}
        /\ pc \in {"ready", "rotate"} => 0 \in there
        /\ index \in 0 .. Last - 1
    BY DEF WriterInv, Types
  <2>2. there' \subseteq Indices /\ there \subseteq there' /\ (pc' \in {"ready", "rotate"} => 0 \in there')
    <3>1. 0 \in Indices
      BY DEF Indices
    <3>2. there' \subseteq Indices /\ there \subseteq there'
      BY <1>1, <2>1, <3>1
    <3>3. pc' \in {"ready", "rotate"} => 0 \in there'
      BY <1>1, <2>1
    <3> QED BY <3>2, <3>3
  <2>3. /\ content' \in [Indices -> SUBSET (1 .. written')] /\ written' \in Nat
        /\ \A i \in Indices \ there' : content'[i] = {}
        /\ index' \in 0 .. Last - 1
    BY <1>1, <2>1, <2>2
  <2> QED BY <2>2, <2>3 DEF Types, Indices, Last
<1>3. Ordered' /\ NoGap' /\ SlotFree'
  BY <1>1 DEF WriterInv, Ordered, NoGap, SlotFree, Indices
<1> QED BY <1>1, <1>2, <1>3 DEF WriterInv

-----------------------------------------------------------------------------
(* The search. *)

\* Beside a search, lines stay where they are or move to the next file.
LEMMA BesideSearch ==
    ASSUME WriterInv, SearchTypes, AheadOrGone, UNCHANGED search, written' \in Nat, written <= written',
           \A i \in Indices : \A m \in content'[i] :
               \/ m > written \/ m \in content[i]
               \/ i - 1 \in Indices /\ m \in content[i - 1]
    PROVE  SearchTypes' /\ AheadOrGone'
<1> USE Bounds
<1>1. written \in Nat
  BY DEF WriterInv, Types
<1>2. SearchTypes'
  BY <1>1 DEF SearchTypes, Indices
<1>3. ASSUME search.pc = "read", WithoutGap(search.listed), NEW m \in search.known,
             NEW i \in Indices, m \in content'[i]
      PROVE  m \in search.seen \/ Ahead(i)
  <2>1. ~(m > written)
    BY <1>1 DEF SearchTypes
  <2>2. CASE m \in content[i]
    BY <1>3, <2>2 DEF AheadOrGone
  <2>3. CASE i - 1 \in Indices /\ m \in content[i - 1]
    <3>1. m \in search.seen \/ Ahead(i - 1)
      BY <1>3, <2>3 DEF AheadOrGone
    <3>2. CASE i - 1 \in search.left
      <4>1. CASE i \in search.listed
        BY <3>2, <4>1 DEF SearchTypes, Ahead, Indices
      <4>2. CASE i \notin search.listed
        <5>1. ASSUME NEW l \in search.listed, ~(l < i) PROVE FALSE
          <6>1. i - 1 \in search.listed /\ l \in Int /\ i \in Int
            BY <3>2 DEF SearchTypes, Indices
          <6>2. i \in i - 1 .. l
            BY <5>1, <6>1
          <6> QED BY <1>3, <4>2, <6>1, <6>2 DEF WithoutGap
        <5> QED BY <5>1 DEF Ahead
      <4> QED BY <4>1, <4>2
    <3>3. CASE \A l \in search.listed : l < i - 1
      <4>1. \A l \in search.listed : l < i
        BY <3>3 DEF SearchTypes, Indices
      <4> QED BY <4>1 DEF Ahead
    <3> QED BY <3>1, <3>2, <3>3 DEF Ahead
  <2> QED BY <1>3, <2>1, <2>2, <2>3
<1>4. AheadOrGone'
  BY <1>3 DEF AheadOrGone, Ahead, WithoutGap, Indices
<1> QED BY <1>2, <1>4

LEMMA WriterSearch ==
    ASSUME WriterInv, SearchTypes, AheadOrGone,
           \/ Open \/ RemoveOldest \/ Shift \/ Reopen \/ Stop \/ UNCHANGED vars
           \/ \E k \in Sizes : WriteRecord(k)
    PROVE  SearchTypes' /\ AheadOrGone'
<1> USE Bounds
<1>1. written \in Nat /\ content \in [Indices -> SUBSET (1 .. written)] /\ 0 \in Indices
  BY DEF WriterInv, Types, Indices
<1>2. CASE UNCHANGED <<content, written, search>>
  BY <1>1, <1>2, BesideSearch
<1>3. CASE RemoveOldest
  <2>1. \A i \in Indices : \A m \in content'[i] : m \in content[i]
    BY <1>1, <1>3 DEF RemoveOldest, Last
  <2> QED BY <1>1, <1>3, <2>1, BesideSearch DEF RemoveOldest
<1>4. CASE Shift
  <2>1. CASE index \in there /\ Rename(index)
    <3>1. \A i \in Indices : content'[i] = IF i = index + 1 THEN content[index]
                                           ELSE IF i = index THEN {} ELSE content[i]
      BY <1>4, <2>1, MovedUp DEF Shift
    <3>2. index \in Indices /\ index \in Int
      BY DEF WriterInv, Types, Indices
    <3>3. \A i \in Indices : \A m \in content'[i] :
              m \in content[i] \/ (i - 1 \in Indices /\ m \in content[i - 1])
      BY <3>1, <3>2 DEF Indices
    <3> QED BY <1>1, <1>4, <3>3, BesideSearch DEF Shift
  <2>2. CASE UNCHANGED content
    BY <1>1, <1>2, <1>4, <2>2 DEF Shift
  <2> QED BY <1>4, <2>1, <2>2 DEF Shift, Rename
<1>5. ASSUME NEW k \in Sizes, WriteRecord(k)
      PROVE  SearchTypes' /\ AheadOrGone'
  <2>1. PICK a \in Nat : /\ written' = written + a /\ UNCHANGED search
                         /\ content' = [content EXCEPT ![0] = @ \cup (written + 1 .. written + a)]
    BY <1>5, RecordAppended DEF Append
  <2>2. \A i \in Indices : \A m \in content'[i] : m > written \/ m \in content[i]
    BY <1>1, <2>1
  <2> QED BY <1>1, <2>1, <2>2, BesideSearch
<1> QED BY <1>2, <1>3, <1>4, <1>5 DEF Open, Reopen, Stop, vars

LEMMA ListSearch == WriterInv /\ List => SearchTypes' /\ AheadOrGone'
<1> SUFFICES ASSUME WriterInv, List PROVE SearchTypes' /\ AheadOrGone'
  OBVIOUS
<1>1. /\ search'.pc = "read" /\ search'.listed = there /\ search'.left = there
      /\ search'.known = Retained /\ UNCHANGED <<content, written>>
  BY DEF List
<1>2. there \subseteq Indices /\ Retained \subseteq 1 .. written
  BY DEF WriterInv, Types, Retained
<1>3. \A i \in Indices : \A m \in content[i] : i \in there
  BY DEF WriterInv, Types
<1> QED BY <1>1, <1>2, <1>3 DEF SearchTypes, AheadOrGone, Ahead, Indices

LEMMA ReadSearch ==
    ASSUME WriterInv, SearchTypes, AheadOrGone, NEW i \in Indices, Read(i)
    PROVE  SearchTypes' /\ AheadOrGone'
<1>1. /\ search.pc = "read" /\ search'.pc = "read" /\ search'.listed = search.listed
      /\ search'.left = search.left \ {i} /\ search'.known = search.known
      /\ search'.seen = search.seen \cup content[i] /\ UNCHANGED <<content, written>>
      /\ i \in search.left /\ \A j \in search.left : i <= j
  BY DEF Read, NextNewest, SearchTypes
<1>2. SearchTypes'
  BY <1>1, Bounds DEF SearchTypes, Indices
<1>3. AheadOrGone'
  BY <1>1 DEF AheadOrGone, Ahead, WithoutGap, Indices
<1> QED BY <1>2, <1>3

LEMMA EndsSearch == WriterInv /\ EndSearch => SearchTypes' /\ AheadOrGone'
BY DEF EndSearch, Idle, SearchTypes, AheadOrGone

-----------------------------------------------------------------------------
LEMMA InitIInv == Init => IInv
BY InitWriter DEF Init, Idle, IInv, SearchTypes, AheadOrGone

LEMMA NextIInv == IInv /\ [Next]_vars => IInv'
<1> SUFFICES ASSUME IInv, [Next]_vars PROVE IInv'
  OBVIOUS
<1> USE DEF IInv
<1>1. CASE RemoveOldest
  BY <1>1, RemoveOldestWriter, WriterSearch
<1>2. CASE Shift
  BY <1>2, ShiftWriter, WriterSearch
<1>3. CASE \E k \in Sizes : WriteRecord(k)
  BY <1>3, WriteRecordWriter, WriterSearch
<1>4. CASE Open \/ Reopen \/ Stop \/ UNCHANGED vars
  BY <1>4, QuietWriter, WriterSearch
<1>5. CASE List
  BY <1>5, QuietWriter, ListSearch
<1>6. CASE \E i \in Indices : Read(i)
  BY <1>6, QuietWriter, ReadSearch
<1>7. CASE EndSearch
  BY <1>7, QuietWriter, EndsSearch
<1> QED BY <1>1, <1>2, <1>3, <1>4, <1>5, <1>6, <1>7 DEF Next

LEMMA IInvGivenUp == IInv => OnlyOldestGivenUp
<1> SUFFICES ASSUME IInv PROVE OnlyOldestGivenUp
  OBVIOUS
<1>1. ASSUME NEW m \in Retained, NEW n \in m .. written PROVE n \in Retained
  <2>1. PICK i \in Indices : m \in content[i]
    BY DEF Retained
  <2>2. PICK j \in Indices : n \in content[j]
    BY <2>1 DEF IInv, WriterInv, NoGap
  <2> QED BY <2>2 DEF Retained
<1> QED BY <1>1 DEF IInv, WriterInv, Ordered, OnlyOldestGivenUp

LEMMA IInvFinds == IInv => SearchFindsRetained
<1> SUFFICES ASSUME IInv, search.pc = "read", search.left = {}, WithoutGap(search.listed),
                    NEW m \in search.known, m \in Retained
             PROVE  m \in search.seen \/ \E i \in Indices \ search.listed : m \in content[i]
  BY DEF SearchFindsRetained
<1>1. PICK i \in Indices : m \in content[i]
  BY DEF Retained
<1>2. m \in search.seen \/ \A l \in search.listed : l < i
  BY <1>1 DEF IInv, AheadOrGone, Ahead
<1>3. ~(i < i)
  BY DEF Indices
<1> QED BY <1>1, <1>2, <1>3

-----------------------------------------------------------------------------
(* How much is kept.  A file is full once it is moved; what an interrupted  *)
(* rotation leaves is a hole among the files, which moves up with them.     *)

Full(i) == CountLines(i) >= LOG_LINES_PER_FILE

\* An empty file although there were lines older than those in the files before it.
Hole(i) == i > 0 /\ content[i] = {} /\ \E m \in 1 .. written : \A k \in 0 .. i : m \notin content[k]

Holes == {i \in Indices : Hole(i)}

\* The writer's count is what agpeer.log holds, but for what it wrote of failed records.
CountedLines == lines \in Nat /\ lines <= CountLines(0) /\ CountLines(0) <= lines + uncounted

FullFiles ==
    /\ \A i \in there \ {0} : Full(i)
    /\ pc \in {"rotate", "shift"} => 0 \in there /\ Full(0)
    /\ pc = "ready" => CountedLines /\ lines < LOG_LINES_PER_FILE
    /\ pc = "reopen" => 0 \notin there
    /\ uncounted \in Nat
    /\ \A i \in Indices : \E n \in Sizes : CountLines(i) < LOG_LINES_PER_FILE + n + uncounted

\* While files are moved the slot that is filled next is a hole that does not count.
Counted == IF pc = "shift" THEN Holes \ {index + 1} ELSE Holes

FewHoles == broken \in Nat /\ Cardinality(Counted) <= broken

KeptInv == FullFiles /\ FewHoles

LEMMA Constants ==
    /\ LOG_LINES_PER_FILE \in Nat /\ LOG_LINES_PER_FILE > 0
    /\ Sizes # {} /\ \A n \in Sizes : n \in Nat /\ n > 0
BY LogAssumption

LEMMA FiniteFiles ==
    ASSUME Types
    PROVE  /\ \A i \in Indices : IsFiniteSet(content[i]) /\ CountLines(i) \in Nat
           /\ \A i \in Indices : content[i] = {} <=> CountLines(i) = 0
           /\ IsFiniteSet(Retained) /\ Retained \subseteq 1 .. written
           /\ Cardinality(Retained) \in Nat
           /\ IsFiniteSet(Indices)
<1>1. IsFiniteSet(1 .. written) /\ IsFiniteSet(Indices)
  BY FS_Interval, Bounds DEF Types
<1>2. \A i \in Indices : content[i] \in SUBSET (1 .. written)
  BY DEF Types
<1>3. \A i \in Indices : IsFiniteSet(content[i])
  BY <1>1, <1>2, FS_Subset
<1>4. \A i \in Indices : CountLines(i) \in Nat /\ (content[i] = {} <=> CountLines(i) = 0)
  BY <1>3, FS_CardinalityType, FS_EmptySet DEF CountLines
<1>5. Retained \in SUBSET (1 .. written)
  BY <1>2 DEF Retained
<1>6. IsFiniteSet(Retained)
  BY <1>1, <1>5, FS_Subset
<1> QED BY <1>1, <1>3, <1>4, <1>5, <1>6, FS_CardinalityType

LEMMA FiniteHoles == IsFiniteSet(Holes) /\ IsFiniteSet(Counted) /\ Holes \subseteq Indices
<1>1. IsFiniteSet(Indices) /\ Holes \in SUBSET Indices
  BY FS_Interval, Bounds DEF Holes
<1>2. IsFiniteSet(Holes)
  BY <1>1, FS_Subset
<1> QED BY <1>1, <1>2, FS_RemoveElement DEF Counted

\* Files that are full and have no line in common have as many lines as files and
\* lines per file allow: the lines are numbered through the files.
LEMMA ManyLines ==
    ASSUME Types, Ordered, NEW S \in SUBSET Indices, \A i \in S : Full(i)
    PROVE  Cardinality(Retained) >= Cardinality(S) * LOG_LINES_PER_FILE
<1> DEFINE Places == 1 .. LOG_LINES_PER_FILE
           Numberings(i) == {f \in [Places -> content[i]] : \A a, b \in Places : f[a] = f[b] => a = b}
           numbered == [i \in S |-> CHOOSE f \in Numberings(i) : TRUE]
           line == [p \in S \X Places |-> numbered[p[1]][p[2]]]
<1>1. \A i \in S : Numberings(i) # {}
  <2> SUFFICES ASSUME NEW i \in S PROVE \E f : f \in Numberings(i)
    OBVIOUS
  <2>1. IsFiniteSet(content[i]) /\ CountLines(i) \in Nat /\ CountLines(i) >= LOG_LINES_PER_FILE
    BY FiniteFiles DEF Full
  <2>2. PICK g \in Bijection(1 .. CountLines(i), content[i]) : TRUE
    BY <2>1, FS_CardinalityType DEF ExistsBijection, CountLines
  <2>3. g \in [1 .. CountLines(i) -> content[i]] /\ \A a, b \in 1 .. CountLines(i) : g[a] = g[b] => a = b
    BY <2>2 DEF Bijection, Injection, IsInjective
  <2>4. Places \subseteq 1 .. CountLines(i)
    BY <2>1, Constants
  <2>5. [a \in Places |-> g[a]] \in Numberings(i)
    BY <2>3, <2>4
  <2> QED BY <2>5
<1>2. \A i \in S : numbered[i] \in Numberings(i)
  BY <1>1
<1>3. \A p \in S \X Places : line[p] = numbered[p[1]][p[2]] /\ line[p] \in content[p[1]]
  <2> HIDE DEF numbered
  <2>1. \A i \in S : \A a \in Places : numbered[i][a] \in content[i]
    BY <1>2
  <2> QED BY <2>1
<1>4. \A i, j \in Indices : i # j => content[i] \cap content[j] = {}
  <2> SUFFICES ASSUME NEW i \in Indices, NEW j \in Indices, i < j PROVE content[i] \cap content[j] = {}
    BY DEF Indices
  <2>1. \A m \in content[i] : m \in Nat
    BY DEF Types
  <2> QED BY <2>1 DEF Ordered
<1>5. line \in [S \X Places -> Retained]
  <2>1. \A p \in S \X Places : p[1] \in Indices
    OBVIOUS
  <2>2. \A p \in S \X Places : line[p] \in Retained
    <3> SUFFICES ASSUME NEW p \in S \X Places PROVE line[p] \in Retained
      OBVIOUS
    <3>1. p[1] \in Indices /\ line[p] \in content[p[1]]
      BY <1>3, <2>1
    <3> HIDE DEF line
    <3> QED BY <3>1 DEF Retained
  <2>3. DOMAIN line = S \X Places /\ line = [p \in S \X Places |-> line[p]]
    OBVIOUS
  <2> HIDE DEF line, Places
  <2> QED BY <2>2, <2>3
<1>6. ASSUME NEW p \in S \X Places, NEW q \in S \X Places, line[p] = line[q]
      PROVE  p = q
  <2>1. p[1] \in S /\ q[1] \in S /\ p[2] \in Places /\ q[2] \in Places /\ p = <<p[1], p[2]>> /\ q = <<q[1], q[2]>>
    BY <1>6
  <2>2. p[1] = q[1]
    BY <1>3, <1>4, <1>6, <2>1
  <2>3. p[2] = q[2]
    <3> HIDE DEF numbered, line
    <3>1. numbered[p[1]][p[2]] = numbered[p[1]][q[2]]
      BY <1>3, <1>6, <2>2
    <3>2. \A a, b \in Places : numbered[p[1]][a] = numbered[p[1]][b] => a = b
      BY <1>2, <2>1
    <3> HIDE DEF Places
    <3> QED BY <2>1, <3>1, <3>2
  <2> QED BY <2>1, <2>2, <2>3
<1>7. line \in Injection(S \X Places, Retained)
  BY <1>5, <1>6 DEF Injection, IsInjective
<1>8. IsFiniteSet(S) /\ IsFiniteSet(Places) /\ Cardinality(Places) = LOG_LINES_PER_FILE
  <2>1. IsFiniteSet(S)
    BY FiniteFiles, FS_Subset
  <2>2. IsFiniteSet(Places) /\ Cardinality(Places) = LOG_LINES_PER_FILE
    BY FS_Interval, Constants
  <2> QED BY <2>1, <2>2
<1>9. Cardinality(S \X Places) = Cardinality(S) * LOG_LINES_PER_FILE
  BY <1>8, FS_Product
<1>10. Cardinality(S \X Places) <= Cardinality(Retained)
  BY <1>7, FiniteFiles, FS_Injection
<1>11. Cardinality(S) * LOG_LINES_PER_FILE \in Nat
  BY <1>8, FS_CardinalityType, Constants
<1> QED BY <1>9, <1>10, <1>11, FiniteFiles

\* Steps that leave the files alone leave the holes where they are.
LEMMA SameFiles ==
    ASSUME UNCHANGED <<content, written>>
    PROVE  Holes' = Holes /\ \A i \in Indices : CountLines(i)' = CountLines(i) /\ Full(i)' = Full(i)
BY DEF Holes, Hole, CountLines, Full

\* One hole more does not count while files are moved.
LEMMA HolesCounted ==
    ASSUME KeptInv
    PROVE  Cardinality(Holes) <= IF pc = "shift" THEN broken + 1 ELSE broken
<1>1. IsFiniteSet(Holes) /\ Cardinality(Holes) \in Nat /\ broken \in Nat
  BY FiniteHoles, FS_CardinalityType DEF KeptInv, FewHoles
<1>2. Cardinality(Holes \ {index + 1}) =
          IF index + 1 \in Holes THEN Cardinality(Holes) - 1 ELSE Cardinality(Holes)
  BY <1>1, FS_RemoveElement
<1>3. CASE pc = "shift"
  BY <1>1, <1>2, <1>3 DEF KeptInv, FewHoles, Counted
<1>4. CASE pc # "shift"
  BY <1>4 DEF KeptInv, FewHoles, Counted
<1> QED BY <1>3, <1>4

\* No more holes are counted where the set of those counted has not grown.
LEMMA FewerHoles ==
    ASSUME KeptInv, NEW S \in SUBSET Holes
    PROVE  Cardinality(S) <= Cardinality(Holes) /\ Cardinality(S) \in Nat /\ Cardinality(Holes) \in Nat
BY FiniteHoles, FS_Subset, FS_CardinalityType

LEMMA InitKept == Init => KeptInv
<1> SUFFICES ASSUME Init PROVE KeptInv
  OBVIOUS
<1> USE Bounds, Constants
<1>1. /\ written = 0 /\ broken = 0 /\ uncounted = 0 /\ there = {} /\ pc = "off"
      /\ \A i \in Indices : content[i] = {}
  BY DEF Init
<1>2. \A i \in Indices : CountLines(i) = 0
  BY <1>1, FS_EmptySet DEF CountLines
<1>3. Holes = {}
  BY <1>1 DEF Holes, Hole
<1>4. FewHoles
  BY <1>1, <1>3, FS_EmptySet DEF FewHoles, Counted
<1>5. FullFiles
  BY <1>1, <1>2 DEF FullFiles
<1> QED BY <1>4, <1>5 DEF KeptInv

\* The steps that leave the files alone, or only make agpeer.log.
LEMMA QuietKept ==
    ASSUME IInv, KeptInv,
           \/ Open \/ Reopen \/ Stop \/ List \/ EndSearch \/ UNCHANGED vars
           \/ \E i \in Indices : Read(i)
           \/ index \in there /\ FallSilent /\ broken' = broken + 1 /\ pc = "shift"
                 /\ UNCHANGED <<there, content, index, written, uncounted>>
    PROVE  KeptInv'
<1> USE Bounds, Constants
<1>1. /\ UNCHANGED <<content, written, uncounted>>
      /\ there' = there \/ there' = there \cup {0}
  BY DEF Open, Reopen, Stop, List, EndSearch, Read, FallSilent, vars
<1>2. Types /\ 0 \in Indices
  BY DEF IInv, WriterInv
<1>3. /\ Holes' = Holes
      /\ \A i \in Indices : CountLines(i)' = CountLines(i) /\ Full(i)' = Full(i) /\ CountLines(i) \in Nat
  BY <1>1, <1>2, SameFiles, FiniteFiles
<1>4. FewHoles'
  <2>1. CASE UNCHANGED <<pc, index, broken>>
    BY <1>3, <2>1 DEF KeptInv, FewHoles, Counted
  <2>2. CASE pc' # "shift" /\ broken' = IF pc = "shift" THEN broken + 1 ELSE broken
    BY <1>3, <2>2, HolesCounted DEF KeptInv, FewHoles, Counted
  <2> QED BY <2>1, <2>2 DEF Open, Reopen, Stop, List, EndSearch, Read, FallSilent, vars
<1>5. FullFiles'
  <2>1. \A i \in there' \ {0} : Full(i)'
    BY <1>1, <1>2, <1>3 DEF KeptInv, FullFiles, Types
  <2>2. /\ uncounted' \in Nat
        /\ \A i \in Indices : \E n \in Sizes : CountLines(i)' < LOG_LINES_PER_FILE + n + uncounted'
    BY <1>1, <1>3 DEF KeptInv, FullFiles
  <2>3. /\ pc' \in {"rotate", "shift"} => 0 \in there' /\ Full(0)'
        /\ pc' = "ready" => CountedLines' /\ lines' < LOG_LINES_PER_FILE
        /\ pc' = "reopen" => 0 \notin there'
    <3>1. CASE UNCHANGED <<pc, there, lines>>
      BY <1>1, <1>2, <1>3, <3>1 DEF KeptInv, FullFiles, CountedLines
    <3>2. CASE Open
      BY <1>1, <1>2, <1>3, <3>2 DEF Open, FallSilent, Full, KeptInv, FullFiles, CountedLines
    <3>3. CASE Reopen
      <4>1. pc = "reopen" /\ 0 \notin there
        BY <3>3 DEF Reopen, KeptInv, FullFiles
      <4>2. CountLines(0) = 0
        BY <1>2, <4>1, FiniteFiles DEF Types
      <4> QED BY <1>1, <1>2, <1>3, <3>3, <4>2 DEF Reopen, FallSilent, KeptInv, FullFiles, CountedLines
    <3>4. CASE pc' \in {"off", "silent"}
      BY <3>4
    <3> QED BY <3>1, <3>2, <3>3, <3>4 DEF Stop, List, EndSearch, Read, FallSilent, vars
  <2> QED BY <2>1, <2>2, <2>3 DEF FullFiles, Indices
<1> QED BY <1>4, <1>5 DEF KeptInv

\* Lines are added to agpeer.log: no hole comes or goes, and the other files stay.
LEMMA AppendKept ==
    ASSUME IInv, NEW k \in Nat, Append(k)
    PROVE  /\ Holes' = Holes /\ CountLines(0)' = CountLines(0) + k
           /\ \A i \in Indices \ {0} : CountLines(i)' = CountLines(i) /\ Full(i)' = Full(i)
<1> USE Bounds, Constants
<1> DEFINE new == written + 1 .. written + k
<1>1. /\ written \in Nat /\ written' = written + k /\ 0 \in Indices
      /\ content \in [Indices -> SUBSET (1 .. written)] /\ Types
  BY DEF Append, IInv, WriterInv, Types
<1>2. content' = [content EXCEPT ![0] = @ \cup new]
  BY DEF Append
<1>3. \A i \in Indices : content'[i] = IF i = 0 THEN content[0] \cup new ELSE content[i]
  BY <1>1, <1>2
<1>4. Holes' = Holes
  <2>1. ASSUME NEW i \in Indices, i > 0
        PROVE  Hole(i)' <=> Hole(i)
    <3>1. content'[i] = content[i] /\ 0 \in 0 .. i /\ 0 .. i \subseteq Indices
      BY <1>3, <2>1 DEF Indices
    <3>2. ASSUME NEW m \in 1 .. written', \A j \in 0 .. i : m \notin content'[j]
          PROVE  m \in 1 .. written /\ \A j \in 0 .. i : m \notin content[j]
      BY <1>1, <1>3, <3>1, <3>2
    <3>3. ASSUME NEW m \in 1 .. written, \A j \in 0 .. i : m \notin content[j]
          PROVE  m \in 1 .. written' /\ \A j \in 0 .. i : m \notin content'[j]
      BY <1>1, <1>3, <3>1, <3>3
    <3> QED BY <3>1, <3>2, <3>3 DEF Hole
  <2> QED BY <2>1 DEF Holes, Hole, Indices
<1>5. CountLines(0)' = CountLines(0) + k /\ CountLines(0) \in Nat
  <2> PICK a \in Int : a = written + 1
    BY <1>1
  <2> PICK b \in Int : b = written + k
    BY <1>1
  <2>1. IsFiniteSet(content[0]) /\ Cardinality({}) = 0 /\ CountLines(0) = Cardinality(content[0])
    BY <1>1, FiniteFiles, FS_EmptySet DEF CountLines
  <2>2. IsFiniteSet(a .. b) /\ Cardinality(a .. b) = IF a > b THEN 0 ELSE b - a + 1
    BY FS_Interval
  <2>3. Cardinality(a .. b) = k
    BY <1>1, <2>2
  <2>4. content[0] \cap (a .. b) = {}
    BY <1>1
  <2>5. Cardinality(content[0] \cup (a .. b))
            = Cardinality(content[0]) + Cardinality(a .. b) - Cardinality(content[0] \cap (a .. b))
    BY ONLY <2>1, <2>2, FS_Union
  <2>6. CountLines(0)' = Cardinality(content[0] \cup (a .. b))
    BY <1>1, <1>3 DEF CountLines
  <2>7. CountLines(0) \in Nat
    BY <1>1, FiniteFiles
  <2>8. Cardinality(content[0] \cap (a .. b)) = 0
    BY ONLY <2>1, <2>4
  <2>9. CountLines(0)' = CountLines(0) + k - 0
    BY ONLY <2>1, <2>3, <2>5, <2>6, <2>8
  <2> QED BY ONLY <2>7, <2>9, k \in Nat
<1>6. \A i \in Indices \ {0} : CountLines(i)' = CountLines(i) /\ Full(i)' = Full(i)
  BY <1>3 DEF CountLines, Full
<1> QED BY <1>4, <1>5, <1>6

LEMMA WriteRecordKept ==
    ASSUME IInv, KeptInv, NEW n \in Sizes, WriteRecord(n)
    PROVE  KeptInv'
<1> USE Bounds, Constants
<1>1. /\ pc = "ready" /\ UNCHANGED <<there, index, broken>> /\ 0 \in Indices /\ Types
      /\ \A i \in Indices : CountLines(i) \in Nat
  BY RecordAppended, FiniteFiles DEF IInv, WriterInv
<1>2. /\ CountedLines /\ lines < LOG_LINES_PER_FILE /\ uncounted \in Nat
      /\ \A i \in there \ {0} : Full(i)
      /\ \A i \in Indices : \E b \in Sizes : CountLines(i) < LOG_LINES_PER_FILE + b + uncounted
  BY <1>1 DEF KeptInv, FullFiles
<1>3. PICK k \in Nat :
          /\ Append(k)
          /\ \/ /\ k = n /\ lines' = lines + n /\ uncounted' = uncounted
                /\ pc' = IF lines + n >= LOG_LINES_PER_FILE THEN "rotate" ELSE "ready"
             \/ lines' = lines /\ uncounted' = uncounted + k /\ pc' = pc
  BY DEF WriteRecord
<1>4. /\ Holes' = Holes /\ CountLines(0)' = CountLines(0) + k
      /\ \A i \in Indices \ {0} : CountLines(i)' = CountLines(i) /\ Full(i)' = Full(i)
  BY <1>3, AppendKept
<1>5. lines \in Int
  BY <1>2, <1>3 DEF CountedLines
<1>6. /\ uncounted' \in Nat /\ uncounted <= uncounted' /\ CountedLines'
      /\ CountLines(0)' < LOG_LINES_PER_FILE + n + uncounted'
      /\ pc' = "ready" => lines' < LOG_LINES_PER_FILE
      /\ pc' # "ready" => pc' = "rotate" /\ Full(0)'
  <2>1. PICK c \in Nat : CountLines(0) = c /\ CountLines(0)' = c + k
    BY <1>1, <1>4
  <2>2. PICK l \in Nat, u \in Nat : l = lines /\ u = uncounted
    BY <1>2 DEF CountedLines
  <2>3. l <= c /\ c <= l + u /\ l < LOG_LINES_PER_FILE
    BY ONLY <1>2, <2>1, <2>2 DEF CountedLines
  <2>4. n \in Nat /\ n > 0 /\ LOG_LINES_PER_FILE \in Nat
    OBVIOUS
  <2>5. PICK a \in Nat, b \in Nat :
            /\ lines' = l + a /\ uncounted' = u + b /\ a + b = k
            /\ \/ a = k /\ k = n /\ pc' = IF l + n >= LOG_LINES_PER_FILE THEN "rotate" ELSE "ready"
               \/ a = 0 /\ pc' = "ready"
    <3>1. CASE /\ k = n /\ lines' = lines + n /\ uncounted' = uncounted
               /\ pc' = IF lines + n >= LOG_LINES_PER_FILE THEN "rotate" ELSE "ready"
      <4>1. lines' = l + k /\ uncounted' = u + 0 /\ k + 0 = k
        BY ONLY <2>2, <3>1, k \in Nat, u \in Nat
      <4> QED BY <2>2, <3>1, <4>1
    <3>2. CASE lines' = lines /\ uncounted' = uncounted + k /\ pc' = pc
      <4>1. lines' = l + 0 /\ uncounted' = u + k /\ 0 + k = k
        BY ONLY <2>2, <3>2, k \in Nat, l \in Nat
      <4> QED BY <1>1, <3>2, <4>1
    <3> QED BY <1>3, <3>1, <3>2
  <2>6. /\ u + b \in Nat /\ u <= u + b /\ l + a \in Nat /\ l + a <= c + k /\ c + k <= l + a + (u + b)
        /\ c + k < LOG_LINES_PER_FILE + n + (u + b)
    BY ONLY <2>3, <2>4, <2>5, k \in Nat, c \in Nat, l \in Nat, u \in Nat, a \in Nat, b \in Nat
  <2>7. /\ pc' = "ready" => l + a < LOG_LINES_PER_FILE
        /\ pc' # "ready" => pc' = "rotate" /\ c + k >= LOG_LINES_PER_FILE
    BY ONLY <2>3, <2>4, <2>5, k \in Nat, c \in Nat, l \in Nat, a \in Nat
  <2> QED BY ONLY <2>1, <2>2, <2>5, <2>6, <2>7 DEF CountedLines, Full
<1>7. \A i \in Indices : \E b \in Sizes : CountLines(i)' < LOG_LINES_PER_FILE + b + uncounted'
  <2> SUFFICES ASSUME NEW i \in Indices
               PROVE  \E b \in Sizes : CountLines(i)' < LOG_LINES_PER_FILE + b + uncounted'
    OBVIOUS
  <2>1. CASE i = 0
    BY <1>6, <2>1
  <2>2. CASE i # 0
    <3>1. PICK b \in Sizes : CountLines(i) < LOG_LINES_PER_FILE + b + uncounted
      BY <1>2
    <3>2. CountLines(i)' = CountLines(i) /\ CountLines(i) \in Nat
      BY ONLY <1>1, <1>4, <2>2, i \in Indices
    <3>3. \A m, c, u, v \in Nat : c < m + u /\ u <= v => c < m + v
      OBVIOUS
    <3>4. LOG_LINES_PER_FILE + b \in Nat
      OBVIOUS
    <3>5. CountLines(i)' < LOG_LINES_PER_FILE + b + uncounted'
      BY ONLY <1>2, <1>6, <3>1, <3>2, <3>3, <3>4
    <3> QED BY <3>5
  <2> QED BY <2>1, <2>2
<1>8. 0 \in there' /\ \A i \in there' \ {0} : Full(i)'
  BY <1>1, <1>2, <1>4 DEF Types
<1>9. FullFiles'
  BY <1>6, <1>7, <1>8 DEF FullFiles, Indices
<1> QED BY <1>1, <1>3, <1>4, <1>9 DEF KeptInv, FewHoles, Counted

LEMMA RemoveOldestKept == IInv /\ KeptInv /\ RemoveOldest => KeptInv'
<1> SUFFICES ASSUME IInv, KeptInv, RemoveOldest PROVE KeptInv'
  OBVIOUS
<1> USE Bounds, Constants
<1>1. /\ content \in [Indices -> SUBSET (1 .. written)] /\ Types /\ 0 \in Indices /\ Last # 0 /\ Last \in Nat
  BY DEF IInv, WriterInv, Types
<1>2. /\ pc = "rotate" /\ pc' = "shift" /\ index' + 1 = Last /\ UNCHANGED <<lines, written, uncounted, broken>>
      /\ \/ there' = there \ {Last} /\ content' = [content EXCEPT ![Last] = {}]
         \/ UNCHANGED <<there, content>>
  BY DEF RemoveOldest, Last
<1>a. uncounted \in Nat /\ uncounted' = uncounted
  BY <1>2 DEF KeptInv, FullFiles
<1>3. /\ \A i \in Indices \ {Last} : content'[i] = content[i]
      /\ content'[Last] = {} \/ content'[Last] = content[Last]
      /\ there' \subseteq there /\ (0 \in there => 0 \in there')
      /\ \A i \in there' : content'[i] = content[i]
  BY <1>1, <1>2 DEF Types
<1>4. Holes' \ {Last} \subseteq Holes
  <2> SUFFICES ASSUME NEW i \in Indices, i # Last, Hole(i)' PROVE Hole(i)
    BY DEF Holes, Indices
  <2>1. 0 .. i \subseteq Indices \ {Last} /\ content'[i] = content[i]
    BY <1>3
  <2>2. \A j \in 0 .. i : content'[j] = content[j]
    BY <1>3, <2>1
  <2> QED BY <1>2, <2>1, <2>2 DEF Hole
<1>5. FewHoles'
  <2>1. Counted' = Holes' \ {Last}
    BY <1>2 DEF Counted
  <2>2. Cardinality(Holes' \ {Last}) <= Cardinality(Holes) /\ Cardinality(Holes' \ {Last}) \in Nat
        /\ Cardinality(Holes) \in Nat
    BY <1>4, FewerHoles
  <2> QED BY <1>2, <2>1, <2>2, HolesCounted DEF KeptInv, FewHoles
<1>6. FullFiles'
  <2>1. \A i \in Indices : content'[i] = content[i] => CountLines(i)' = CountLines(i) /\ Full(i)' = Full(i)
    BY DEF CountLines, Full
  <2>2. \A i \in there' \ {0} : Full(i)'
    BY <1>1, <1>3, <2>1 DEF KeptInv, FullFiles, Types
  <2>3. 0 \in there' /\ Full(0)'
    BY <1>1, <1>2, <1>3, <2>1 DEF KeptInv, FullFiles
  <2>4. \A i \in Indices : \E n \in Sizes : CountLines(i)' < LOG_LINES_PER_FILE + n + uncounted'
    <3>1. CASE content'[Last] = {}
      <4>1. CountLines(Last)' = 0
        BY <3>1, FS_EmptySet DEF CountLines
      <4>2. \E n \in Sizes : CountLines(Last)' < LOG_LINES_PER_FILE + n + uncounted'
        BY <1>a, <4>1
      <4> QED BY <1>a, <1>3, <2>1, <4>2 DEF KeptInv, FullFiles
    <3>2. CASE content'[Last] = content[Last]
      BY <1>a, <1>3, <2>1, <3>2 DEF KeptInv, FullFiles
    <3> QED BY <1>3, <3>1, <3>2
  <2> QED BY <1>a, <1>2, <2>2, <2>3, <2>4 DEF FullFiles, Indices
<1> QED BY <1>5, <1>6 DEF KeptInv

\* One rename of the loop: the hole that does not count moves down, those above stay.
LEMMA ShiftKept == IInv /\ KeptInv /\ Shift => KeptInv'
<1> SUFFICES ASSUME IInv, KeptInv, Shift PROVE KeptInv'
  OBVIOUS
<1> USE Bounds, Constants
<1>1. /\ content \in [Indices -> SUBSET (1 .. written)] /\ Types /\ written' = written
      /\ index \in Indices /\ index + 1 \in Indices /\ 0 \in Indices /\ index \in Nat
  BY DEF IInv, WriterInv, Types, Shift
<1>a. uncounted' = uncounted /\ uncounted \in Nat
  BY DEF Shift, KeptInv, FullFiles
<1>2. pc = "shift" /\ 0 \in there /\ Full(0)
  BY DEF Shift, KeptInv, FullFiles
<1>3. CASE index \in there /\ FallSilent /\ broken' = broken + 1 /\ UNCHANGED <<there, content, index>>
  BY <1>1, <1>a, <1>2, <1>3, QuietKept
<1>4. ASSUME Rename(index), UNCHANGED broken,
             IF index = 0 THEN pc' = "reopen" /\ index' = 0 ELSE index' = index - 1 /\ pc' = pc
      PROVE  KeptInv'
  <2> PICK x \in Indices : x = index /\ x \in Nat
    BY <1>1
  <2>1. Counted' = Holes' \ {x}
    <3>1. 0 \notin Holes'
      BY DEF Holes, Hole
    <3> QED BY <1>1, <1>2, <1>4, <3>1 DEF Counted
  <2>2. broken' = broken /\ broken \in Nat /\ Cardinality(Holes \ {x + 1}) <= broken
    BY <1>2, <1>4 DEF KeptInv, FewHoles, Counted
  <2>3. CASE x \in there
    <3>1. \A j \in Indices : content'[j] = IF j = x + 1 THEN content[x]
                                           ELSE IF j = x THEN {} ELSE content[j]
      BY <1>2, <1>4, <2>3, MovedUp, <1>1 DEF IInv
    <3>2. there' = (there \ {x}) \cup {x + 1}
      BY <1>4, <2>3 DEF Rename
    <3>3. Full(x) /\ content[x] # {}
      <4>1. Full(x)
        BY <1>2, <2>3 DEF KeptInv, FullFiles
      <4> QED BY <1>1, <4>1, FiniteFiles DEF Full
    <3>4. /\ CountLines(x + 1)' = CountLines(x) /\ Full(x + 1)' = Full(x)
          /\ \A i \in Indices \ {x, x + 1} : CountLines(i)' = CountLines(i) /\ Full(i)' = Full(i)
      BY <1>1, <3>1 DEF CountLines, Full
    <3>5. CountLines(x)' = 0
      BY <1>1, <3>1, FS_EmptySet DEF CountLines
    <3>6. FullFiles'
      <4>1. \A i \in there' \ {0} : Full(i)'
        BY <1>1, <3>2, <3>3, <3>4 DEF KeptInv, FullFiles, Types
      <4>2. \A i \in Indices : \E n \in Sizes : CountLines(i)' < LOG_LINES_PER_FILE + n + uncounted'
        <5>1. \E n \in Sizes : CountLines(x)' < LOG_LINES_PER_FILE + n + uncounted'
          BY <1>a, <3>5
        <5> QED BY <1>1, <1>a, <3>4, <5>1 DEF KeptInv, FullFiles
      <4>3. pc' = "shift" => 0 \in there' /\ Full(0)'
        BY <1>1, <1>2, <1>4, <3>2, <3>4
      <4>4. pc' = "reopen" => 0 \notin there'
        BY <1>1, <1>2, <1>4, <3>2
      <4> QED BY <1>a, <1>2, <1>4, <4>1, <4>2, <4>3, <4>4 DEF FullFiles, Indices
    <3>7. Holes' \ {x} \subseteq Holes \ {x + 1}
      <4> SUFFICES ASSUME NEW i \in Indices, i # x, Hole(i)' PROVE Hole(i) /\ i # x + 1
        BY DEF Holes, Indices
      <4>1. i # x + 1
        BY <1>1, <3>1, <3>3 DEF Hole
      <4>2. PICK m \in 1 .. written : \A j \in 0 .. i : m \notin content'[j]
        BY <1>1 DEF Hole
      <4>3. content[i] = {} /\ i > 0
        BY <3>1, <4>1 DEF Hole
      <4>4. ASSUME NEW j \in 0 .. i, m \in content[j] PROVE FALSE
        <5>1. j \in Indices /\ i \in Nat /\ i <= Last
          OBVIOUS
        <5>2. CASE j = x
          BY <1>1, <3>1, <4>1, <4>2, <4>4, <5>1, <5>2
        <5>3. CASE j = x + 1
          <6>1. x + 1 < i
            BY <1>1, <4>1, <5>1, <5>3
          <6>2. content[x + 1] = {}
            BY <1>1, <1>2, <5>1, <6>1 DEF IInv, WriterInv, SlotFree
          <6> QED BY <4>4, <5>3, <6>2
        <5>4. CASE j # x /\ j # x + 1
          BY <3>1, <4>2, <4>4, <5>1, <5>4
        <5> QED BY <5>2, <5>3, <5>4
      <4> QED BY <4>1, <4>3, <4>4 DEF Hole
    <3>8. FewHoles'
      <4>1. IsFiniteSet(Holes \ {x + 1})
        BY FiniteHoles, FS_RemoveElement
      <4>2. Cardinality(Counted') <= Cardinality(Holes \ {x + 1})
            /\ Cardinality(Counted') \in Nat /\ Cardinality(Holes \ {x + 1}) \in Nat
        BY <2>1, <3>7, <4>1, FS_Subset, FS_CardinalityType
      <4>3. Cardinality(Counted') <= broken'
        BY <2>2, <4>2
      <4> QED BY <2>2, <4>3 DEF FewHoles
    <3> QED BY <3>6, <3>8 DEF KeptInv
  <2>4. CASE x \notin there
    <3>1. UNCHANGED <<content, there>> /\ x > 0 /\ content[x] = {}
      BY <1>1, <1>2, <1>4, <2>4 DEF Rename, Types
    <3>2. /\ Holes' = Holes
          /\ \A i \in Indices : CountLines(i)' = CountLines(i) /\ Full(i)' = Full(i)
      BY <1>1, <3>1, SameFiles
    <3>3. FullFiles'
      <4>1. \A i \in there' \ {0} : Full(i)'
        BY <1>1, <3>1, <3>2 DEF KeptInv, FullFiles, Types
      <4>2. \A i \in Indices : \E n \in Sizes : CountLines(i)' < LOG_LINES_PER_FILE + n + uncounted'
        BY <1>a, <3>2 DEF KeptInv, FullFiles
      <4>3. pc' = "shift" /\ 0 \in there' /\ Full(0)'
        BY <1>1, <1>2, <1>4, <3>1, <3>2
      <4> QED BY <1>a, <4>1, <4>2, <4>3 DEF FullFiles, Indices
    <3>4. x + 1 \in Holes => x \in Holes
      BY <1>1, <3>1 DEF Holes, Hole
    <3>5. /\ Cardinality(Holes) \in Nat
          /\ \A y : Cardinality(Holes \ {y}) =
                      IF y \in Holes THEN Cardinality(Holes) - 1 ELSE Cardinality(Holes)
      BY FiniteHoles, FS_RemoveElement, FS_CardinalityType
    <3>6. Cardinality(Holes \ {x}) <= Cardinality(Holes \ {x + 1})
      BY <3>4, <3>5
    <3>7. Cardinality(Holes \ {x}) \in Int /\ Cardinality(Holes \ {x + 1}) \in Int
      <4>1. IsFiniteSet(Holes \ {x}) /\ IsFiniteSet(Holes \ {x + 1})
        BY FiniteHoles, FS_RemoveElement
      <4>2. Cardinality(Holes \ {x}) \in Nat /\ Cardinality(Holes \ {x + 1}) \in Nat
        BY <4>1, FS_CardinalityType
      <4> QED BY <4>2
    <3> QED BY <2>1, <2>2, <3>2, <3>3, <3>6, <3>7 DEF KeptInv, FewHoles
  <2> QED BY <2>3, <2>4
<1> QED BY <1>3, <1>4 DEF Shift

LEMMA NextKept == IInv /\ KeptInv /\ [Next]_vars => KeptInv'
<1> SUFFICES ASSUME IInv, KeptInv, [Next]_vars PROVE KeptInv'
  OBVIOUS
<1>1. CASE RemoveOldest
  BY <1>1, RemoveOldestKept
<1>2. CASE Shift
  BY <1>2, ShiftKept
<1>3. CASE \E k \in Sizes : WriteRecord(k)
  BY <1>3, WriteRecordKept
<1>4. CASE Open \/ Reopen \/ Stop \/ List \/ EndSearch \/ UNCHANGED vars \/ \E i \in Indices : Read(i)
  BY <1>4, QuietKept
<1> QED BY <1>1, <1>2, <1>3, <1>4 DEF Next

LEMMA IInvKept == IInv /\ KeptInv => Retention
<1> SUFFICES ASSUME IInv, KeptInv PROVE Retention
  OBVIOUS
<1> USE Bounds, Constants
<1>1. Types /\ Ordered
  BY DEF IInv, WriterInv
<1>2. \A i \in Indices : \E n \in Sizes : CountLines(i) < LOG_LINES_PER_FILE + n + uncounted
  BY DEF KeptInv, FullFiles
<1> DEFINE kept == Cardinality(Retained)
           most == (LOG_FILE_RETENTION - 1 - broken) * LOG_LINES_PER_FILE
<1>3. kept \in Nat /\ most \in Int /\ written \in Nat /\ broken \in Nat
  BY <1>1, FiniteFiles DEF KeptInv, FewHoles, Types
<1>4. ASSUME 1 .. written \subseteq Retained
      PROVE  kept = written
  <2>1. Retained = 1 .. written
    BY <1>1, <1>4, FiniteFiles
  <2> QED BY <1>3, <2>1, FS_Interval
<1>5. ASSUME NEW m \in 1 .. written, m \notin Retained
      PROVE  kept >= most
  <2> DEFINE Up == 1 .. Last
             S == (Up \ Holes) \cup (IF pc = "shift" THEN {0} ELSE {})
  <2>1. \A i \in Up : i \notin Holes => Full(i)
    <3> SUFFICES ASSUME NEW i \in Up, i \notin Holes PROVE Full(i)
      OBVIOUS
    <3>1. i \in Indices /\ i > 0 /\ ~Hole(i)
      BY DEF Holes
    <3>2. \A k \in 0 .. i : m \notin content[k]
      BY <1>5 DEF Retained
    <3>3. content[i] # {}
      BY <1>5, <3>1, <3>2 DEF Hole
    <3>4. i \in there
      BY <1>1, <3>1, <3>3 DEF Types
    <3> QED BY <3>1, <3>4 DEF KeptInv, FullFiles
  <2>2. S \in SUBSET Indices /\ \A i \in S : Full(i)
    BY <2>1 DEF KeptInv, FullFiles
  <2>3. kept >= Cardinality(S) * LOG_LINES_PER_FILE
    BY <1>1, <2>2, ManyLines
  <2>4. Cardinality(S) \in Nat /\ Cardinality(S) >= Last - broken
    <3>1. IsFiniteSet(Up) /\ Cardinality(Up) = Last /\ IsFiniteSet(Holes) /\ Holes \subseteq Up
      <4>1. IsFiniteSet(Up) /\ Cardinality(Up) = Last
        BY <1>3, FS_Interval
      <4>2. IsFiniteSet(Holes) /\ Holes \subseteq Indices
        BY FiniteHoles
      <4>3. \A i \in Holes : i # 0
        BY DEF Holes, Hole
      <4> QED BY <4>1, <4>2, <4>3
    <3>2. Cardinality(Up \ Holes) = Last - Cardinality(Holes) /\ IsFiniteSet(Up \ Holes)
      <4>1. Up \cap Holes = Holes
        BY <3>1
      <4> HIDE DEF Up
      <4>2. IsFiniteSet(Up \ Holes) /\ Cardinality(Up \ Holes) = Cardinality(Up) - Cardinality(Up \cap Holes)
        BY <3>1, FS_Difference
      <4> QED BY <3>1, <4>1, <4>2
    <3>3. Cardinality(Holes) \in Nat /\ Cardinality(Up \ Holes) \in Nat
      BY <3>1, <3>2, FS_CardinalityType
    <3>4. CASE pc = "shift"
      <4>1. Cardinality(Holes) <= broken + 1
        <5>1. Cardinality(Holes \ {index + 1}) <= broken
          BY <3>4 DEF KeptInv, FewHoles, Counted
        <5>2. Cardinality(Holes \ {index + 1}) =
                 IF index + 1 \in Holes THEN Cardinality(Holes) - 1 ELSE Cardinality(Holes)
          BY <3>1, FS_RemoveElement
        <5> QED BY <3>3, <5>1, <5>2, <1>3
      <4>2. S = (Up \ Holes) \cup {0} /\ 0 \notin Up \ Holes
        BY <3>4
      <4>3. Cardinality(S) = Cardinality(Up \ Holes) + 1
        BY <3>2, <4>2, FS_AddElement
      <4> QED BY <1>3, <3>2, <3>3, <4>1, <4>3
    <3>5. CASE pc # "shift"
      <4>1. Cardinality(Holes) <= broken
        BY <3>5 DEF KeptInv, FewHoles, Counted
      <4>2. S = Up \ Holes
        BY <3>5
      <4> HIDE DEF S, Up
      <4> QED BY <1>3, <3>2, <3>3, <4>1, <4>2
    <3> QED BY <3>4, <3>5
  <2> HIDE DEF S
  <2>5. Cardinality(S) * LOG_LINES_PER_FILE >= most
    <3>1. \A a, b, c \in Int : c > 0 /\ a >= b => a * c >= b * c
      OBVIOUS
    <3>2. Cardinality(S) \in Int /\ Last - broken \in Int /\ most = (Last - broken) * LOG_LINES_PER_FILE
      BY <1>3, <2>4
    <3> HIDE DEF most
    <3> QED BY <2>4, <3>1, <3>2
  <2>6. Cardinality(S) * LOG_LINES_PER_FILE \in Int
    BY <2>4
  <2> HIDE DEF most, kept
  <2> QED BY <1>3, <2>3, <2>5, <2>6
<1>6. kept >= AtMost(written, most)
  <2> HIDE DEF most, kept
  <2>1. kept = written \/ kept >= most
    BY <1>4, <1>5
  <2> QED BY <1>3, <2>1 DEF AtMost
<1> QED BY <1>2, <1>6 DEF Retention

-----------------------------------------------------------------------------
(* The rest of the types. *)

Locals ==
    /\ pc \in {"off", "ready", "rotate", "shift", "reopen", "silent"} /\ lines \in Nat
    /\ search.pc \in {"idle", "read"} /\ search.seen \subseteq 1 .. written
    /\ budget \in [{"stops", "faults", "searches"} -> Int]

\* Spending leaves the budgets integers.
LEMMA SpendType ==
    ASSUME budget \in [{"stops", "faults", "searches"} -> Int],
           NEW kind \in {"stops", "faults", "searches"}, Spend(kind)
    PROVE  budget' \in [{"stops", "faults", "searches"} -> Int]
BY DEF Spend

LEMMA InitLocals == Init => Locals
BY LogAssumption DEF Init, Locals, Idle

LEMMA NextLocals == IInv /\ Locals /\ [Next]_vars => Locals'
<1> SUFFICES ASSUME IInv, Locals, [Next]_vars PROVE Locals'
  OBVIOUS
<1>1. /\ written \in Nat /\ content \in [Indices -> SUBSET (1 .. written)] /\ 0 \in Indices
      /\ \A i \in Indices : CountLines(i) \in Nat
  BY Bounds, FiniteFiles DEF IInv, WriterInv, Types, Indices
<1>2. budget' \in [{"stops", "faults", "searches"} -> Int]
  <2>1. \/ UNCHANGED budget \/ Spend("faults") \/ Spend("stops") \/ Spend("searches")
    BY DEF Next, Open, WriteRecord, RemoveOldest, Shift, Reopen, Stop, List, Read, EndSearch, FallSilent, vars
  <2> QED BY <2>1, SpendType DEF Locals
<1>3. pc' \in {"off", "ready", "rotate", "shift", "reopen", "silent"}
  BY DEF Locals, Next, Open, WriteRecord, RemoveOldest, Shift, Reopen, Stop, List, Read, EndSearch, FallSilent, vars
<1>4. lines' \in Nat
  <2>1. ASSUME NEW k \in Sizes, WriteRecord(k) PROVE lines' \in Nat
    BY <2>1, Constants DEF Locals, WriteRecord
  <2>2. CASE Open
    BY <1>1, <2>2 DEF Locals, Open
  <2>3. CASE Reopen
    BY <2>3 DEF Locals, Reopen
  <2>4. CASE UNCHANGED lines
    BY <2>4 DEF Locals
  <2> QED BY <2>1, <2>2, <2>3, <2>4 DEF Next, RemoveOldest, Shift, Stop, List, Read, EndSearch, vars
<1>5. written' \in Nat /\ 1 .. written \subseteq 1 .. written'
  <2>1. ASSUME NEW k \in Sizes, WriteRecord(k) PROVE written' \in Nat /\ written <= written'
    BY <1>1, <2>1, RecordAppended DEF Append
  <2>2. CASE UNCHANGED written
    BY <1>1, <2>2
  <2>3. written' \in Nat /\ written <= written'
    <3>1. (\E k \in Sizes : WriteRecord(k)) \/ UNCHANGED written
      BY DEF Next, Open, RemoveOldest, Shift, Reopen, Stop, List, Read, EndSearch, vars
    <3> QED BY <2>1, <2>2, <3>1
  <2> QED BY <1>1, <2>3
<1>6. search'.pc \in {"idle", "read"} /\ search'.seen \subseteq 1 .. written
  <2>1. CASE List
    BY <2>1 DEF List
  <2>2. ASSUME NEW i \in Indices, Read(i) PROVE search'.pc \in {"idle", "read"} /\ search'.seen \subseteq 1 .. written
    BY <1>1, <2>2 DEF Locals, Read
  <2>3. CASE EndSearch
    BY <2>3 DEF EndSearch, Idle
  <2>4. CASE UNCHANGED search
    BY <2>4 DEF Locals
  <2> QED BY <2>1, <2>2, <2>3, <2>4 DEF Next, Open, WriteRecord, RemoveOldest, Shift, Reopen, Stop, vars
<1> QED BY <1>2, <1>3, <1>4, <1>5, <1>6 DEF Locals

\* A writer that is ready has agpeer.log and knows how many lines are in it, but for
\* records that failed halfway, one that reopens it has moved it away, and nothing is in the files or found by the search
\* that was not written: main.rs 53-138, debug-mcp lib.rs 296-355.
THEOREM TypeCorrect == Spec => []TypeOK
<1>1. IInv /\ KeptInv /\ Locals => TypeOK
  BY Bounds DEF IInv, WriterInv, Types, SearchTypes, KeptInv, FullFiles, CountedLines, FewHoles, Locals, TypeOK
<1> QED BY <1>1, InitIInv, NextIInv, InitKept, NextKept, InitLocals, NextLocals, PTL DEF Spec

\* Whatever fails and wherever the service dies, what is on disk are the last lines
\* written, each in one file and the older in the higher: main.rs 79-106.
THEOREM OldestGivenUp == Spec => []OnlyOldestGivenUp
BY InitIInv, NextIInv, IInvGivenUp, PTL DEF Spec

\* A search that runs beside the rotation and found no number missing finds every line
\* that stays, but what was moved beyond the files it listed: debug-mcp lib.rs 296-355.
THEOREM SearchFinds == Spec => []SearchFindsRetained
BY InitIInv, NextIInv, IInvFinds, PTL DEF Spec

\* However the records are sized, whatever fails and wherever the service dies: a file
\* grows to no more than its lines, one record and parts of failed ones, and of the lines written the files
\* keep as many as full files fit, but for one file for each interrupted rotation:
\* main.rs 53-55 and 58-126.
THEOREM KeepsFullFiles == Spec => []Retention
BY InitIInv, NextIInv, InitKept, NextKept, IInvKept, PTL DEF Spec
=============================================================================
