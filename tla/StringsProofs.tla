--------------------------- MODULE StringsProofs ----------------------------
(***************************************************************************)
(* Lemmas about the functions of Strings, for texts of any length: what    *)
(* the searches of the C library return, what pmap_ut_substr cuts out, and *)
(* into what pmap_ut_parse_url takes a URL apart.                          *)
(***************************************************************************)
EXTENDS Strings, SequenceTheorems, WellFoundedInduction, TLAPS

(* A set of numbers that is not empty has a least one. *)
LEMMA LeastNumber ==
  ASSUME NEW S \in SUBSET Nat, S # {}
  PROVE  Min(S) \in S /\ \A m \in S : Min(S) <= m
<1>1. IsWellFoundedOn(OpToRel(<, Nat), Nat)
  BY NatLessThanWellFounded
<1>2. PICK n \in S : \A m \in S : ~ (<< m, n >> \in OpToRel(<, Nat))
  BY <1>1, WFMin
<1>3. \A m \in S : << m, n >> \in OpToRel(<, Nat) <=> m < n
  BY DEF OpToRel
<1>4. ASSUME NEW m \in S PROVE n <= m
  <2>1. m \in Nat /\ n \in Nat
    OBVIOUS
  <2>2. ~(m < n)
    BY <1>2, <1>3
  <2> QED
    BY <2>1, <2>2
<1>5. \E k \in S : \A m \in S : k <= m
  BY <1>4
<1> QED
  BY <1>5 DEF Min

(* Induction over the numbers, with a set for the statement. *)
LEMMA SetInduction ==
  ASSUME NEW S, 0 \in S, \A n \in Nat : n \in S => n + 1 \in S
  PROVE  Nat \subseteq S
<1> SUFFICES ASSUME Nat \ S # {} PROVE FALSE
  OBVIOUS
<1>1. PICK n \in Nat \ S : \A m \in Nat \ S : n <= m
  BY LeastNumber
<1>2. n # 0 /\ n - 1 \in Nat
  BY <1>1
<1>3. n - 1 \in S
  BY <1>1, <1>2
<1> QED
  BY <1>1, <1>2, <1>3

(* The first of some places, or what stands for none. *)
LEMMA FirstOrIsFirst ==
  ASSUME NEW places \in SUBSET Nat, NEW none
  PROVE  \/ places = {} /\ FirstOr(places, none) = none
         \/ /\ FirstOr(places, none) \in places
            /\ \A i \in places : FirstOr(places, none) <= i
  BY LeastNumber DEF FirstOr

LEMMA FirstOrEnd ==
  ASSUME NEW n \in Nat, NEW places \in SUBSET (1 .. n)
  PROVE  /\ FirstOr(places, n + 1) \in 1 .. n + 1
         /\ FirstOr(places, n + 1) > n => places = {}
<1>1. places \in SUBSET Nat
  OBVIOUS
<1>2. \/ places = {} /\ FirstOr(places, n + 1) = n + 1
      \/ FirstOr(places, n + 1) \in places
  BY <1>1, FirstOrIsFirst
<1>3. PICK p : p = FirstOr(places, n + 1)
  OBVIOUS
<1>4. CASE places = {} /\ p = n + 1
  BY <1>3, <1>4
<1>5. CASE p \in places
  <2>1. p \in 1 .. n
    BY <1>5
  <2>2. p \in 1 .. n + 1 /\ ~(p > n)
    BY <2>1
  <2> QED
    BY <1>3, <2>2
<1> QED
  BY <1>2, <1>3, <1>4, <1>5

(* The place where a mark stands in a text, character by character. *)
Stands(text, mark, i) ==
  \A k \in DOMAIN mark : i + k - 1 <= Len(text) /\ text[i + k - 1] = mark[k]

LEMMA FoundIsWhereMarkStands ==
  ASSUME NEW text \in Text, NEW mark \in Mark, NEW from \in Nat \ {0}
  PROVE  /\ Found(text, mark, from) =
              { i \in from .. Len(text) : Stands(text, mark, i) }
         /\ \A i \in Found(text, mark, from) :
              /\ i \in from .. Len(text)
              /\ i + Len(mark) - 1 <= Len(text)
<1>1. Len(text) \in Nat /\ DOMAIN text = 1 .. Len(text)
  BY DEF Text
<1>2. Len(mark) \in Nat \ {0} /\ DOMAIN mark = 1 .. Len(mark)
  BY EmptySeq DEF Mark, Text
<1>3. ASSUME NEW i \in from .. Len(text)
      PROVE  i \in Found(text, mark, from) <=> Stands(text, mark, i)
  <2> DEFINE n == Len(mark)
             s == SubSeq(text, i, i + n - 1)
  <2>1. CASE i + n - 1 <= Len(text)
    <3>1. s \in Seq(Char) /\ Len(s) = n /\ \A k \in 1 .. n : s[k] = text[i + k - 1]
      BY <1>1, <1>2, <2>1 DEF Text
    <3>2. s = mark <=> \A k \in 1 .. n : s[k] = mark[k]
      BY <1>2, <3>1, SeqEqual DEF Mark, Text
    <3>3. i \in Found(text, mark, from) <=> s = mark
      BY <2>1 DEF Found
    <3>4. Stands(text, mark, i) <=> \A k \in 1 .. n : text[i + k - 1] = mark[k]
      BY <1>1, <1>2, <2>1 DEF Stands
    <3> QED
      BY <3>1, <3>2, <3>3, <3>4
  <2>2. CASE ~(i + n - 1 <= Len(text))
    <3>1. n \in DOMAIN mark
      BY <1>2
    <3>2. ~Stands(text, mark, i)
      BY <2>2, <3>1 DEF Stands
    <3> QED
      BY <2>2, <3>2 DEF Found
  <2> QED
    BY <2>1, <2>2
<1> QED
  BY <1>3 DEF Found

LEMMA StrstrIsFirst ==
  ASSUME NEW text \in Text, NEW mark \in Mark, NEW from \in Nat \ {0}
  PROVE  \/ /\ strstr(text, mark, from) = 0
            /\ \A i \in from .. Len(text) : ~Stands(text, mark, i)
         \/ /\ strstr(text, mark, from) \in from .. Len(text)
            /\ strstr(text, mark, from) + Len(mark) - 1 <= Len(text)
            /\ Stands(text, mark, strstr(text, mark, from))
            /\ \A i \in from .. strstr(text, mark, from) - 1 :
                 ~Stands(text, mark, i)
<1> DEFINE p == strstr(text, mark, from)
<1>1. Len(text) \in Nat
  BY DEF Text
<1>2. Found(text, mark, from) \in SUBSET Nat
  BY <1>1, FoundIsWhereMarkStands
<1>3. \/ Found(text, mark, from) = {} /\ p = 0
      \/ p \in Found(text, mark, from) /\ \A i \in Found(text, mark, from) : p <= i
  BY <1>2, FirstOrIsFirst DEF strstr
<1>4. CASE Found(text, mark, from) = {} /\ p = 0
  BY <1>4, FoundIsWhereMarkStands
<1>5. CASE p \in Found(text, mark, from) /\ \A i \in Found(text, mark, from) : p <= i
  <2>1. /\ p \in from .. Len(text)
        /\ p + Len(mark) - 1 <= Len(text)
        /\ Stands(text, mark, p)
    BY <1>5, FoundIsWhereMarkStands
  <2>2. ASSUME NEW i \in from .. p - 1, Stands(text, mark, i)
        PROVE  FALSE
    <3>1. i \in Found(text, mark, from)
      BY <1>1, <2>1, <2>2, FoundIsWhereMarkStands
    <3> QED
      BY <1>5, <2>1, <3>1
  <2> QED
    BY <2>1, <2>2
<1> QED
  BY <1>3, <1>4, <1>5

(* Trimming stops at the first character that is no blank. *)
LEMMA LtrimIsFirst ==
  ASSUME NEW text \in Text, NEW from \in Nat \ {0}
  PROVE  /\ \/ pmap_ut_ltrim(text, from) = Len(text) + 1
            \/ /\ pmap_ut_ltrim(text, from) \in from .. Len(text)
               /\ text[pmap_ut_ltrim(text, from)] \notin Space
         /\ \A k \in from .. pmap_ut_ltrim(text, from) - 1 : text[k] \in Space
<1> DEFINE p == pmap_ut_ltrim(text, from)
           places == { i \in from .. Len(text) : text[i] \notin Space }
<1>1. Len(text) \in Nat /\ places \in SUBSET Nat
  BY DEF Text
<1>2. \/ places = {} /\ p = Len(text) + 1
      \/ p \in places /\ \A i \in places : p <= i
  BY <1>1, FirstOrIsFirst DEF pmap_ut_ltrim
<1>3. ASSUME NEW k \in from .. p - 1
      PROVE  text[k] \in Space
  BY <1>1, <1>2
<1> QED
  BY <1>1, <1>2, <1>3

(* The first start mark, at i, and the first end mark after it, at j. *)
Marks(snippet, i, j) ==
  /\ i \in 1 .. Len(snippet.text) /\ j \in i + 1 .. Len(snippet.text)
  /\ i + Len(snippet.start) - 1 <= Len(snippet.text)
  /\ j + Len(snippet.end) - 1 <= Len(snippet.text)
  /\ Stands(snippet.text, snippet.start, i)
  /\ \A k \in 1 .. i - 1 : ~Stands(snippet.text, snippet.start, k)
  /\ Stands(snippet.text, snippet.end, j)
  /\ \A k \in i + 1 .. j - 1 : ~Stands(snippet.text, snippet.end, k)

Snippets == [text : Text, start : Mark, end : Mark]

(* What pmap_ut_substr returns when it finds the marks at i and j. *)
Cut(snippet, len, i, j) ==
  LET from == i + Len(snippet.start)
      p    == pmap_ut_ltrim(snippet.text, from)
      r    == pmap_ut_substr(snippet, len)
  IN  \/ ~Fits(j - from, len) /\ r = Failed(2)
      \/ Fits(j - from, len) /\ p > j /\ r = Undefined
      \/ /\ Fits(j - from, len) /\ p <= j
         /\ r = [ret |-> 0, buffer |-> SubSeq(snippet.text, p, j - 1)]

LEMMA SubstrByMarks ==
  ASSUME NEW snippet \in Snippets, NEW len \in Nat
  PROVE  \/ /\ pmap_ut_substr(snippet, len) = Failed(1)
            /\ \A i, j \in Nat : ~Marks(snippet, i, j)
         \/ \E i, j \in Nat : Marks(snippet, i, j) /\ Cut(snippet, len, i, j)
<1> DEFINE text  == snippet.text
           r     == pmap_ut_substr(snippet, len)
           start == strstr(text, snippet.start, 1)
           end   == strstr(text, snippet.end, start + 1)
           from  == start + Len(snippet.start)
           p     == pmap_ut_ltrim(text, from)
<1>1. text \in Text /\ snippet.start \in Mark /\ snippet.end \in Mark
  BY DEF Snippets
<1>2. Len(text) \in Nat /\ Len(snippet.start) \in Nat /\ Len(snippet.end) \in Nat
  BY <1>1 DEF Text, Mark
<1>3. \/ start = 0 /\ \A i \in 1 .. Len(text) : ~Stands(text, snippet.start, i)
      \/ /\ start \in 1 .. Len(text) /\ start + Len(snippet.start) - 1 <= Len(text)
         /\ Stands(text, snippet.start, start)
         /\ \A i \in 1 .. start - 1 : ~Stands(text, snippet.start, i)
  BY <1>1, StrstrIsFirst
<1>4. start \in Nat
  BY <1>2, <1>3
<1>5. r = IF start = 0 \/ end <= start THEN Failed(1)
          ELSE IF ~ Fits(end - from, len) THEN Failed(2)
          ELSE IF p > end THEN Undefined
          ELSE [ret |-> 0, buffer |-> SubSeq(text, p, end - 1)]
  BY DEF pmap_ut_substr, EndMark
<1>6. CASE start = 0
  <2>1. \A i, j \in Nat : ~Marks(snippet, i, j)
    BY <1>3, <1>6 DEF Marks
  <2>2. r = Failed(1)
    BY <1>5, <1>6
  <2> QED
    BY <2>1, <2>2
<1>7. CASE start # 0
  <2>1. start + 1 \in Nat \ {0}
    BY <1>4
  <2>2. \/ end = 0 /\ \A i \in start + 1 .. Len(text) : ~Stands(text, snippet.end, i)
        \/ /\ end \in start + 1 .. Len(text) /\ end + Len(snippet.end) - 1 <= Len(text)
           /\ Stands(text, snippet.end, end)
           /\ \A i \in start + 1 .. end - 1 : ~Stands(text, snippet.end, i)
    BY <1>1, <2>1, StrstrIsFirst
  <2>3. CASE end = 0
    <3>1. ASSUME NEW i \in Nat, NEW j \in Nat, Marks(snippet, i, j)
          PROVE  FALSE
      <4>1. i = start
        BY <1>2, <1>3, <1>4, <1>7, <3>1 DEF Marks
      <4> QED
        BY <1>2, <2>2, <2>3, <3>1, <4>1 DEF Marks
    <3>2. r = Failed(1)
      BY <1>4, <1>5, <2>3
    <3> QED
      BY <3>1, <3>2
  <2>4. CASE end # 0
    <3>1. Marks(snippet, start, end)
      BY <1>3, <1>7, <2>2, <2>4 DEF Marks
    <3>2. end \in Nat /\ ~(end <= start)
      BY <1>2, <1>4, <2>2, <2>4
    <3>3. r = IF ~ Fits(end - from, len) THEN Failed(2)
              ELSE IF p > end THEN Undefined
              ELSE [ret |-> 0, buffer |-> SubSeq(text, p, end - 1)]
      BY <1>5, <1>7, <3>2
    <3>4. p \in Nat
      <4>1. from \in Nat \ {0}
        BY <1>2, <1>4, <1>7
      <4> QED
        BY <1>1, <1>2, <4>1, LtrimIsFirst
    <3>5. p > end \/ p <= end
      BY <3>2, <3>4
    <3>6. Cut(snippet, len, start, end)
      BY <3>3, <3>5 DEF Cut
    <3> QED
      BY <1>4, <3>1, <3>2, <3>6
  <2> QED
    BY <2>3, <2>4
<1> QED
  BY <1>6, <1>7

-----------------------------------------------------------------------------
(* What a call of pmap_ut_substr shows *)

LEMMA MarkFits ==
  ASSUME NEW text \in Text, NEW mark \in Mark, NEW i \in Nat,
         Stands(text, mark, i)
  PROVE  i + Len(mark) - 1 <= Len(text)
<1>1. Len(mark) \in DOMAIN mark
  BY EmptySeq DEF Mark, Text
<1> QED
  BY <1>1 DEF Stands

LEMMA MarksAreUnique ==
  ASSUME NEW snippet \in Snippets,
         NEW i \in Nat, NEW j \in Nat, Marks(snippet, i, j),
         NEW k \in Nat, NEW l \in Nat, Marks(snippet, k, l)
  PROVE  i = k /\ j = l
<1>1. Len(snippet.text) \in Nat
  BY DEF Snippets, Text
<1>2. i = k
  BY <1>1 DEF Marks
<1> QED
  BY <1>1, <1>2 DEF Marks

(* The results differ in what they return. *)
LEMMA Results ==
  /\ Failed(1).ret = 1 /\ Failed(2).ret = 2 /\ Undefined.ret = -1
  /\ Failed(1).buffer = NULL /\ Failed(2).buffer = NULL /\ Undefined.buffer = NULL
  /\ \A r, b : r = [ret |-> 0, buffer |-> b] => r.ret = 0 /\ r.buffer = b
BY DEF Failed, Undefined

(* A call of pmap_ut_substr as the step Substr records it. *)
SubstrCalled ==
  /\ call.arg \in Snippets /\ call.len \in Nat
  /\ call.result = pmap_ut_substr(call.arg, call.len)

LEMMA SubstrFindsBetween ==
  ASSUME SubstrCalled
  PROVE  SubstrIsBetween
<1> DEFINE snippet == call.arg
           len     == call.len
           text    == snippet.text
           r       == call.result
           First(i) ==
             /\ Stands(text, snippet.start, i)
             /\ \A k \in 1 .. i - 1 : ~Stands(text, snippet.start, k)
           Ended(i, j) ==
             /\ i < j /\ Stands(text, snippet.end, j)
             /\ \A k \in i + 1 .. j - 1 : ~Stands(text, snippet.end, k)
           Leads(s) == Len(s) > 0 /\ s[1] \in Space
           Between(i, j, n) ==
             /\ First(i) /\ Ended(i, j)
             /\ n >= i + Len(snippet.start)
             /\ \A k \in i + Len(snippet.start) .. n - 1 : text[k] \in Space
             /\ r.buffer = SubSeq(text, n, j - 1)
             /\ ~ Leads(r.buffer)
<1>1. /\ snippet \in Snippets /\ len \in Nat
      /\ r = pmap_ut_substr(snippet, len)
  BY DEF SubstrCalled
<1>2. text \in Text /\ snippet.start \in Mark /\ snippet.end \in Mark
  BY <1>1 DEF Snippets
<1>3. Len(text) \in Nat /\ Len(snippet.start) \in Nat \ {0}
  BY <1>2, EmptySeq DEF Text, Mark
<1>4. SUFFICES ASSUME r.ret \in 0 .. 1
               PROVE  IF r.ret = 1
                      THEN ~ \E i, j \in 1 .. Len(text) : First(i) /\ Ended(i, j)
                      ELSE \E i, j, n \in 1 .. Len(text) : Between(i, j, n)
  BY DEF SubstrIsBetween, Stands
<1>5. CASE r = Failed(1) /\ \A i, j \in Nat : ~Marks(snippet, i, j)
  <2>1. SUFFICES ASSUME NEW i \in 1 .. Len(text), NEW j \in 1 .. Len(text),
                        First(i), Ended(i, j)
                 PROVE  FALSE
    BY <1>5 DEF Failed
  <2>2. i + Len(snippet.start) - 1 <= Len(text)
    BY <1>2, <1>3, <1>1, <2>1, MarkFits
  <2>3. j + Len(snippet.end) - 1 <= Len(text)
    BY <1>2, <1>3, <1>1, <2>1, MarkFits
  <2>4. Marks(snippet, i, j)
    BY <1>3, <2>1, <2>2, <2>3 DEF Marks
  <2> QED
    BY <1>3, <1>5, <2>4
<1>6. CASE ~(r = Failed(1) /\ \A i, j \in Nat : ~Marks(snippet, i, j))
  <2>1. PICK i \in Nat, j \in Nat : Marks(snippet, i, j) /\ Cut(snippet, len, i, j)
    BY <1>6, <1>1, SubstrByMarks
  <2> DEFINE from == i + Len(snippet.start)
             p    == pmap_ut_ltrim(text, from)
  <2>2. p <= j /\ r = [ret |-> 0, buffer |-> SubSeq(text, p, j - 1)]
    <3>1. r # Failed(2) /\ r # Undefined
      BY <1>4 DEF Failed, Undefined
    <3> QED
      BY <2>1, <1>1, <3>1 DEF Cut
  <2>3. /\ i \in 1 .. Len(text) /\ j \in 1 .. Len(text)
        /\ First(i) /\ Ended(i, j)
    BY <1>3, <2>1 DEF Marks
  <2>4. from \in Nat \ {0}
    BY <1>3
  <2>5. /\ p \in from .. Len(text)
        /\ text[p] \notin Space
        /\ \A k \in from .. p - 1 : text[k] \in Space
    BY <1>2, <1>3, <2>2, <2>3, <2>4, LtrimIsFirst
  <2>9. r.ret = 0 /\ r.buffer = SubSeq(text, p, j - 1)
    BY <2>2, Results, Zenon
  <2>6. ~ Leads(r.buffer)
    <3> SUFFICES ASSUME Len(SubSeq(text, p, j - 1)) > 0
                 PROVE  SubSeq(text, p, j - 1)[1] \notin Space
      BY <2>9
    <3>2. p \in 1 .. Len(text) /\ j - 1 \in 0 .. Len(text)
      BY <1>3, <2>3, <2>4, <2>5
    <3>3. Len(SubSeq(text, p, j - 1)) = IF p <= j - 1 THEN j - 1 - p + 1 ELSE 0
      BY <1>2, <3>2 DEF Text
    <3>4. p <= j - 1
      BY <3>2, <3>3
    <3>5. SubSeq(text, p, j - 1)[1] = text[p]
      BY <1>2, <3>2, <3>4 DEF Text
    <3> QED
      BY <2>5, <3>5
  <2>7. Between(i, j, p)
    BY <1>3, <2>9, <2>3, <2>5, <2>6
  <2>8. p \in 1 .. Len(text)
    BY <1>3, <2>4, <2>5
  <2>10. r.ret # 1
    BY <2>9
  <2> QED
    BY <2>10, <2>3, <2>7, <2>8
<1> QED
  BY <1>5, <1>6

LEMMA SubstrOfElementIsDefined ==
  ASSUME SubstrCalled,
         call.arg.end[1] = "<" =>
           \A k \in 2 .. Len(call.arg.start) : call.arg.start[k] # "<"
  PROVE  ElementsAreDefined
<1> DEFINE snippet == call.arg
           len     == call.len
           text    == snippet.text
           r       == call.result
<1>1. /\ snippet \in Snippets /\ len \in Nat
      /\ r = pmap_ut_substr(snippet, len)
  BY DEF SubstrCalled
<1>2. text \in Text /\ snippet.start \in Mark /\ snippet.end \in Mark
  BY <1>1 DEF Snippets
<1>3. /\ Len(text) \in Nat /\ Len(snippet.start) \in Nat \ {0}
      /\ DOMAIN snippet.start = 1 .. Len(snippet.start)
      /\ 1 \in DOMAIN snippet.end
  BY <1>2, EmptySeq DEF Text, Mark
<1>4. SUFFICES ASSUME snippet.end[1] = "<", r = Undefined
               PROVE  FALSE
  BY DEF ElementsAreDefined
<1>5. PICK i \in Nat, j \in Nat : Marks(snippet, i, j) /\ Cut(snippet, len, i, j)
  <2>1. r # Failed(1)
    BY <1>4, Results
  <2> QED
    BY <1>1, <2>1, SubstrByMarks
<1> DEFINE from == i + Len(snippet.start)
           p    == pmap_ut_ltrim(text, from)
<1>6. i \in 1 .. Len(text) /\ j \in i + 1 .. Len(text)
  BY <1>5 DEF Marks
<1>7. p > j
  <2>1. /\ r # Failed(2)
        /\ r # [ret |-> 0, buffer |-> SubSeq(text, p, j - 1)]
    BY <1>4, Results
  <2>2. \/ r = Failed(2) \/ p > j
        \/ r = [ret |-> 0, buffer |-> SubSeq(text, p, j - 1)]
    BY <1>1, <1>5 DEF Cut
  <2> QED
    BY <2>1, <2>2
<1>8. text[j] = "<"
  BY <1>3, <1>4, <1>5, <1>6 DEF Marks, Stands
<1>9. CASE from <= j
  <2>3. from \in Nat \ {0}
    BY <1>3, <1>6
  <2>1. p \in Nat /\ \A k \in from .. p - 1 : text[k] \in Space
    BY <1>2, <1>3, <2>3, LtrimIsFirst
  <2>2. text[j] \in Space
    BY <1>3, <1>7, <1>6, <1>9, <2>1
  <2> QED
    BY <1>8, <2>2 DEF Space
<1>10. CASE j < from
  <2>1. PICK k \in 2 .. Len(snippet.start) : i + k - 1 = j
    <3>1. j - i + 1 \in 2 .. Len(snippet.start) /\ i + (j - i + 1) - 1 = j
      BY <1>3, <1>6, <1>10
    <3> QED
      BY <3>1
  <2>2. text[j] = snippet.start[k]
    <3>1. Stands(text, snippet.start, i)
      BY <1>5 DEF Marks
    <3> QED
      BY <1>3, <2>1, <3>1 DEF Stands
  <2> QED
    BY <1>4, <1>8, <2>1, <2>2
<1> QED
  BY <1>3, <1>6, <1>9, <1>10

(* A part of a text is its beginning. *)
Begins(part, text) ==
  /\ part \in Text /\ Len(part) <= Len(text)
  /\ \A k \in 1 .. Len(part) : part[k] = text[k]

LEMMA PrefixesBegin ==
  ASSUME NEW text \in Text, NEW part \in Prefixes(text)
  PROVE  Begins(part, text)
<1>1. PICK n \in 0 .. Len(text) : part = SubSeq(text, 1, n)
  BY DEF Prefixes
<1> QED
  BY <1>1 DEF Begins, Text

LEMMA StandsInBeginning ==
  ASSUME NEW text \in Text, NEW part, Begins(part, text),
         NEW mark \in Mark, NEW i \in Nat \ {0}, i + Len(mark) - 1 <= Len(part)
  PROVE  Stands(part, mark, i) <=> Stands(text, mark, i)
<1>1. /\ Len(text) \in Nat /\ Len(part) \in Nat /\ Len(mark) \in Nat
      /\ DOMAIN mark = 1 .. Len(mark)
  BY DEF Text, Mark, Begins
<1>2. ASSUME NEW k \in DOMAIN mark
      PROVE  /\ i + k - 1 <= Len(part) /\ i + k - 1 <= Len(text)
             /\ part[i + k - 1] = text[i + k - 1]
  <2>1. i + k - 1 \in 1 .. Len(part)
    BY <1>1
  <2> QED
    BY <1>1, <2>1 DEF Begins
<1> QED
  BY <1>2 DEF Stands

LEMMA MarksInBeginning ==
  ASSUME NEW snippet \in Snippets, NEW other \in Snippets,
         Begins(other.text, snippet.text),
         other.start = snippet.start, other.end = snippet.end,
         NEW i \in Nat, NEW j \in Nat, Marks(other, i, j)
  PROVE  Marks(snippet, i, j)
<1> DEFINE text == snippet.text
           part == other.text
           n    == Len(part)
<1>1. /\ text \in Text /\ part \in Text
      /\ snippet.start \in Mark /\ snippet.end \in Mark
  BY DEF Snippets
<1>2. /\ Len(text) \in Nat /\ n \in Nat /\ n <= Len(text)
      /\ Len(snippet.start) \in Nat \ {0} /\ Len(snippet.end) \in Nat \ {0}
  BY <1>1, EmptySeq DEF Text, Mark, Begins
<1>3. /\ i \in 1 .. n /\ j \in i + 1 .. n
      /\ i + Len(snippet.start) - 1 <= n /\ j + Len(snippet.end) - 1 <= n
  BY DEF Marks
<1>4. Stands(text, snippet.start, i) /\ Stands(text, snippet.end, j)
  <2>1. Stands(part, snippet.start, i) /\ Stands(part, snippet.end, j)
    BY DEF Marks
  <2>2. i \in Nat \ {0} /\ j \in Nat \ {0}
    BY <1>2, <1>3
  <2> QED
    BY <1>1, <1>3, <2>1, <2>2, StandsInBeginning
<1>5. ASSUME NEW k \in 1 .. i - 1 PROVE ~Stands(text, snippet.start, k)
  <2>1. k \in Nat \ {0} /\ k + Len(snippet.start) - 1 <= n
    BY <1>2, <1>3
  <2>2. ~Stands(part, snippet.start, k)
    BY DEF Marks
  <2> QED
    BY <1>1, <2>1, <2>2, StandsInBeginning
<1>6. ASSUME NEW k \in i + 1 .. j - 1 PROVE ~Stands(text, snippet.end, k)
  <2>1. k \in Nat \ {0} /\ k + Len(snippet.end) - 1 <= n
    BY <1>2, <1>3
  <2>2. ~Stands(part, snippet.end, k)
    BY DEF Marks
  <2> QED
    BY <1>1, <2>1, <2>2, StandsInBeginning
<1>7. /\ i \in 1 .. Len(text) /\ j \in i + 1 .. Len(text)
      /\ i + Len(snippet.start) - 1 <= Len(text)
      /\ j + Len(snippet.end) - 1 <= Len(text)
  <2>1. PICK l, a, b \in Nat :
          l = Len(text) /\ a = Len(snippet.start) /\ b = Len(snippet.end)
    BY <1>2
  <2>2. PICK m \in Nat : m = n
    BY <1>2
  <2>3. m <= l /\ i \in 1 .. m /\ j \in i + 1 .. m /\ i + a - 1 <= m /\ j + b - 1 <= m
    BY <1>2, <1>3, <2>1, <2>2
  <2>4. i \in 1 .. l /\ j \in i + 1 .. l /\ i + a - 1 <= l /\ j + b - 1 <= l
    BY <2>3
  <2> QED
    BY <2>1, <2>4
<1> QED
  BY <1>4, <1>5, <1>6, <1>7 DEF Marks

(* Trimming stops in the part where it stops in the whole. *)
LEMMA TrimmingBeginning ==
  ASSUME NEW text \in Text, NEW part, Begins(part, text),
         NEW from \in Nat \ {0}, NEW j \in 0 .. Len(part)
  PROVE  LET p == pmap_ut_ltrim(text, from)
             q == pmap_ut_ltrim(part, from)
         IN  /\ p \in Nat \ {0} /\ q \in Nat \ {0}
             /\ p <= j <=> q <= j
             /\ p <= j => p = q
<1> DEFINE p == pmap_ut_ltrim(text, from)
           q == pmap_ut_ltrim(part, from)
           n == Len(part)
<1>1. Len(text) \in Nat /\ part \in Text /\ n \in Nat /\ n <= Len(text)
  BY DEF Text, Begins
<1>2. /\ \/ p = Len(text) + 1
         \/ p \in from .. Len(text) /\ text[p] \notin Space
      /\ \A k \in from .. p - 1 : text[k] \in Space
  BY LtrimIsFirst
<1>3. /\ \/ q = n + 1
         \/ q \in from .. n /\ part[q] \notin Space
      /\ \A k \in from .. q - 1 : part[k] \in Space
  BY <1>1, LtrimIsFirst
<1>4. p \in Nat \ {0} /\ q \in Nat \ {0}
  BY <1>1, <1>2, <1>3
<1>5. \A k \in 1 .. n : part[k] = text[k]
  BY DEF Begins
<1>6. ASSUME p <= j PROVE p = q
  <2>1. p \in from .. n /\ p \in 1 .. n /\ text[p] \notin Space
    BY <1>1, <1>2, <1>4, <1>6
  <2>2. ~(p < q)
    BY <1>3, <1>4, <1>5, <2>1
  <2>3. ASSUME q < p PROVE FALSE
    <3>1. q \in from .. p - 1 /\ q \in 1 .. n /\ part[q] \notin Space
      BY <1>3, <1>4, <2>1, <2>3
    <3> QED
      BY <1>2, <1>5, <3>1
  <2> QED
    BY <1>4, <2>2, <2>3
<1>7. ASSUME q <= j PROVE p = q
  <2>1. q \in from .. n /\ q \in 1 .. n /\ part[q] \notin Space
    BY <1>1, <1>3, <1>4, <1>7
  <2>2. ASSUME q < p PROVE FALSE
    <3>1. q \in from .. p - 1
      BY <1>4, <2>1, <2>2
    <3> QED
      BY <1>2, <1>5, <2>1, <3>1
  <2>3. ASSUME p < q PROVE FALSE
    <3>1. p \in from .. q - 1 /\ p \in 1 .. n /\ text[p] \notin Space
      BY <1>1, <1>2, <1>4, <2>1, <2>3
    <3> QED
      BY <1>3, <1>5, <3>1
  <2> QED
    BY <1>4, <2>2, <2>3
<1> QED
  BY <1>4, <1>6, <1>7

LEMMA BeginningOfBeginning ==
  ASSUME NEW text \in Text, NEW part, Begins(part, text),
         NEW p \in Nat \ {0}, NEW l \in 0 .. Len(part)
  PROVE  SubSeq(part, p, l) = SubSeq(text, p, l)
<1>1. /\ part \in Seq(Char) /\ text \in Seq(Char) /\ l <= Len(text)
      /\ \A k \in 1 .. Len(part) : part[k] = text[k]
  BY DEF Text, Begins
<1>2. /\ SubSeq(part, p, l) \in Seq(Char)
      /\ SubSeq(text, p, l) \in Seq(Char)
      /\ Len(SubSeq(part, p, l)) = Len(SubSeq(text, p, l))
  BY <1>1
<1>3. \A k \in 1 .. Len(SubSeq(part, p, l)) : SubSeq(part, p, l)[k] = SubSeq(text, p, l)[k]
  BY <1>1
<1> QED
  BY <1>2, <1>3, SeqEqual

LEMMA SubstrOfPart ==
  ASSUME SubstrCalled
  PROVE  PartTellsTheSame
<1> DEFINE snippet == call.arg
           len     == call.len
           text    == snippet.text
           r       == call.result
<1>1. /\ snippet \in Snippets /\ len \in Nat
      /\ r = pmap_ut_substr(snippet, len)
  BY DEF SubstrCalled
<1>2. SUFFICES ASSUME NEW part \in Prefixes(text)
               PROVE  LET cut == pmap_ut_substr([snippet EXCEPT !.text = part], len)
                      IN  cut.ret = 1 \/ cut = r
  BY DEF PartTellsTheSame
<1> DEFINE other == [snippet EXCEPT !.text = part]
           cut   == pmap_ut_substr(other, len)
<1>3. text \in Text
  BY <1>1 DEF Snippets
<1>4. Begins(part, text)
  BY <1>3, PrefixesBegin
<1>5. /\ other \in Snippets /\ other.text = part
      /\ other.start = snippet.start /\ other.end = snippet.end
  BY <1>1, <1>4 DEF Snippets, Begins
<1> HIDE DEF other
<1>6. ASSUME cut # Failed(1) PROVE cut = r
  <2>1. PICK i \in Nat, j \in Nat : Marks(other, i, j) /\ Cut(other, len, i, j)
    BY <1>1, <1>5, <1>6, SubstrByMarks
  <2>2. Marks(snippet, i, j)
    BY <1>1, <1>4, <1>5, <2>1, MarksInBeginning
  <2>3. Cut(snippet, len, i, j)
    <3>1. PICK k \in Nat, l \in Nat : Marks(snippet, k, l) /\ Cut(snippet, len, k, l)
      BY <1>1, <2>2, SubstrByMarks
    <3>2. k = i /\ l = j
      BY <1>1, <2>2, <3>1, MarksAreUnique
    <3> QED
      BY <3>1, <3>2
  <2> DEFINE from == i + Len(snippet.start)
             p    == pmap_ut_ltrim(text, from)
             q    == pmap_ut_ltrim(part, from)
  <2>4. Len(snippet.start) \in Nat /\ Len(part) \in Nat
    BY <1>1, <1>4 DEF Snippets, Text, Mark, Begins
  <2>5. from \in Nat \ {0} /\ j \in 1 .. Len(part)
    <3>1. i \in 1 .. Len(part) /\ j \in i + 1 .. Len(part)
      BY <1>5, <2>1 DEF Marks
    <3> QED
      BY <2>4, <3>1
  <2>6. /\ p \in Nat \ {0} /\ q \in Nat \ {0}
        /\ p <= j <=> q <= j
        /\ p <= j => p = q
    <3>1. PICK f \in Nat \ {0} : f = from
      BY <2>5
    <3>2. j \in 1 .. Len(part)
      BY <2>5
    <3> HIDE DEF text
    <3>3. /\ pmap_ut_ltrim(text, f) \in Nat \ {0}
          /\ pmap_ut_ltrim(part, f) \in Nat \ {0}
          /\ pmap_ut_ltrim(text, f) <= j <=> pmap_ut_ltrim(part, f) <= j
          /\ pmap_ut_ltrim(text, f) <= j =>
               pmap_ut_ltrim(text, f) = pmap_ut_ltrim(part, f)
      BY <1>3, <1>4, <3>2, TrimmingBeginning
    <3> QED
      BY <3>1, <3>3
  <2>7. SubSeq(part, p, j - 1) = SubSeq(text, p, j - 1)
    <3>1. j - 1 \in 0 .. Len(part)
      BY <2>4, <2>5
    <3> QED
      BY <1>3, <1>4, <2>6, <3>1, BeginningOfBeginning
  <2> DEFINE fits == Fits(j - from, len)
  <2>8. \/ ~fits /\ cut = Failed(2)
        \/ fits /\ q > j /\ cut = Undefined
        \/ fits /\ q <= j /\ cut = [ret |-> 0, buffer |-> SubSeq(part, q, j - 1)]
    BY <1>5, <2>1 DEF Cut
  <2>9. \/ ~fits /\ r = Failed(2)
        \/ fits /\ p > j /\ r = Undefined
        \/ fits /\ p <= j /\ r = [ret |-> 0, buffer |-> SubSeq(text, p, j - 1)]
    BY <1>1, <2>3 DEF Cut
  <2>10. CASE p <= j
    <3>1. p = q /\ q <= j /\ ~(p > j) /\ ~(q > j)
      BY <2>5, <2>6, <2>10
    <3> QED
      BY <2>7, <2>8, <2>9, <3>1
  <2>11. CASE ~(p <= j)
    <3>1. ~(q <= j)
      BY <2>6, <2>11
    <3>2. CASE fits
      BY <2>8, <2>9, <2>11, <3>1, <3>2, Zenon
    <3>3. CASE ~fits
      BY <2>8, <2>9, <3>3, Zenon
    <3> QED
      BY <3>2, <3>3
  <2> QED
    BY <2>10, <2>11
<1> QED
  <2>1. cut.ret = 1 \/ cut = r
    BY <1>6, Results
  <2> QED
    BY <2>1 DEF other

(* What is written to the caller's buffer fits with its end mark. *)
LEMMA SubstrFits ==
  ASSUME SubstrCalled
  PROVE  /\ call.result.ret \in -1 .. 2
         /\ call.result.ret = 0 <=> call.result.buffer # NULL
         /\ call.result.ret = 0 => Len(call.result.buffer) < call.len
<1> DEFINE snippet == call.arg
           len     == call.len
           text    == snippet.text
           r       == call.result
<1>1. /\ snippet \in Snippets /\ len \in Nat
      /\ r = pmap_ut_substr(snippet, len)
  BY DEF SubstrCalled
<1>2. \A n \in 1 .. 2 : r = Failed(n) => r.ret = n /\ r.buffer = NULL
  BY DEF Failed
<1>3. CASE r = Failed(1)
  BY <1>2, <1>3
<1>4. CASE r # Failed(1)
  <2>1. PICK i \in Nat, j \in Nat : Marks(snippet, i, j) /\ Cut(snippet, len, i, j)
    BY <1>1, <1>4, SubstrByMarks
  <2> DEFINE from == i + Len(snippet.start)
             p    == pmap_ut_ltrim(text, from)
  <2>2. \/ r = Failed(2)
        \/ r = Undefined
        \/ Fits(j - from, len) /\ p <= j /\ r = [ret |-> 0, buffer |-> SubSeq(text, p, j - 1)]
    BY <1>1, <2>1 DEF Cut
  <2>3. CASE r = Failed(2)
    BY <1>2, <2>3
  <2>4. CASE r = Undefined
    BY <2>4, Results
  <2>5. CASE Fits(j - from, len) /\ p <= j /\ r = [ret |-> 0, buffer |-> SubSeq(text, p, j - 1)]
    <3>1. r.ret = 0 /\ r.buffer = SubSeq(text, p, j - 1)
      BY <2>5, Results, Zenon
    <3>2. /\ text \in Text /\ Len(text) \in Nat
          /\ Len(snippet.start) \in Nat /\ i \in 1 .. Len(text) /\ j \in 1 .. Len(text)
      BY <1>1, <2>1 DEF Snippets, Text, Mark, Marks
    <3>3. from \in Nat \ {0}
      BY <3>2
    <3>4. p \in from .. Len(text)
      BY <2>5, <3>2, <3>3, LtrimIsFirst
    <3>5. /\ SubSeq(text, p, j - 1) \in Text
          /\ Len(SubSeq(text, p, j - 1)) = IF p <= j - 1 THEN j - p ELSE 0
      <4>1. text \in Seq(Char) /\ p \in Nat \ {0} /\ p \in 1 .. Len(text) /\ j - 1 \in 0 .. Len(text)
        BY <3>2, <3>3, <3>4 DEF Text
      <4> HIDE DEF p, text
      <4> QED
        BY <4>1, <3>2 DEF Text
    <3>6. Len(SubSeq(text, p, j - 1)) < len
      <4>1. j - from < len
        BY <2>5 DEF Fits
      <4> DEFINE l == Len(SubSeq(text, p, j - 1))
      <4>2. l = IF p <= j - 1 THEN j - p ELSE 0
        BY <3>5
      <4>3. from \in Nat /\ p \in Nat /\ from <= p /\ p <= j /\ j \in Nat
        BY <2>5, <3>3, <3>4
      <4> HIDE DEF l, p, len, from
      <4>4. len \in Nat
        BY <1>1
      <4>5. l = (IF p <= j - 1 THEN j - p ELSE 0) => l <= j - from
        BY <4>3
      <4>6. l <= j - from /\ l \in Nat
        BY <4>2, <4>3, <4>5
      <4>7. l < len
        BY <4>1, <4>3, <4>4, <4>6
      <4> QED
        BY <4>7 DEF l
    <3>7. r.buffer # NULL /\ Len(r.buffer) < len
      BY <3>1, <3>5, <3>6, StringConstantsOK
    <3>8. r.ret \in -1 .. 2
      BY <3>1
    <3> QED
      BY <3>1, <3>7, <3>8, Zenon
  <2> QED
    BY <2>2, <2>3, <2>4, <2>5
<1> QED
  BY <1>3, <1>4

-----------------------------------------------------------------------------
(* The C library takes a text apart. *)

LEMMA OneElement ==
  ASSUME NEW S, NEW e \in S
  PROVE  << e >> \in Seq(S) /\ Len(<< e >>) = 1 /\ << e >>[1] = e
OBVIOUS

(* The places of what is put together. *)
Joined(t, a, b) ==
  /\ Len(t) = Len(a) + Len(b)
  /\ \A k \in 1 .. Len(a) : t[k] = a[k]
  /\ \A k \in 1 .. Len(b) : t[Len(a) + k] = b[k]

LEMMA JoinedTexts ==
  ASSUME NEW a \in Text, NEW b \in Text, NEW t, t = a \o b
  PROVE  t \in Text /\ Joined(t, a, b)
BY DEF Joined, Text

Parts(t, a, b, d, c) ==
  /\ t \in Text /\ Len(t) = Len(a) + Len(b) + 1 + Len(c)
  /\ \A k \in 1 .. Len(a) : t[k] = a[k]
  /\ \A k \in 1 .. Len(b) : t[Len(a) + k] = b[k]
  /\ t[Len(a) + Len(b) + 1] = d
  /\ \A k \in 1 .. Len(c) : t[Len(a) + Len(b) + 1 + k] = c[k]

LEMMA PutTogether ==
  ASSUME NEW a \in Text, NEW b \in Text, NEW c \in Text, NEW d \in Char
  PROVE  Parts(a \o b \o << d >> \o c, a, b, d, c)
<1>1. PICK s \in Seq(Char) : s = << d >> /\ Len(s) = 1 /\ s[1] = d
  BY OneElement
<1>2. a \in Seq(Char) /\ b \in Seq(Char) /\ c \in Seq(Char)
  BY DEF Text
<1>3. PICK t : t = a \o b \o s \o c
  OBVIOUS
<1>4. /\ t \in Seq(Char) /\ Len(t) = Len(a) + Len(b) + Len(s) + Len(c)
      /\ \A k \in 1 .. Len(a) : t[k] = a[k]
      /\ \A k \in 1 .. Len(b) : t[Len(a) + k] = b[k]
      /\ \A k \in 1 .. Len(s) : t[Len(a) + Len(b) + k] = s[k]
      /\ \A k \in 1 .. Len(c) : t[Len(a) + Len(b) + Len(s) + k] = c[k]
  BY <1>2, <1>3
<1>5. t[Len(a) + Len(b) + 1] = d
  <2>1. 1 \in 1 .. Len(s)
    BY <1>1
  <2> QED
    BY <1>1, <1>4, <2>1
<1>6. Parts(t, a, b, d, c)
  BY <1>1, <1>4, <1>5 DEF Parts, Text
<1> QED
  BY <1>1, <1>3, <1>6

(* The first token of a text is from first to last - 1. *)
TokenAt(text, delim, first, last) ==
  /\ text \in Text
  /\ first \in 1 .. Len(text) /\ last \in first .. Len(text) + 1
  /\ \A k \in 1 .. first - 1 : text[k] = delim
  /\ text[first] # delim
  /\ \A k \in first .. last - 1 : text[k] # delim
  /\ last <= Len(text) => text[last] = delim

LEMMA TokenByPlaces ==
  ASSUME NEW libc, NEW text, NEW delim, NEW first, NEW last,
         TokenAt(text, delim, first, last)
  PROVE  strtok_r(libc, text, delim) =
           [token |-> SubSeq(text, first, last - 1),
            rest  |-> IF last > Len(text)
                      THEN IF libc = "bsd" THEN NULL ELSE << >>
                      ELSE SubSeq(text, last + 1, Len(text))]
<1> USE DEF TokenAt
<1> DEFINE starts == { i \in 1 .. Len(text) : text[i] # delim }
           ends   == { i \in first .. Len(text) : text[i] = delim }
<1>1. Len(text) \in Nat /\ starts \in SUBSET Nat /\ ends \in SUBSET Nat
  BY DEF Text
<1>2. FirstOr(starts, Len(text) + 1) = first
  <2>1. first \in starts /\ \A i \in starts : first <= i
    BY <1>1
  <2>2. /\ FirstOr(starts, Len(text) + 1) \in starts
        /\ \A i \in starts : FirstOr(starts, Len(text) + 1) <= i
    BY <1>1, <2>1, FirstOrIsFirst
  <2> QED
    BY <1>1, <2>1, <2>2
<1>3. FirstOr(ends, Len(text) + 1) = last
  <2>1. CASE last <= Len(text)
    <3>1. last \in ends /\ \A i \in ends : last <= i
      BY <1>1, <2>1
    <3>2. /\ FirstOr(ends, Len(text) + 1) \in ends
          /\ \A i \in ends : FirstOr(ends, Len(text) + 1) <= i
      BY <1>1, <3>1, FirstOrIsFirst
    <3> QED
      BY <1>1, <3>1, <3>2
  <2>2. CASE ~(last <= Len(text))
    <3>1. ends = {} /\ last = Len(text) + 1
      BY <1>1, <2>2
    <3> QED
      BY <1>1, <3>1 DEF FirstOr
  <2> QED
    BY <2>1, <2>2
<1>4. ~(first > Len(text))
  BY <1>1
<1> HIDE DEF starts, ends
<1> QED
  BY <1>2, <1>3, <1>4 DEF strtok_r, starts, ends

(* A token with delimiters before it, and one after it. *)
TokenIn(text, lead, s, delim, rest) ==
  /\ delim \in Char /\ lead \in Text /\ s \in Mark /\ rest \in Text
  /\ \A k \in DOMAIN lead : lead[k] = delim
  /\ ~Has(s, delim)
  /\ text = lead \o s \o << delim >> \o rest

LEMMA TokenBeforeRest ==
  ASSUME NEW libc, NEW text, NEW lead, NEW s, NEW delim, NEW rest,
         TokenIn(text, lead, s, delim, rest)
  PROVE  strtok_r(libc, text, delim) = [token |-> s, rest |-> rest]
<1> DEFINE first == Len(lead) + 1
           last  == Len(lead) + Len(s) + 1
<1>1. lead \in Seq(Char) /\ s \in Seq(Char) /\ rest \in Seq(Char)
  BY DEF TokenIn, Text, Mark
<1>2. Len(lead) \in Nat /\ Len(s) \in Nat \ {0} /\ Len(rest) \in Nat
  BY <1>1, EmptySeq DEF TokenIn, Mark
<1>3. /\ text \in Seq(Char) /\ Len(text) = Len(lead) + Len(s) + 1 + Len(rest)
      /\ \A k \in 1 .. Len(lead) : text[k] = lead[k]
      /\ \A k \in 1 .. Len(s) : text[Len(lead) + k] = s[k]
      /\ text[last] = delim
      /\ \A k \in 1 .. Len(rest) : text[last + k] = rest[k]
  <2>1. lead \in Text /\ s \in Text /\ rest \in Text /\ delim \in Char
    BY DEF TokenIn, Mark
  <2>2. Parts(lead \o s \o << delim >> \o rest, lead, s, delim, rest)
    BY <2>1, PutTogether
  <2>3. Parts(text, lead, s, delim, rest)
    BY <2>2, Zenon DEF TokenIn
  <2> QED
    BY <2>3 DEF Parts, Text
<1>4. /\ first \in 1 .. Len(text) /\ last \in first .. Len(text) + 1
      /\ last <= Len(text)
  BY <1>2, <1>3
<1>5. \A k \in 1 .. first - 1 : text[k] = delim
  <2>1. first - 1 = Len(lead) /\ DOMAIN lead = 1 .. Len(lead)
    BY <1>1, <1>2
  <2> QED
    BY <1>3, <2>1 DEF TokenIn
<1>6. \A k \in first .. last - 1 : text[k] # delim
  <2>1. SUFFICES ASSUME NEW k \in first .. last - 1 PROVE text[k] # delim
    OBVIOUS
  <2>2. PICK n \in 1 .. Len(s) : k = Len(lead) + n
    <3>1. k - Len(lead) \in 1 .. Len(s) /\ k = Len(lead) + (k - Len(lead))
      BY <1>2
    <3> QED
      BY <3>1
  <2>3. n \in DOMAIN s
    BY <1>1
  <2> QED
    BY <1>3, <2>2, <2>3 DEF Has, TokenIn
<1>7. strtok_r(libc, text, delim) =
        [token |-> SubSeq(text, first, last - 1),
         rest  |-> SubSeq(text, last + 1, Len(text))]
  <2>1. first \in first .. last - 1
    BY <1>2
  <2>2. text[first] # delim
    BY <1>6, <2>1
  <2>3. text \in Text
    BY <1>3 DEF Text
  <2>4. ~(last > Len(text))
    BY <1>2, <1>4
  <2>5. strtok_r(libc, text, delim) =
          [token |-> SubSeq(text, first, last - 1),
           rest  |-> IF last > Len(text)
                     THEN IF libc = "bsd" THEN NULL ELSE << >>
                     ELSE SubSeq(text, last + 1, Len(text))]
    <3>1. text[last] = delim
      BY <1>3
    <3> HIDE DEF first, last
    <3>2. TokenAt(text, delim, first, last)
      BY <1>4, <1>5, <1>6, <2>2, <2>3, <3>1 DEF TokenAt
    <3> QED
      BY <3>2, TokenByPlaces
  <2> QED
    BY <2>4, <2>5
<1>8. SubSeq(text, first, last - 1) = s
  <2>1. /\ SubSeq(text, first, last - 1) \in Seq(Char)
        /\ Len(SubSeq(text, first, last - 1)) = Len(s)
        /\ \A k \in 1 .. Len(s) : SubSeq(text, first, last - 1)[k] = text[Len(lead) + k]
    BY <1>2, <1>3
  <2> QED
    BY <1>1, <1>3, <2>1, SeqEqual
<1>9. SubSeq(text, last + 1, Len(text)) = rest
  <2>1. /\ SubSeq(text, last + 1, Len(text)) \in Seq(Char)
        /\ Len(SubSeq(text, last + 1, Len(text))) = Len(rest)
        /\ \A k \in 1 .. Len(rest) : SubSeq(text, last + 1, Len(text))[k] = text[last + k]
    BY <1>2, <1>3
  <2> QED
    BY <1>1, <1>3, <2>1, SeqEqual
<1> QED
  BY <1>7, <1>8, <1>9

(* The last token. *)
LEMMA TokenAtEnd ==
  ASSUME NEW libc, NEW delim, NEW s \in Mark, ~Has(s, delim)
  PROVE  strtok_r(libc, s, delim) =
           [token |-> s, rest |-> IF libc = "bsd" THEN NULL ELSE << >>]
<1>1. s \in Seq(Char) /\ Len(s) \in Nat \ {0} /\ DOMAIN s = 1 .. Len(s)
  BY EmptySeq DEF Mark, Text
<1>2. \A k \in 1 .. Len(s) : s[k] # delim
  BY <1>1 DEF Has
<1> DEFINE last == Len(s) + 1
<1>3. /\ s \in Text /\ 1 \in 1 .. Len(s) /\ last \in 1 .. Len(s) + 1
      /\ \A k \in 1 .. 1 - 1 : s[k] = delim
      /\ s[1] # delim /\ \A k \in 1 .. last - 1 : s[k] # delim
      /\ last > Len(s) /\ ~(last <= Len(s))
  BY <1>1, <1>2 DEF Text
<1>4. SubSeq(s, 1, last - 1) = s
  <2>1. last - 1 = Len(s)
    BY <1>1
  <2> QED
    BY <1>1, <2>1, SubSeqFull
<1>5. strtok_r(libc, s, delim) =
        [token |-> SubSeq(s, 1, last - 1),
         rest  |-> IF last > Len(s)
                   THEN IF libc = "bsd" THEN NULL ELSE << >>
                   ELSE SubSeq(s, last + 1, Len(s))]
  <2> HIDE DEF last
  <2>1. TokenAt(s, delim, 1, last)
    BY <1>3 DEF TokenAt
  <2> QED
    BY <2>1, TokenByPlaces
<1> QED
  BY <1>3, <1>4, <1>5

LEMMA FirstToken ==
  ASSUME NEW libc, NEW delim \in Char, NEW s \in Mark, NEW rest \in Text, ~Has(s, delim)
  PROVE  strtok_r(libc, s \o << delim >> \o rest, delim) = [token |-> s, rest |-> rest]
<1>1. PICK lead \in Text : lead = << >>
  BY EmptySeq, Zenon DEF Text
<1>2. \A k \in DOMAIN lead : lead[k] = delim
  BY <1>1, EmptySeq DEF Text
<1>3. s = lead \o s
  BY <1>1, ConcatEmptySeq DEF Mark, Text
<1>4. PICK text : text = s \o << delim >> \o rest
  OBVIOUS
<1>5. text = lead \o s \o << delim >> \o rest
  BY <1>3, <1>4, Zenon
<1>6. TokenIn(text, lead, s, delim, rest)
  BY <1>2, <1>5 DEF TokenIn
<1>7. strtok_r(libc, text, delim) = [token |-> s, rest |-> rest]
  BY <1>6, TokenBeforeRest
<1> QED
  BY <1>4, <1>7, Zenon

(* A text begins with another, character by character. *)
LEMMA PrefixByPlaces ==
  ASSUME NEW a \in Text, NEW t \in Text
  PROVE  IsPrefix(a, t) <=> Len(a) <= Len(t) /\ \A k \in 1 .. Len(a) : t[k] = a[k]
<1>1. a \in Seq(Char) /\ t \in Seq(Char) /\ Len(a) \in Nat /\ Len(t) \in Nat
  BY DEF Text
<1>2. SubSeq(a, 1, Len(a)) = a
  BY <1>1, SubSeqFull
<1>3. CASE Len(a) <= Len(t)
  <2> DEFINE b == SubSeq(t, 1, Len(a))
  <2>1. b \in Seq(Char) /\ Len(b) = Len(a) /\ \A k \in 1 .. Len(a) : b[k] = t[k]
    BY <1>1, <1>3
  <2> HIDE DEF b
  <2>2. a = b <=> \A k \in 1 .. Len(a) : t[k] = a[k]
    <3>1. ASSUME \A k \in 1 .. Len(a) : t[k] = a[k] PROVE a = b
      BY <1>1, <2>1, <3>1, SeqEqual
    <3> QED
      BY <2>1, <3>1
  <2> QED
    BY <1>2, <1>3, <2>2 DEF IsPrefix, b
<1>4. CASE ~(Len(a) <= Len(t))
  BY <1>4 DEF IsPrefix
<1> QED
  BY <1>3, <1>4

-----------------------------------------------------------------------------
(* pmap_ut_parse_url *)

TwoSlashes == << "/", "/" >>

LEMMA TwoElements ==
  ASSUME NEW S, NEW e \in S
  PROVE  /\ << e, e >> \in Seq(S) /\ Len(<< e, e >>) = 2
         /\ \A k \in 1 .. 2 : << e, e >>[k] = e
OBVIOUS

LEMMA TwoSlashesAreText ==
  /\ TwoSlashes \in Text /\ Len(TwoSlashes) = 2
  /\ \A k \in 1 .. 2 : TwoSlashes[k] = "/"
<1>1. PICK e \in Char : e = "/"
  BY StringConstantsOK
<1> QED
  BY <1>1, TwoElements, Zenon DEF TwoSlashes, Text

(* "//host" is one token, without its slashes the host. *)
LEMMA HostToken ==
  ASSUME NEW host \in Mark, ~Has(host, ":")
  PROVE  /\ TwoSlashes \o host \in Mark
         /\ ~Has(TwoSlashes \o host, ":")
         /\ HostOf(TwoSlashes \o host) = host
<1> DEFINE t == TwoSlashes \o host
<1>1. host \in Seq(Char) /\ DOMAIN host = 1 .. Len(host) /\ Len(host) \in Nat
  BY DEF Mark, Text
<1>2. TwoSlashes \in Seq(Char) /\ Len(TwoSlashes) = 2 /\ \A k \in 1 .. 2 : TwoSlashes[k] = "/"
  BY TwoSlashesAreText DEF Text
<1>3. /\ t \in Seq(Char) /\ Len(t) = 2 + Len(host)
      /\ \A k \in 1 .. 2 : t[k] = "/"
      /\ \A k \in 1 .. Len(host) : t[2 + k] = host[k]
  <2>1. t \in Text /\ Joined(t, TwoSlashes, host)
    BY <1>1, <1>2, JoinedTexts DEF Text
  <2> HIDE DEF t
  <2> QED
    BY <1>1, <1>2, <2>1 DEF Joined, Text
<1> HIDE DEF t
<1>4. t \in Mark
  BY <1>1, <1>3, EmptySeq DEF Mark, Text
<1>5. ASSUME NEW k \in DOMAIN t PROVE t[k] # ":"
  <2>1. CASE k \in 1 .. 2
    BY <1>3, <2>1
  <2>2. CASE ~(k \in 1 .. 2)
    <3>1. PICK n \in 1 .. Len(host) : k = 2 + n
      <4>1. k \in 1 .. 2 + Len(host)
        BY <1>3
      <4>2. k - 2 \in 1 .. Len(host) /\ k = 2 + (k - 2)
        BY <1>1, <2>2, <4>1
      <4> QED
        BY <4>2
    <3> QED
      BY <1>1, <1>3, <3>1 DEF Has
  <2> QED
    BY <2>1, <2>2
<1>6. HostOf(t) = host
  <2>1. /\ SubSeq(t, 3, Len(t)) \in Seq(Char)
        /\ Len(SubSeq(t, 3, Len(t))) = Len(host)
        /\ \A k \in 1 .. Len(host) : SubSeq(t, 3, Len(t))[k] = t[2 + k]
    BY <1>1, <1>3
  <2> QED
    BY <1>1, <1>3, <2>1, SeqEqual DEF HostOf
<1> QED
  BY <1>4, <1>5, <1>6 DEF t, Has

(* Putting together is associative. *)
Cat(x, y) == x \o y

LEMMA CatIsText == \A x, y \in Text : Cat(x, y) \in Text
BY DEF Text, Cat

LEMMA CatAssociative == \A x, y, z \in Text : Cat(Cat(x, y), z) = Cat(x, Cat(y, z))
BY ConcatAssociative DEF Text, Cat

LEMMA Cat5 ==
  ASSUME NEW a \in Text, NEW b \in Text, NEW c \in Text, NEW d \in Text, NEW e \in Text
  PROVE  Cat(Cat(Cat(Cat(a, b), c), d), e) = Cat(a, Cat(Cat(Cat(b, c), d), e))
<1>1. PICK bc \in Text : bc = Cat(b, c)
  BY CatIsText
<1>2. PICK bd \in Text : bd = Cat(bc, d)
  BY CatIsText
<1>3. Cat(Cat(a, b), c) = Cat(a, bc)
  BY <1>1, CatAssociative
<1>4. Cat(Cat(a, bc), d) = Cat(a, bd)
  BY <1>2, CatAssociative
<1>5. Cat(Cat(a, bd), e) = Cat(a, Cat(bd, e))
  BY CatAssociative
<1> QED
  BY <1>1, <1>2, <1>3, <1>4, <1>5

LEMMA ColonAndSlash ==
  \E c, l, t \in Text : c = << ":" >> /\ l = << "/" >> /\ t = TwoSlashes
<1>1. PICK d \in Char, e \in Char : d = ":" /\ e = "/"
  BY StringConstantsOK
<1>2. << d >> \in Text /\ << e >> \in Text
  BY OneElement DEF Text
<1> QED
  BY <1>1, <1>2, TwoSlashesAreText

LEMMA PortlessByTokens ==
  ASSUME NEW scheme \in Text, NEW host \in Text, NEW path \in Text
  PROVE  Portless(scheme, host, path) =
           scheme \o << ":" >> \o (TwoSlashes \o host \o << "/" >> \o path)
<1>1. PICK c \in Text, l \in Text, t \in Text :
        c = << ":" >> /\ l = << "/" >> /\ t = TwoSlashes
  BY ColonAndSlash
<1>2. PICK e \in Text : e = Cat(scheme, c)
  BY CatIsText
<1>3. Portless(scheme, host, path) = Cat(Cat(Cat(Cat(e, t), host), l), path)
  BY <1>1, <1>2, Zenon DEF Portless, TwoSlashes, Cat
<1>4. Portless(scheme, host, path) = Cat(e, Cat(Cat(Cat(t, host), l), path))
  BY <1>3, Cat5
<1> QED
  BY <1>1, <1>2, <1>4, Zenon DEF Cat

UrlTokens(scheme, host, port, path) ==
  Url(scheme, host, port, path) =
    scheme \o << ":" >> \o
      ((TwoSlashes \o host) \o << ":" >> \o (port \o << "/" >> \o path))

LEMMA UrlByTokens ==
  ASSUME NEW scheme \in Text, NEW host \in Text, NEW port \in Text, NEW path \in Text
  PROVE  UrlTokens(scheme, host, port, path)
<1>1. PICK c \in Text, l \in Text, t \in Text :
        c = << ":" >> /\ l = << "/" >> /\ t = TwoSlashes
  BY ColonAndSlash
<1>2. PICK e \in Text : e = Cat(scheme, c)
  BY CatIsText
<1>3. Url(scheme, host, port, path) =
        Cat(Cat(Cat(Cat(Cat(Cat(e, t), host), c), port), l), path)
  BY <1>1, <1>2, Zenon DEF Url, TwoSlashes, Cat
<1>4. Url(scheme, host, port, path) =
        Cat(e, Cat(Cat(Cat(t, host), c), Cat(Cat(port, l), path)))
  <2>1. PICK th \in Text, thc \in Text :
          th = Cat(t, host) /\ thc = Cat(th, c)
    BY CatIsText
  <2>2. PICK thcp \in Text, pl \in Text : thcp = Cat(thc, port) /\ pl = Cat(port, l)
    BY CatIsText
  <2>3. Cat(Cat(Cat(Cat(e, t), host), c), port) = Cat(e, thcp)
    BY <2>1, <2>2, Cat5
  <2>4. Cat(Cat(Cat(e, thcp), l), path) = Cat(e, Cat(Cat(thcp, l), path))
    <3>1. PICK all \in Text : all = Cat(thcp, l)
      BY CatIsText
    <3>2. Cat(Cat(e, thcp), l) = Cat(e, all)
      BY <3>1, CatAssociative
    <3>3. Cat(Cat(e, all), path) = Cat(e, Cat(all, path))
      BY CatAssociative
    <3> QED
      BY <3>1, <3>2, <3>3
  <2>5. Cat(Cat(thcp, l), path) = Cat(thc, Cat(pl, path))
    <3>1. Cat(Cat(thc, port), l) = Cat(thc, pl)
      BY <2>2, CatAssociative
    <3>2. Cat(Cat(thc, pl), path) = Cat(thc, Cat(pl, path))
      BY CatAssociative
    <3> QED
      BY <2>2, <3>1, <3>2
  <2> QED
    BY <1>3, <2>1, <2>2, <2>3, <2>4, <2>5
<1> QED
  BY <1>1, <1>2, <1>4, Zenon DEF Cat, UrlTokens

LEMMA Beginning ==
  ASSUME NEW a \in Text, NEW b \in Text, NEW c \in Text, NEW d \in Char
  PROVE  /\ a \o b \o << d >> \o c \in Text
         /\ IsPrefix(a, a \o b \o << d >> \o c)
<1>1. PICK t : t = a \o b \o << d >> \o c
  OBVIOUS
<1>2. Parts(t, a, b, d, c)
  BY <1>1, PutTogether
<1>3. Len(a) <= Len(t) /\ Len(a) \in Nat /\ t \in Text
  BY <1>2 DEF Parts, Text
<1>4. IsPrefix(a, t)
  BY <1>2, <1>3, PrefixByPlaces DEF Parts
<1> QED
  BY <1>1, <1>3, <1>4, Zenon

(* A URL with a port comes apart on every C library. *)
LEMMA ParsedUrl ==
  ASSUME NEW libc, NEW scheme \in Scheme, NEW host \in Host,
         NEW port \in PortText, NEW path \in Path
  PROVE  pmap_ut_parse_url(libc, Url(scheme, host, port, path)) =
           Components(scheme, host, atoi(port), path)
<1>1. /\ scheme \in Mark /\ ~Has(scheme, ":")
      /\ host \in Mark /\ ~Has(host, ":")
      /\ port \in Mark /\ ~Has(port, "/")
      /\ path \in Text
      /\ scheme \in Text /\ host \in Text /\ port \in Text
      /\ ":" \in Char /\ "/" \in Char /\ NULL \notin Text
  BY StringConstantsOK DEF Mark
<1>2. PICK d : d = TwoSlashes \o host
  OBVIOUS
<1>3. d \in Mark /\ d \in Text /\ ~Has(d, ":") /\ HostOf(d) = host
  BY <1>1, <1>2, HostToken DEF Mark
<1>4. PICK r : r = port \o << "/" >> \o path
  OBVIOUS
<1>5. r \in Text /\ strtok_r(libc, r, "/") = [token |-> port, rest |-> path]
  <2>1. r \in Text
    BY <1>1, <1>4, OneElement DEF Text
  <2> QED
    BY <1>1, <1>4, <2>1, FirstToken
<1>6. PICK q : q = d \o << ":" >> \o r
  OBVIOUS
<1>7. q \in Text /\ strtok_r(libc, q, ":") = [token |-> d, rest |-> r]
  <2>1. q \in Text
    BY <1>1, <1>3, <1>5, <1>6, OneElement DEF Text
  <2> QED
    BY <1>1, <1>3, <1>5, <1>6, <2>1, FirstToken
<1>8. PICK url : url = Url(scheme, host, port, path)
  OBVIOUS
<1>9. strtok_r(libc, url, ":") = [token |-> scheme, rest |-> q]
  <2>1. url = scheme \o << ":" >> \o q
    <3>1. Url(scheme, host, port, path) =
            scheme \o << ":" >> \o
              ((TwoSlashes \o host) \o << ":" >> \o (port \o << "/" >> \o path))
      <4>1. scheme \in Text /\ host \in Text /\ port \in Text /\ path \in Text
        BY <1>1
      <4>2. UrlTokens(scheme, host, port, path)
        BY <4>1, UrlByTokens
      <4> QED
        BY <4>2, Zenon DEF UrlTokens
    <3> QED
      BY <1>2, <1>4, <1>6, <1>8, <3>1, Zenon
  <2> QED
    BY <1>1, <1>7, <2>1, FirstToken
<1>10. IsPrefix(<< "/", "/" >>, q)
  <2>1. q = TwoSlashes \o host \o << ":" >> \o r
    BY <1>2, <1>6, Zenon
  <2> QED
    BY <1>1, <1>5, <2>1, TwoSlashesAreText, Beginning DEF TwoSlashes
<1>11. /\ scheme # NULL /\ q # NULL /\ r # NULL /\ port # NULL
  BY <1>1, <1>5, <1>7
<1>12. WithPort(libc, scheme, d, r) = Components(scheme, host, atoi(port), path)
  BY <1>3, <1>5, <1>11 DEF WithPort
<1>13. pmap_ut_parse_url(libc, url) = WithPort(libc, scheme, d, r)
  <2>1. /\ strtok_r(libc, url, ":").token = scheme /\ strtok_r(libc, url, ":").rest = q
        /\ strtok_r(libc, q, ":").token = d /\ strtok_r(libc, q, ":").rest = r
    BY <1>7, <1>9
  <2> QED
    BY <2>1, <1>10, <1>11 DEF pmap_ut_parse_url
<1> QED
  BY <1>8, <1>12, <1>13, Zenon

(* Without a port it does where strtok_r leaves NULL. *)
LEMMA ParsedPortless ==
  ASSUME NEW scheme \in Scheme, NEW host \in Host, NEW path \in Path, ~Has(path, ":")
  PROVE  pmap_ut_parse_url("bsd", Portless(scheme, host, path)) =
           Components(scheme, host, 80, path)
<1>1. /\ scheme \in Mark /\ ~Has(scheme, ":")
      /\ host \in Mark /\ ~Has(host, ":") /\ ~Has(host, "/")
      /\ path \in Text /\ scheme \in Text /\ host \in Text
      /\ ":" \in Char /\ "/" \in Char /\ NULL \notin Text
  BY StringConstantsOK DEF Mark
<1>2. PICK q : q = TwoSlashes \o host \o << "/" >> \o path
  OBVIOUS
<1>3. q \in Text /\ IsPrefix(<< "/", "/" >>, q)
  BY <1>1, <1>2, TwoSlashesAreText, Beginning DEF TwoSlashes
<1>4. Parts(q, TwoSlashes, host, "/", path)
  BY <1>1, <1>2, TwoSlashesAreText, PutTogether
<1>5. q \in Mark
  <2>1. Len(q) # 0
    BY <1>1, <1>4, TwoSlashesAreText DEF Parts, Text
  <2> QED
    BY <1>3, <2>1, EmptySeq DEF Mark
<1>6. ~Has(q, ":")
  <2>1. /\ Len(host) \in Nat /\ Len(path) \in Nat /\ Len(q) = 3 + Len(host) + Len(path)
        /\ DOMAIN q = 1 .. Len(q) /\ DOMAIN host = 1 .. Len(host) /\ DOMAIN path = 1 .. Len(path)
    BY <1>1, <1>4, TwoSlashesAreText DEF Parts, Text
  <2>2. /\ \A k \in 1 .. 2 : q[k] = "/"
        /\ \A k \in 1 .. Len(host) : q[2 + k] = host[k]
        /\ q[3 + Len(host)] = "/"
        /\ \A k \in 1 .. Len(path) : q[3 + Len(host) + k] = path[k]
    BY <1>4, <2>1, TwoSlashesAreText DEF Parts
  <2>3. ASSUME NEW k \in 1 .. Len(q) PROVE q[k] # ":"
    <3>1. CASE k \in 1 .. 2
      BY <2>2, <3>1
    <3>2. CASE k \in 3 .. 2 + Len(host)
      <4>1. PICK n \in 1 .. Len(host) : k = 2 + n
        <5>1. k - 2 \in 1 .. Len(host) /\ k = 2 + (k - 2)
          BY <2>1, <3>2
        <5> QED
          BY <5>1
      <4> QED
        BY <1>1, <2>1, <2>2, <4>1 DEF Has
    <3>3. CASE k = 3 + Len(host)
      BY <2>2, <3>3
    <3>4. CASE k \in 4 + Len(host) .. Len(q)
      <4>1. PICK n \in 1 .. Len(path) : k = 3 + Len(host) + n
        <5>1. k - 3 - Len(host) \in 1 .. Len(path) /\ k = 3 + Len(host) + (k - 3 - Len(host))
          BY <2>1, <3>4
        <5> QED
          BY <5>1
      <4> QED
        BY <2>1, <2>2, <4>1 DEF Has
    <3> QED
      BY <2>1, <3>1, <3>2, <3>3, <3>4
  <2> QED
    BY <2>1, <2>3 DEF Has
<1>7. strtok_r("bsd", q, ":") = [token |-> q, rest |-> NULL]
  BY <1>5, <1>6, TokenAtEnd
<1>8. strtok_r("bsd", q, "/") = [token |-> host, rest |-> path]
  <2>1. \A k \in DOMAIN TwoSlashes : TwoSlashes[k] = "/"
    BY TwoSlashesAreText DEF Text
  <2>2. TokenIn(q, TwoSlashes, host, "/", path)
    BY <1>1, <1>2, <2>1, TwoSlashesAreText DEF TokenIn
  <2> QED
    BY <2>2, TokenBeforeRest
<1>9. PICK url : url = Portless(scheme, host, path)
  OBVIOUS
<1>10. strtok_r("bsd", url, ":") = [token |-> scheme, rest |-> q]
  <2>1. url = scheme \o << ":" >> \o q
    BY <1>1, <1>2, <1>9, PortlessByTokens, Zenon
  <2> QED
    BY <1>1, <1>3, <2>1, FirstToken
<1>11. scheme # NULL /\ q # NULL /\ path # NULL
  BY <1>1, <1>3
<1>12. WithoutPort("bsd", scheme, q) = Components(scheme, host, 80, path)
  BY <1>8, <1>11 DEF WithoutPort, DefaultPort
<1>13. pmap_ut_parse_url("bsd", url) = WithoutPort("bsd", scheme, q)
  <2>1. /\ strtok_r("bsd", url, ":").token = scheme /\ strtok_r("bsd", url, ":").rest = q
        /\ strtok_r("bsd", q, ":").token = q /\ strtok_r("bsd", q, ":").rest = NULL
    BY <1>7, <1>10
  <2> QED
    BY <2>1, <1>3, <1>11 DEF pmap_ut_parse_url
<1> QED
  BY <1>9, <1>12, <1>13, Zenon

-----------------------------------------------------------------------------
(* What is taken apart are texts, and none is longer than the whole. *)

LEMMA PartOfText ==
  ASSUME NEW text \in Text, NEW m \in Nat \ {0}, NEW n \in 0 .. Len(text)
  PROVE  SubSeq(text, m, n) \in Text /\ Len(SubSeq(text, m, n)) <= Len(text)
<1>1. text \in Seq(Char) /\ Len(text) \in Nat /\ n \in Nat
  BY DEF Text
<1>2. CASE m <= n
  <2>1. \A k \in m .. n : text[k] \in Char
    BY <1>1
  <2>2. SubSeq(text, m, n) \in Seq(Char) /\ Len(SubSeq(text, m, n)) = n - m + 1
    BY <1>1, <1>2, <2>1
  <2> QED
    BY <1>1, <1>2, <2>2 DEF Text
<1>3. CASE ~(m <= n)
  <2>1. SubSeq(text, m, n) = << >>
    BY <1>1, <1>3, SubSeqEmpty
  <2> QED
    BY <1>1, <2>1, EmptySeq DEF Text
<1> QED
  BY <1>2, <1>3

NoLonger(part, text) ==
  part = NULL \/ (part \in Text /\ Len(part) <= Len(text))

LEMMA TokensAreTexts ==
  ASSUME NEW libc, NEW text \in Text, NEW delim
  PROVE  /\ NoLonger(strtok_r(libc, text, delim).token, text)
         /\ NoLonger(strtok_r(libc, text, delim).rest, text)
         /\ strtok_r(libc, text, delim).token = NULL
              => \A i \in 1 .. Len(text) : text[i] = delim
<1> DEFINE starts == { i \in 1 .. Len(text) : text[i] # delim }
           first  == FirstOr(starts, Len(text) + 1)
           ends   == { i \in first .. Len(text) : text[i] = delim }
           last   == FirstOr(ends, Len(text) + 1)
           r      == strtok_r(libc, text, delim)
<1>1. Len(text) \in Nat /\ starts \in SUBSET (1 .. Len(text))
  BY DEF Text
<1>2. first \in 1 .. Len(text) + 1 /\ (first > Len(text) => starts = {})
  <2> HIDE DEF starts
  <2> QED
    BY <1>1, FirstOrEnd
<1>3. ends \in SUBSET (1 .. Len(text))
  <2> HIDE DEF first
  <2> QED
    BY <1>1, <1>2
<1>4. last \in 1 .. Len(text) + 1
  <2> HIDE DEF ends
  <2> QED
    BY <1>1, <1>3, FirstOrEnd
<1>5. /\ r.token = IF first > Len(text) THEN NULL ELSE SubSeq(text, first, last - 1)
      /\ r.rest = IF last > Len(text)
                  THEN IF libc = "bsd" THEN NULL ELSE << >>
                  ELSE SubSeq(text, last + 1, Len(text))
  BY DEF strtok_r
<1>6. first > Len(text) => \A i \in 1 .. Len(text) : text[i] = delim
  BY <1>2
<1> HIDE DEF first, last, r
<1>7. /\ SubSeq(text, first, last - 1) \in Text
      /\ Len(SubSeq(text, first, last - 1)) <= Len(text)
  BY <1>1, <1>2, <1>4, PartOfText
<1>8. /\ SubSeq(text, last + 1, Len(text)) \in Text
      /\ Len(SubSeq(text, last + 1, Len(text))) <= Len(text)
  BY <1>1, <1>4, PartOfText
<1>9. PICK empty \in Text : empty = << >> /\ Len(empty) <= Len(text)
  <2>1. PICK empty \in Text : empty = << >>
    BY EmptySeq, Zenon DEF Text
  <2>2. Len(empty) = 0
    BY <2>1, EmptySeq
  <2>3. Len(empty) <= Len(text)
    BY <1>1, <2>2
  <2> QED
    BY <2>1, <2>3
<1>10. NoLonger(r.token, text)
  <2>1. NoLonger(SubSeq(text, first, last - 1), text) /\ NoLonger(NULL, text)
    BY <1>7, Zenon DEF NoLonger
  <2> QED
    BY <1>5, <2>1
<1>11. NoLonger(r.rest, text)
  <2>1. /\ NoLonger(SubSeq(text, last + 1, Len(text)), text) /\ NoLonger(NULL, text)
        /\ NoLonger(<< >>, text)
    BY <1>8, <1>9, Zenon DEF NoLonger
  <2> QED
    BY <1>5, <2>1
<1>12. r.token = NULL => \A i \in 1 .. Len(text) : text[i] = delim
  <2>1. NULL \notin Text
    BY StringConstantsOK
  <2> QED
    BY <1>5, <1>6, <1>7, <2>1
<1> QED
  BY <1>10, <1>11, <1>12 DEF r

(* The digits stand for a number: the recursive function of atoi exists. *)
LEMMA AtoiIsNumber ==
  ASSUME NEW text \in Text
  PROVE  atoi(text) \in Nat
<1> DEFINE end == FirstOr({ i \in 1 .. Len(text) : text[i] \notin DOMAIN Digit },
                          Len(text) + 1)
           Reads(f, m) ==
             f = [n \in 0 .. m |-> IF n = 0 THEN 0
                                   ELSE 10 * f[n - 1] + Digit[text[n]]]
           S == { m \in Nat : m <= end - 1 =>
                    \E f \in [0 .. m -> Nat] : Reads(f, m) }
<1>1. /\ Len(text) \in Nat
      /\ { i \in 1 .. Len(text) : text[i] \notin DOMAIN Digit } \in SUBSET Nat
  BY DEF Text
<1>2. /\ end \in 1 .. Len(text) + 1
      /\ \A i \in 1 .. end - 1 : text[i] \in DOMAIN Digit
  <2>1. \/ end = Len(text) + 1 /\ \A i \in 1 .. Len(text) : text[i] \in DOMAIN Digit
        \/ /\ end \in 1 .. Len(text)
           /\ \A i \in 1 .. Len(text) : text[i] \notin DOMAIN Digit => end <= i
    BY <1>1, FirstOrIsFirst
  <2> HIDE DEF end
  <2> QED
    BY <1>1, <2>1
<1>3. \A c \in DOMAIN Digit : Digit[c] \in Nat
  BY DEF Digit
<1> HIDE DEF end
<1>4. end - 1 \in Nat
  BY <1>1, <1>2
<1>5. 0 \in S
  <2>1. PICK f \in [0 .. 0 -> Nat] : f = [n \in 0 .. 0 |-> 0]
    OBVIOUS
  <2>2. Reads(f, 0)
    BY <2>1
  <2> QED
    BY <2>2
<1>6. ASSUME NEW m \in Nat, m \in S, m + 1 <= end - 1
      PROVE  \E f \in [0 .. m + 1 -> Nat] : Reads(f, m + 1)
  <2>1. PICK f \in [0 .. m -> Nat] : Reads(f, m)
    BY <1>4, <1>6
  <2> DEFINE next == 10 * f[m] + Digit[text[m + 1]]
             g == [n \in 0 .. m + 1 |-> IF n <= m THEN f[n] ELSE next]
  <2>2. next \in Nat
    <3>1. Digit[text[m + 1]] \in Nat
      BY <1>2, <1>3, <1>6
    <3>2. f[m] \in Nat
      OBVIOUS
    <3> QED
      BY <3>1, <3>2
  <2>3. g \in [0 .. m + 1 -> Nat]
    BY <2>2
  <2>4. ASSUME NEW n \in 0 .. m + 1
        PROVE  g[n] = IF n = 0 THEN 0 ELSE 10 * g[n - 1] + Digit[text[n]]
    <3>1. CASE n <= m
      <4>1. f[n] = IF n = 0 THEN 0 ELSE 10 * f[n - 1] + Digit[text[n]]
        BY <2>1, <3>1
      <4>2. g[n] = f[n] /\ (n # 0 => g[n - 1] = f[n - 1])
        BY <3>1
      <4> QED
        BY <4>1, <4>2
    <3>2. CASE n = m + 1
      <4>1. g[n] = next /\ g[n - 1] = f[m] /\ n # 0
        BY <3>2
      <4> QED
        BY <3>2, <4>1
    <3> QED
      BY <3>1, <3>2
  <2>5. Reads(g, m + 1)
    BY <2>4
  <2> QED
    BY <2>3, <2>5
<1>7. end - 1 \in S
  <2>1. ASSUME NEW m \in Nat, m \in S PROVE m + 1 \in S
    <3>1. m + 1 <= end - 1 => \E f \in [0 .. m + 1 -> Nat] : Reads(f, m + 1)
      BY <1>6, <2>1
    <3>2. m + 1 \in Nat
      OBVIOUS
    <3> HIDE DEF Reads
    <3> QED
      BY <3>1, <3>2
  <2> QED
    BY <1>4, <1>5, <2>1, SetInduction
<1>8. PICK f \in [0 .. end - 1 -> Nat] : Reads(f, end - 1)
  BY <1>4, <1>7
<1> DEFINE value == CHOOSE g : Reads(g, end - 1)
<1>9. Reads(value, end - 1)
  BY <1>8
<1>10. value[end - 1] \in Nat
  <2> DEFINE T == { n \in Nat : n <= end - 1 => value[n] \in Nat }
  <2> HIDE DEF value
  <2>1. 0 \in T
    BY <1>4, <1>9
  <2>2. ASSUME NEW n \in Nat, n \in T PROVE n + 1 \in T
    <3>1. SUFFICES ASSUME n + 1 <= end - 1 PROVE value[n + 1] \in Nat
      OBVIOUS
    <3>2. value[n] \in Nat
      BY <1>4, <2>2, <3>1
    <3>3. value[n + 1] = 10 * value[n] + Digit[text[n + 1]]
      BY <1>4, <1>9, <3>1
    <3>4. Digit[text[n + 1]] \in Nat
      BY <1>2, <1>3, <3>1
    <3> QED
      BY <3>2, <3>3, <3>4
  <2>3. end - 1 \in T
    BY <1>4, <2>1, <2>2, SetInduction
  <2> QED
    BY <1>4, <2>3
<1> QED
  BY <1>10 DEF atoi, end

(* The parts of any URL are texts, and its port is a number. *)
LEMMA ParsedIsNoLonger ==
  ASSUME NEW libc, NEW url \in Text
  PROVE  LET r == pmap_ut_parse_url(libc, url)
         IN  \/ r = UndefinedUrl
             \/ /\ r.port \in Nat
                /\ NoLonger(r.host, url) /\ NoLonger(r.path, url)
<1> DEFINE r      == pmap_ut_parse_url(libc, url)
           scheme == strtok_r(libc, url, ":")
           host   == strtok_r(libc, scheme.rest, ":")
           IsParsed(c) ==
             /\ c.port \in Nat
             /\ NoLonger(c.host, url) /\ NoLonger(c.path, url)
<1>1. \A s, h, p, q :
        p \in Nat /\ NoLonger(h, url) /\ NoLonger(q, url)
          => IsParsed(Components(s, h, p, q))
  BY DEF Components
<1>2. NoLonger(NULL, url) /\ 0 \in Nat /\ DefaultPort \in Nat
  BY Zenon DEF NoLonger, DefaultPort
<1>3. Len(url) \in Nat
  BY DEF Text
<1> DEFINE rest == scheme.rest
<1>4. NoLonger(rest, url)
  BY TokensAreTexts
<1>5. /\ scheme.token = NULL => r = Invalid
      /\ scheme.token # NULL /\ rest = NULL => r = UndefinedUrl
      /\ scheme.token # NULL /\ rest # NULL /\ ~ IsPrefix(<< "/", "/" >>, rest)
           => r = Components(scheme.token, NULL, DefaultPort, rest)
      /\ scheme.token # NULL /\ rest # NULL /\ IsPrefix(<< "/", "/" >>, rest) /\ host.rest # NULL
           => r = WithPort(libc, scheme.token, host.token, host.rest)
      /\ scheme.token # NULL /\ rest # NULL /\ IsPrefix(<< "/", "/" >>, rest) /\ host.rest = NULL
           => r = WithoutPort(libc, scheme.token, host.token)
  BY DEF pmap_ut_parse_url
<1> SUFFICES r = UndefinedUrl \/ IsParsed(r)
  OBVIOUS
<1> HIDE DEF r, scheme, IsParsed
<1>6. CASE scheme.token = NULL
  BY <1>1, <1>2, <1>5, <1>6 DEF Invalid
<1>7. CASE scheme.token # NULL /\ rest = NULL
  BY <1>5, <1>7
<1>8. CASE scheme.token # NULL /\ rest # NULL /\ ~ IsPrefix(<< "/", "/" >>, rest)
  <2>1. IsParsed(Components(scheme.token, NULL, DefaultPort, rest))
    BY <1>1, <1>2, <1>4
  <2> QED
    BY <1>5, <1>8, <2>1
<1>9. CASE scheme.token # NULL /\ rest # NULL /\ IsPrefix(<< "/", "/" >>, rest)
  <2>1. rest \in Text /\ Len(rest) \in Nat /\ Len(rest) <= Len(url)
    BY <1>4, <1>9 DEF NoLonger, Text
  <2>2. 1 \in 1 .. Len(rest) /\ rest[1] # ":"
    <3>1. 2 <= Len(rest) /\ \A k \in 1 .. 2 : rest[k] = "/"
      BY <1>9, <2>1, TwoSlashesAreText, PrefixByPlaces DEF TwoSlashes
    <3> QED
      BY <2>1, <3>1
  <2>3. /\ host.token \in Text /\ Len(host.token) <= Len(rest)
        /\ NoLonger(host.rest, rest)
    BY <2>1, <2>2, TokensAreTexts DEF NoLonger
  <2> HIDE DEF host
  <2>4. Len(host.token) \in Nat
    BY <2>3 DEF Text
  <2>5. CASE host.rest # NULL
    <3>1. host.rest \in Text /\ Len(host.rest) \in Nat /\ Len(host.rest) <= Len(url)
      BY <2>1, <2>3, <2>5 DEF NoLonger, Text
    <3>2. NoLonger(HostOf(host.token), url)
      <4>1. /\ HostOf(host.token) \in Text
            /\ Len(HostOf(host.token)) <= Len(host.token)
        BY <2>3, <2>4, PartOfText DEF HostOf
      <4>2. Len(HostOf(host.token)) \in Nat
        BY <4>1 DEF Text
      <4> QED
        BY <1>3, <2>1, <2>3, <2>4, <4>1, <4>2 DEF NoLonger
    <3> DEFINE port   == strtok_r(libc, host.rest, "/")
               number == IF port.token = NULL THEN DefaultPort ELSE atoi(port.token)
    <3>3. NoLonger(port.token, host.rest) /\ NoLonger(port.rest, host.rest)
      BY <3>1, TokensAreTexts
    <3>4. number \in Nat
      BY <1>2, <3>3, AtoiIsNumber DEF NoLonger
    <3>5. NoLonger(port.rest, url)
      <4>1. CASE port.rest = NULL
        BY <1>2, <4>1
      <4>2. CASE port.rest # NULL
        <5>1. port.rest \in Text /\ Len(port.rest) <= Len(host.rest) /\ Len(port.rest) \in Nat
          BY <3>3, <4>2 DEF NoLonger, Text
        <5> QED
          BY <1>3, <3>1, <5>1 DEF NoLonger
      <4> QED
        BY <4>1, <4>2
    <3>6. r = Components(scheme.token, HostOf(host.token), number, port.rest)
      BY <1>5, <1>9, <2>5 DEF WithPort
    <3> QED
      BY <1>1, <3>2, <3>4, <3>5, <3>6
  <2>6. CASE host.rest = NULL
    <3> DEFINE name == strtok_r(libc, host.token, "/")
               known == IF name.rest = NULL THEN NULL ELSE name.token
    <3>1. NoLonger(name.token, host.token) /\ NoLonger(name.rest, host.token)
      BY <2>3, TokensAreTexts
    <3>2. ASSUME NEW part, NoLonger(part, host.token) PROVE NoLonger(part, url)
      <4>1. CASE part = NULL
        BY <1>2, <4>1
      <4>2. CASE part # NULL
        <5>1. part \in Text /\ Len(part) <= Len(host.token) /\ Len(part) \in Nat
          BY <3>2, <4>2 DEF NoLonger, Text
        <5> QED
          BY <1>3, <2>1, <2>3, <2>4, <5>1 DEF NoLonger
      <4> QED
        BY <4>1, <4>2
    <3>3. NoLonger(known, url) /\ NoLonger(name.rest, url)
      BY <1>2, <3>1, <3>2
    <3>4. r = Components(scheme.token, known, DefaultPort, name.rest)
      BY <1>5, <1>9, <2>6 DEF WithoutPort
    <3> QED
      BY <1>1, <1>2, <3>3, <3>4
  <2> QED
    BY <2>5, <2>6
<1> QED
  BY <1>6, <1>7, <1>8, <1>9
=============================================================================
