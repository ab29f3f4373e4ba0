--------------------------- MODULE OptionsProofs ----------------------------
(***************************************************************************)
(* Proofs about Options, for any options of a program, any number of items *)
(* on the command line and any arguments and operands: getopt returns each *)
(* option once, in order and with its argument, and stops at the operands. *)
(***************************************************************************)
EXTENDS Options, SequenceTheorems, TLAPS

(* The characters; the provers do not know that these are among the strings. *)
Char == STRING \cup {"-", "?", "prog"}

Items == [letter : Char \ {"-", ":", "EOF"}, arg : Seq(Char) \cup {NULL},
          joined : BOOLEAN, heels : BOOLEAN]
Seen == Char \X (Seq(Char) \cup {NULL})

(* The item has an argument that is an argument of the command line. *)
HasOwn(item, opts) ==
  TakesArgument(item.letter, opts) /\ item.arg # NULL /\ ~item.heels
Behind(item, opts) == IF HasOwn(item, opts) THEN 1 ELSE 0

JoinedNext(its, k) == k < Len(its) /\ its[k + 1].joined

(* What Type asks of an item and of the one before it. *)
Proper(its, opts, k) ==
  /\ its[k].heels => its[k].arg \notin {NULL, << >>}
  /\ its[k].arg # NULL => TakesArgument(its[k].letter, opts)
  /\ TakesArgument(its[k].letter, opts) =>
       ~JoinedNext(its, k) /\ (its[k].arg = NULL => k = Len(its))

(* Option k is letter c[k] of argument g[k]; its argument is where it should. *)
Stands(its, opts, line, g, c, k) ==
  /\ g[k] \in 2 .. Len(line) /\ c[k] \in 2 .. Len(line[g[k]])
  /\ line[g[k]][1] = "-" /\ line[g[k]][c[k]] = its[k].letter
  /\ IF its[k].heels
     THEN SubSeq(line[g[k]], c[k] + 1, Len(line[g[k]])) = its[k].arg
     ELSE c[k] = Len(line[g[k]]) \/ JoinedNext(its, k)
  /\ HasOwn(its[k], opts) => g[k] < Len(line) /\ line[g[k] + 1] = its[k].arg

(* The number of arguments up to option k and its argument. *)
UpTo(its, opts, g, k) == IF k = 0 THEN 1 ELSE g[k] + Behind(its[k], opts)

Follows(its, opts, g, c, k) ==
  IF its[k].joined THEN k > 1 /\ g[k] = g[k - 1] /\ c[k] = c[k - 1] + 1
  ELSE g[k] = UpTo(its, opts, g, k - 1) + 1 /\ c[k] = 2

(* The last group is not touched by what belongs to those before it. *)
Precedes(its, opts, g, k) ==
  IF JoinedNext(its, k) THEN g[k] <= g[Len(its)]
  ELSE UpTo(its, opts, g, k) < g[Len(its)]

Written(its, opts, line, g, c) ==
  /\ \A k \in 1 .. Len(its) :
       /\ Proper(its, opts, k) /\ Stands(its, opts, line, g, c, k)
       /\ Follows(its, opts, g, c, k)
  /\ \A k \in 1 .. Len(its) - 1 : Precedes(its, opts, g, k)

IncompleteLast(its, opts) ==
  /\ its # << >> /\ TakesArgument(its[Len(its)].letter, opts)
  /\ its[Len(its)].arg = NULL

(* Behind the options "--", if d is 1, and the operands. *)
Closed(its, opts, line, rest, g, d) ==
  LET n == UpTo(its, opts, g, Len(its))
  IN  /\ Len(line) = n + d + Len(rest)
      /\ IF d = 1 THEN line[n + 1] = << "-", "-" >> ELSE ~IsGroup(rest, 0)
      /\ \A i \in 1 .. Len(rest) : line[n + d + i] = rest[i]
      /\ IncompleteLast(its, opts) => d = 0 /\ rest = << >>

(* getopt stands behind option k. *)
ReadUpTo(its, opts, line, g, c, k, s) ==
  IF k = 0 THEN s = Untouched
  ELSE /\ s.optind = UpTo(its, opts, g, k)
       /\ s.next = IF TakesArgument(its[k].letter, opts) THEN << >>
                   ELSE SubSeq(line[g[k]], c[k] + 1, Len(line[g[k]]))

ExpectedOf(item, opts) ==
  IF /\ item.letter \in Letters(opts)
     /\ TakesArgument(item.letter, opts) => item.arg # NULL
  THEN << item.letter, item.arg >> ELSE << "?", NULL >>

Placed(g, c) ==
  /\ Len(g) = Len(items) /\ Len(c) = Len(items)
  /\ Written(items, optstring, args, g, c)
  /\ pc = "typing" => Len(args) = UpTo(items, optstring, g, Len(items))
  /\ pc # "typing" =>
       \E d \in 0 .. 1 : Closed(items, optstring, args, operands, g, d)
  /\ pc = "reading" =>
       ReadUpTo(items, optstring, args, g, c, Len(options), state)

Typed ==
  /\ items \in Seq(Items) /\ args \in Seq(Seq(Char)) /\ args # << >>
  /\ operands \in Seq(Seq(Char)) /\ options \in Seq(Seen)

OptionsInv ==
  /\ Typed /\ OptionsTypeOK /\ OptionsAreRead
  /\ \E g, c \in Seq(Nat) : Placed(g, c)

-----------------------------------------------------------------------------
(* Sequences *)

LEMMA RestOfGroup ==
  ASSUME NEW s \in Seq(Char), NEW c \in 1 .. Len(s)
  PROVE  /\ SubSeq(s, c, Len(s)) \in Seq(Char)
         /\ SubSeq(s, c, Len(s)) # << >>
         /\ Head(SubSeq(s, c, Len(s))) = s[c]
         /\ Tail(SubSeq(s, c, Len(s))) = SubSeq(s, c + 1, Len(s))
<1>1. Len(s) \in Nat /\ c \in Int /\ Len(s) \in c .. Len(s)
  OBVIOUS
<1>2. \A i \in c .. Len(s) : s[i] \in Char
  OBVIOUS
<1>3. /\ SubSeq(s, c, Len(s)) \in Seq(Char)
      /\ Len(SubSeq(s, c, Len(s))) = Len(s) - c + 1
  BY <1>1, <1>2, SubSeqProperties
<1>4. SubSeq(s, c, Len(s)) # << >>
  BY <1>1, <1>3, EmptySeq
<1> QED
  BY <1>1, <1>3, <1>4, HeadTailOfSubSeq

LEMMA NoRest ==
  ASSUME NEW s \in Seq(Char)
  PROVE  SubSeq(s, Len(s) + 1, Len(s)) = << >>
BY SubSeqEmpty

(* What getopt finds in an argument that is a group of options. *)
LEMMA BehindDash ==
  ASSUME NEW s \in Seq(Char), Len(s) > 1
  PROVE  Tail(s) = SubSeq(s, 2, Len(s))
<1>1. s # << >>
  BY EmptySeq
<1> QED
  BY <1>1, TailIsSubSeq

LEMMA BothParts ==
  ASSUME NEW S, NEW r \in Seq(S), NEW s \in Seq(S)
  PROVE  /\ r \o s \in Seq(S) /\ Len(r \o s) = Len(r) + Len(s)
         /\ \A i \in 1 .. Len(r) : (r \o s)[i] = r[i]
         /\ \A i \in 1 .. Len(s) : (r \o s)[Len(r) + i] = s[i]
<1>1. /\ r \o s \in Seq(S) /\ Len(r \o s) = Len(r) + Len(s)
      /\ \A i \in 1 .. Len(r) + Len(s) :
           (r \o s)[i] = IF i <= Len(r) THEN r[i] ELSE s[i - Len(r)]
  BY ConcatProperties
<1>2. \A i \in 1 .. Len(r) : i \in 1 .. Len(r) + Len(s) /\ i <= Len(r)
  OBVIOUS
<1>3. \A i \in 1 .. Len(s) : /\ Len(r) + i \in 1 .. Len(r) + Len(s)
                             /\ ~(Len(r) + i <= Len(r)) /\ Len(r) + i - Len(r) = i
  OBVIOUS
<1>4. ASSUME NEW i \in 1 .. Len(s) PROVE (r \o s)[Len(r) + i] = s[i]
  BY <1>1, <1>3
<1> QED
  BY <1>1, <1>2, <1>4

LEMMA EndOfLine ==
  ASSUME NEW S, NEW line \in Seq(S), NEW i \in Nat,
         NEW rest \in Seq(S), Len(line) = i + Len(rest),
         \A k \in 1 .. Len(rest) : line[i + k] = rest[k]
  PROVE  SubSeq(line, i + 1, Len(line)) = rest
<1> DEFINE m == i + 1
           n == Len(line)
           r == SubSeq(line, m, n)
<1>1. /\ m \in Int /\ n \in Int /\ n - m + 1 = Len(rest)
      /\ \A k \in m .. n : line[k] \in S
  OBVIOUS
<1> HIDE DEF m, n
<1>2. /\ r \in Seq(S)
      /\ Len(r) = IF m <= n THEN n - m + 1 ELSE 0
      /\ \A k \in 1 .. n - m + 1 : r[k] = line[m + k - 1]
  BY <1>1, SubSeqProperties
<1> HIDE DEF r
<1>3. Len(r) = Len(rest)
  BY <1>1, <1>2
<1>4. ASSUME NEW k \in 1 .. Len(rest) PROVE r[k] = rest[k]
  <2>1. m + k - 1 = i + k
    BY DEF m
  <2>2. r[k] = line[m + k - 1]
    BY <1>1, <1>2
  <2> QED
    BY <2>1, <2>2
<1>5. r = rest
  BY <1>2, <1>3, <1>4, SeqEqual
<1> QED
  BY <1>5 DEF r, m, n

-----------------------------------------------------------------------------
(* getopt *)

(* Option k of the items is what Option returns for the rest of a group that
   begins with it. *)
LEMMA OptionReturns ==
  ASSUME NEW its \in Seq(Items), NEW opts, NEW line \in Seq(Seq(Char)),
         NEW g, NEW c, NEW k \in 1 .. Len(its),
         Proper(its, opts, k), Stands(its, opts, line, g, c, k),
         IncompleteLast(its, opts) /\ k = Len(its) => g[k] = Len(line),
         NEW group, group = SubSeq(line[g[k]], c[k], Len(line[g[k]])),
         NEW s, s = Option(line, opts, g[k], group)
  PROVE  /\ << s.ret, s.optarg >> = ExpectedOf(its[k], opts)
         /\ s.ret \in {its[k].letter, "?"}
         /\ ReadUpTo(its, opts, line, g, c, k, s)
<1> DEFINE item == its[k]
           text == line[g[k]]
           rest == SubSeq(text, c[k] + 1, Len(text))
           takes == TakesArgument(item.letter, opts)
<1>1. item \in Items /\ k # 0
  OBVIOUS
<1>2. text \in Seq(Char) /\ c[k] \in 1 .. Len(text) /\ g[k] \in Nat
  BY DEF Stands
<1>3. Head(group) = item.letter /\ Tail(group) = rest
  BY <1>2, RestOfGroup DEF Stands
<1>4. item.letter # ":"
  BY <1>1 DEF Items
<1>5. takes => item.letter \in Letters(opts)
  BY <1>4 DEF TakesArgument, Letters
<1>6. UpTo(its, opts, g, k) = g[k] + Behind(item, opts)
  BY <1>1 DEF UpTo
<1>7. takes /\ ~item.heels => rest = << >>
  <2>1. takes /\ ~item.heels => c[k] = Len(text)
    BY DEF Proper, Stands
  <2> QED
    BY <1>2, <2>1, NoRest
<1>8. takes /\ item.heels => rest = item.arg /\ item.arg # NULL /\ item.arg # << >>
  BY DEF Proper, Stands
<1>9. HasOwn(item, opts) => g[k] < Len(line) /\ line[g[k] + 1] = item.arg
  BY DEF Stands
<1>10. takes /\ item.arg = NULL => g[k] = Len(line)
  <2>1. takes /\ item.arg = NULL => k = Len(its)
    BY DEF Proper
  <2>2. its # << >>
    BY EmptySeq
  <2> QED
    BY <2>1, <2>2 DEF IncompleteLast
<1>11. ~takes => item.arg = NULL
  BY DEF Proper
<1>12. Len(line) \in Nat
  OBVIOUS
<1> HIDE DEF text, rest, takes, item
<1>13. s = IF item.letter \notin Letters(opts) THEN State(g[k], rest, NULL, "?")
           ELSE IF ~ takes THEN State(g[k], rest, NULL, item.letter)
           ELSE IF rest # << >> THEN State(g[k], << >>, rest, item.letter)
           ELSE IF g[k] < Len(line)
           THEN State(g[k] + 1, << >>, line[g[k] + 1], item.letter)
           ELSE State(g[k], << >>, NULL, "?")
  BY <1>3 DEF Option, takes
<1>14. ASSUME NEW ret, NEW arg, NEW own \in 0 .. 1, NEW next,
             s = State(g[k] + own, next, arg, ret),
             own = Behind(item, opts), next = IF takes THEN << >> ELSE rest
       PROVE  /\ s.ret = ret /\ s.optarg = arg
              /\ ReadUpTo(its, opts, line, g, c, k, s)
  <2>1. s.optind = UpTo(its, opts, g, k) /\ s.next = next
    BY <1>6, <1>14 DEF State
  <2> QED
    BY <1>1, <1>14, <2>1 DEF State, ReadUpTo, takes, rest, text, item
<1>15. g[k] + 0 = g[k]
  BY <1>2
<1>16. CASE ~takes
  <2>1. Behind(item, opts) = 0
    BY <1>16 DEF Behind, HasOwn, takes
  <2>2. s = State(g[k] + 0, rest, NULL, IF item.letter \in Letters(opts)
                                       THEN item.letter ELSE "?")
    BY <1>13, <1>15, <1>16
  <2>3. /\ s.ret = IF item.letter \in Letters(opts) THEN item.letter ELSE "?"
        /\ s.optarg = NULL
        /\ ReadUpTo(its, opts, line, g, c, k, s)
    BY <1>14, <1>16, <2>1, <2>2
  <2> QED
    BY <1>11, <1>16, <2>3 DEF takes, item, ExpectedOf
<1>17. CASE takes /\ item.heels
  <2>1. Behind(item, opts) = 0
    BY <1>17 DEF Behind, HasOwn
  <2>2. s = State(g[k] + 0, << >>, item.arg, item.letter)
    BY <1>5, <1>8, <1>13, <1>15, <1>17
  <2>3. /\ s.ret = item.letter /\ s.optarg = item.arg
        /\ ReadUpTo(its, opts, line, g, c, k, s)
    BY <1>14, <1>17, <2>1, <2>2
  <2> QED
    BY <1>5, <1>8, <1>17, <2>3 DEF item, ExpectedOf
<1>18. CASE takes /\ ~item.heels /\ item.arg # NULL
  <2>1. HasOwn(item, opts) /\ Behind(item, opts) = 1
    BY <1>18 DEF Behind, HasOwn, takes
  <2>2. s = State(g[k] + 1, << >>, item.arg, item.letter)
    BY <1>5, <1>7, <1>9, <1>13, <1>18, <2>1
  <2>3. /\ s.ret = item.letter /\ s.optarg = item.arg
        /\ ReadUpTo(its, opts, line, g, c, k, s)
    BY <1>14, <1>18, <2>1, <2>2
  <2> QED
    BY <1>5, <1>18, <2>3 DEF item, ExpectedOf
<1>19. CASE takes /\ ~item.heels /\ item.arg = NULL
  <2>1. Behind(item, opts) = 0
    BY <1>19 DEF Behind, HasOwn
  <2>2. s = State(g[k] + 0, << >>, NULL, "?")
    BY <1>2, <1>5, <1>7, <1>10, <1>12, <1>13, <1>15, <1>19
  <2>3. /\ s.ret = "?" /\ s.optarg = NULL
        /\ ReadUpTo(its, opts, line, g, c, k, s)
    BY <1>14, <1>19, <2>1, <2>2
  <2> QED
    BY <1>19, <2>3 DEF takes, item, ExpectedOf
<1> QED
  BY <1>16, <1>17, <1>18, <1>19

LEMMA StandsBehind ==
  ASSUME NEW its, NEW opts, NEW line, NEW g, NEW c, NEW k \in Nat,
         k # 0 => Stands(its, opts, line, g, c, k)
  PROVE  UpTo(its, opts, g, k) \in Nat \ {0}
<1>1. CASE k = 0
  BY <1>1 DEF UpTo
<1>2. CASE k # 0
  <2>1. g[k] \in Nat \ {0} /\ Behind(its[k], opts) \in 0 .. 1
    BY <1>2 DEF Stands, Behind
  <2> QED
    BY <1>2, <2>1 DEF UpTo
<1> QED
  BY <1>1, <1>2

(* When no option shares the group of option k, getopt goes on with the next
   argument. *)
LEMMA GroupIsOver ==
  ASSUME NEW its \in Seq(Items), NEW opts, NEW line \in Seq(Seq(Char)),
         NEW g, NEW c, Written(its, opts, line, g, c),
         NEW k \in 0 .. Len(its), ~JoinedNext(its, k), NEW now,
         ReadUpTo(its, opts, line, g, c, k, now)
  PROVE  /\ UpTo(its, opts, g, k) \in Nat \ {0}
         /\ getopt(line, opts, now) = NextGroup(line, opts, UpTo(its, opts, g, k))
<1>1. CASE k = 0
  BY <1>1 DEF UpTo, ReadUpTo, Untouched, State, getopt
<1>2. CASE k # 0
  <2>1. k \in 1 .. Len(its)
    BY <1>2
  <2>2. Proper(its, opts, k) /\ Stands(its, opts, line, g, c, k)
    BY <2>1 DEF Written
  <2>3. UpTo(its, opts, g, k) \in Nat \ {0}
    BY <2>1, <2>2, StandsBehind
  <2>4. now.next = << >>
    <3>1. CASE TakesArgument(its[k].letter, opts)
      BY <1>2, <3>1 DEF ReadUpTo
    <3>2. CASE ~TakesArgument(its[k].letter, opts)
      <4>1. ~its[k].heels
        BY <2>2, <3>2 DEF Proper
      <4>2. c[k] = Len(line[g[k]]) /\ line[g[k]] \in Seq(Char)
        BY <2>2, <4>1 DEF Stands
      <4> QED
        BY <1>2, <3>2, <4>2, NoRest DEF ReadUpTo
    <3> QED
      BY <3>1, <3>2
  <2> QED
    BY <1>2, <2>3, <2>4 DEF ReadUpTo, getopt
<1> QED
  BY <1>1, <1>2

(* Otherwise the next option is the next letter of the group. *)
LEMMA GroupGoesOn ==
  ASSUME NEW its \in Seq(Items), NEW opts, NEW line \in Seq(Seq(Char)),
         NEW g, NEW c, Written(its, opts, line, g, c),
         NEW k \in 0 .. Len(its), JoinedNext(its, k), NEW now,
         ReadUpTo(its, opts, line, g, c, k, now)
  PROVE  getopt(line, opts, now) =
           Option(line, opts, g[k + 1],
                  SubSeq(line[g[k + 1]], c[k + 1], Len(line[g[k + 1]])))
<1> DEFINE m == k + 1
           group == line[g[m]]
<1>1. m \in 1 .. Len(its) /\ its[m].joined
  BY DEF JoinedNext
<1>2. Stands(its, opts, line, g, c, m) /\ Follows(its, opts, g, c, m)
  BY <1>1 DEF Written
<1>3. k \in 1 .. Len(its) /\ g[m] = g[k] /\ c[m] = c[k] + 1
  BY <1>1, <1>2 DEF Follows
<1>4. Proper(its, opts, k)
  BY <1>3 DEF Written
<1>5. ~TakesArgument(its[k].letter, opts)
  BY <1>4 DEF Proper
<1>6. c[m] \in 1 .. Len(group) /\ group \in Seq(Char) /\ g[m] \in Nat \ {0}
  BY <1>2 DEF Stands
<1>7. UpTo(its, opts, g, k) = g[m]
  BY <1>3, <1>5, <1>6 DEF UpTo, Behind, HasOwn
<1>8. now.optind = g[m] /\ now.next = SubSeq(group, c[m], Len(group))
  BY <1>3, <1>5, <1>7 DEF ReadUpTo
<1>9. now.next # << >> /\ now.optind # 0
  BY <1>6, <1>8, RestOfGroup
<1> QED
  BY <1>8, <1>9 DEF getopt

(* getopt, standing behind option k, goes on to the next. *)
LEMMA NextIsOption ==
  ASSUME NEW its \in Seq(Items), NEW opts, NEW line \in Seq(Seq(Char)),
         NEW g, NEW c, Written(its, opts, line, g, c),
         NEW k \in 0 .. Len(its) - 1, NEW now,
         ReadUpTo(its, opts, line, g, c, k, now)
  PROVE  getopt(line, opts, now) =
           Option(line, opts, g[k + 1],
                  SubSeq(line[g[k + 1]], c[k + 1], Len(line[g[k + 1]])))
<1> DEFINE m == k + 1
           group == line[g[m]]
           i == UpTo(its, opts, g, k)
<1>1. m \in 1 .. Len(its) /\ k \in 0 .. Len(its) /\ its[m] \in Items
  OBVIOUS
<1>2. CASE JoinedNext(its, k)
  BY <1>1, <1>2, GroupGoesOn
<1>3. CASE ~JoinedNext(its, k)
  <2>1. Stands(its, opts, line, g, c, m) /\ Follows(its, opts, g, c, m)
    BY <1>1 DEF Written
  <2>2. /\ g[m] \in 2 .. Len(line) /\ c[m] \in 2 .. Len(group)
        /\ group[1] = "-" /\ group[c[m]] = its[m].letter
        /\ group \in Seq(Char)
    BY <2>1 DEF Stands
  <2>3. its[m].letter # "-"
    BY <1>1 DEF Items
  <2>4. ~its[m].joined
    BY <1>1, <1>3 DEF JoinedNext
  <2>5. g[m] = i + 1 /\ c[m] = 2
    BY <1>1, <2>1, <2>4 DEF Follows
  <2>6. i \in Nat /\ getopt(line, opts, now) = NextGroup(line, opts, i)
    BY <1>1, <1>3, GroupIsOver
  <2> HIDE DEF i
  <2>7. i < Len(line) /\ Len(group) > 1
    BY <2>2, <2>5, <2>6
  <2>8. IsGroup(line, i) /\ line[i + 1][2] # "-"
    BY <2>2, <2>3, <2>5, <2>7 DEF IsGroup
  <2>9. GroupAt(line, i) = SubSeq(group, c[m], Len(group))
    BY <2>2, <2>5, <2>7, BehindDash DEF GroupAt
  <2> QED
    BY <2>5, <2>6, <2>8, <2>9 DEF NextGroup
<1> QED
  BY <1>2, <1>3

AtOperands(line, rest, i, s) ==
  /\ i \in 0 .. Len(line) /\ s = Operands(line, i)
  /\ SubSeq(line, i + 1, Len(line)) = rest
  /\ IF i < Len(line) THEN line[i + 1] = Head(rest) /\ rest # << >>
     ELSE rest = << >>

(* Behind the last option it goes on to the operands. *)
LEMMA EndIsOperands ==
  ASSUME NEW its \in Seq(Items), NEW opts, NEW line \in Seq(Seq(Char)),
         NEW g, NEW c, Written(its, opts, line, g, c),
         NEW rest \in Seq(Seq(Char)), NEW d \in 0 .. 1,
         Closed(its, opts, line, rest, g, d), NEW now,
         ReadUpTo(its, opts, line, g, c, Len(its), now)
  PROVE  \E i \in 0 .. Len(line) :
           AtOperands(line, rest, i, getopt(line, opts, now))
<1> DEFINE n == UpTo(its, opts, g, Len(its))
<1>1. Len(its) \in 0 .. Len(its) /\ ~JoinedNext(its, Len(its))
  BY DEF JoinedNext
<1>2. n \in Nat \ {0} /\ getopt(line, opts, now) = NextGroup(line, opts, n)
  BY <1>1, GroupIsOver
<1>3. /\ Len(line) = n + d + Len(rest)
      /\ IF d = 1 THEN line[n + 1] = << "-", "-" >> ELSE ~IsGroup(rest, 0)
      /\ \A k \in 1 .. Len(rest) : line[n + d + k] = rest[k]
  BY DEF Closed
<1>4. Len(rest) \in Nat /\ Len(line) \in Nat /\ d \in Nat
  OBVIOUS
<1>5. PICK i : i = n + d
  OBVIOUS
<1> HIDE DEF n
<1>6. Len(line) = i + Len(rest) /\ i \in Nat
  BY <1>2, <1>3, <1>4, <1>5
<1>7. NextGroup(line, opts, n) = Operands(line, i)
  <2>1. CASE d = 1
    <3>1. n < Len(line)
      BY <1>2, <1>3, <1>4, <2>1
    <3>2. line[n + 1] = << "-", "-" >>
      BY <1>3, <2>1
    <3>3. /\ Len(line[n + 1]) = 2
          /\ line[n + 1][1] = "-" /\ line[n + 1][2] = "-"
      BY <3>2
    <3>4. IsGroup(line, n)
      BY <3>1, <3>3 DEF IsGroup
    <3> QED
      BY <1>5, <2>1, <3>3, <3>4 DEF NextGroup
  <2>2. CASE d = 0
    <3>1. i = n
      BY <1>2, <1>5, <2>2
    <3>2. ~IsGroup(line, n)
      <4>1. SUFFICES ASSUME IsGroup(line, n) PROVE FALSE
        OBVIOUS
      <4>2. Len(rest) > 0 /\ 1 \in 1 .. Len(rest)
        BY <1>2, <1>3, <1>4, <2>2, <4>1 DEF IsGroup
      <4>3. line[n + 1] = rest[1]
        BY <1>2, <1>3, <2>2, <4>2
      <4> QED
        BY <1>3, <2>2, <4>1, <4>2, <4>3 DEF IsGroup
    <3> QED
      BY <3>1, <3>2 DEF NextGroup
  <2> QED
    BY <2>1, <2>2
<1>8. i \in 0 .. Len(line) /\ i + 1 \in Int
  BY <1>4, <1>6
<1>9. SubSeq(line, i + 1, Len(line)) = rest
  <2>1. \A k \in 1 .. Len(rest) : line[i + k] = rest[k]
    BY <1>3, <1>5
  <2> QED
    BY <1>6, <2>1, EndOfLine
<1>10. IF i < Len(line) THEN line[i + 1] = Head(rest) /\ rest # << >>
      ELSE rest = << >>
  <2>1. CASE i < Len(line)
    <3>1. 1 \in 1 .. Len(rest)
      BY <1>4, <1>6, <2>1
    <3>2. line[i + 1] = rest[1] /\ rest # << >>
      BY <1>3, <1>5, <3>1
    <3> QED
      BY <2>1, <3>2
  <2>2. CASE ~(i < Len(line))
    <3>1. Len(rest) = 0
      BY <1>4, <1>6, <2>2
    <3> QED
      BY <2>2, <3>1
  <2> QED
    BY <2>1, <2>2
<1> QED
  BY <1>2, <1>7, <1>8, <1>9, <1>10 DEF AtOperands

-----------------------------------------------------------------------------
(* Reading *)

(* main() reads the next option. *)
LEMMA ReadOption ==
  ASSUME OptionsInv, Read,
         NEW g \in Seq(Nat), NEW c \in Seq(Nat), Placed(g, c),
         Len(options) < Len(items)
  PROVE  /\ pc' = "reading"
         /\ state'.optind \in 0 .. Len(args)
         /\ options' = Append(options, Expected(items[Len(options) + 1]))
         /\ ReadUpTo(items, optstring, args, g, c, Len(options) + 1, state')
<1> DEFINE k == Len(options)
           m == k + 1
           item == items[m]
           group == SubSeq(args[g[m]], c[m], Len(args[g[m]]))
<1>1. /\ items \in Seq(Items) /\ args \in Seq(Seq(Char)) /\ options \in Seq(Seen)
      /\ pc = "reading" /\ state' = getopt(args, optstring, state)
      /\ Written(items, optstring, args, g, c)
      /\ ReadUpTo(items, optstring, args, g, c, k, state)
  BY DEF OptionsInv, Typed, Placed, Read
<1>2. /\ k \in 0 .. Len(items) - 1 /\ m \in 1 .. Len(items)
      /\ item \in Items /\ Len(args) \in Nat
  BY <1>1
<1>3. state' = Option(args, optstring, g[m], group)
  BY <1>1, <1>2, NextIsOption
<1>4. /\ Proper(items, optstring, m) /\ Stands(items, optstring, args, g, c, m)
  BY <1>1, <1>2 DEF Written
<1>5. IncompleteLast(items, optstring) /\ m = Len(items) => g[m] = Len(args)
  <2>1. PICK d \in 0 .. 1 : Closed(items, optstring, args, operands, g, d)
    BY <1>1 DEF Placed
  <2>2. SUFFICES ASSUME IncompleteLast(items, optstring), m = Len(items)
                 PROVE  g[m] = Len(args)
    OBVIOUS
  <2>3. d = 0 /\ Len(operands) = 0
    BY <2>1, <2>2 DEF Closed
  <2>4. UpTo(items, optstring, g, m) = g[m] /\ g[m] \in Nat
    <3>1. item.arg = NULL
      BY <2>2 DEF IncompleteLast
    <3>2. Behind(item, optstring) = 0 /\ m # 0
      BY <1>2, <3>1 DEF Behind, HasOwn
    <3>3. g[m] \in Nat
      BY <1>4 DEF Stands
    <3> QED
      BY <3>2, <3>3 DEF UpTo
  <2> QED
    BY <2>1, <2>2, <2>3, <2>4 DEF Closed
<1> HIDE DEF group
<1>6. /\ << state'.ret, state'.optarg >> = ExpectedOf(item, optstring)
      /\ state'.ret \in {item.letter, "?"}
      /\ ReadUpTo(items, optstring, args, g, c, m, state')
  BY <1>1, <1>2, <1>3, <1>4, <1>5, OptionReturns DEF group
<1>7. << state'.ret, state'.optarg >> = Expected(item)
  BY <1>6 DEF Expected, ExpectedOf, IsComplete, Takes
<1>8. state'.ret # "EOF"
  BY <1>2, <1>6 DEF Items
<1>9. pc' = "reading" /\ options' = Append(options, Expected(item))
  BY <1>1, <1>7, <1>8 DEF Read
<1>10. UpTo(items, optstring, g, m) \in 0 .. Len(args)
  <2>1. g[m] \in Nat /\ g[m] <= Len(args)
    BY <1>2, <1>4 DEF Stands
  <2>2. HasOwn(item, optstring) => g[m] < Len(args)
    BY <1>4 DEF Stands
  <2> QED
    BY <1>2, <2>1, <2>2 DEF UpTo, Behind
<1>11. state'.optind = UpTo(items, optstring, g, m)
  BY <1>2, <1>6 DEF ReadUpTo
<1> QED
  BY <1>6, <1>9, <1>10, <1>11

LEMMA ExpectedIsSeen ==
  ASSUME NEW item \in Items
  PROVE  Expected(item) \in Seen
<1>1. /\ item.letter \in Char /\ "?" \in Char
      /\ item.arg \in Seq(Char) \cup {NULL} /\ NULL \in Seq(Char) \cup {NULL}
  <2>1. item.letter \in Char /\ item.arg \in Seq(Char) \cup {NULL}
    BY DEF Items
  <2>2. "?" \in Char
    BY DEF Char
  <2> QED
    BY <2>1, <2>2
<1>2. << item.letter, item.arg >> \in Seen /\ << "?", NULL >> \in Seen
  BY <1>1 DEF Seen
<1> QED
  BY <1>2 DEF Expected

LEMMA ReadKeepsInv ==
  ASSUME OptionsInv, Read
  PROVE  OptionsInv'
<1> DEFINE k == Len(options)
<1>1. PICK g \in Seq(Nat), c \in Seq(Nat) : Placed(g, c)
  BY DEF OptionsInv
<1>2. /\ items \in Seq(Items) /\ args \in Seq(Seq(Char)) /\ options \in Seq(Seen)
      /\ operands \in Seq(Seq(Char)) /\ args # << >>
      /\ pc = "reading" /\ state' = getopt(args, optstring, state)
      /\ UNCHANGED << optstring, items, operands, args >>
      /\ Written(items, optstring, args, g, c)
      /\ ReadUpTo(items, optstring, args, g, c, k, state)
      /\ k \in Nat /\ k <= Len(items) /\ DOMAIN options = 1 .. k
      /\ \A i \in DOMAIN options : options[i] = Expected(items[i])
  BY <1>1 DEF OptionsInv, Typed, Placed, Read, OptionsAreRead
<1>3. CASE k < Len(items)
  <2>1. /\ pc' = "reading" /\ state'.optind \in 0 .. Len(args)
        /\ options' = Append(options, Expected(items[k + 1]))
        /\ ReadUpTo(items, optstring, args, g, c, k + 1, state')
    BY <1>1, <1>3, ReadOption
  <2>2. Expected(items[k + 1]) \in Seen
    <3>1. items[k + 1] \in Items
      BY <1>2, <1>3
    <3> QED
      BY <3>1, ExpectedIsSeen
  <2>3. /\ options' \in Seq(Seen) /\ Len(options') = k + 1
        /\ DOMAIN options' = 1 .. k + 1
        /\ \A i \in 1 .. k : options'[i] = options[i]
        /\ options'[k + 1] = Expected(items[k + 1])
    BY <1>2, <2>1, <2>2, AppendProperties
  <2>4. \A i \in DOMAIN options' : options'[i] = Expected(items[i])
    BY <1>2, <2>3
  <2>5. \A item : Expected(item)' = Expected(item)
    BY <1>2 DEF Expected, IsComplete, Takes
  <2>6. OptionsAreRead'
    <3>1. (\A i \in DOMAIN options : options[i] = Expected(items[i]))'
      BY <1>2, <2>4, <2>5
    <3>2. Len(options') <= Len(items')
      BY <1>2, <1>3, <2>3
    <3> QED
      BY <2>1, <3>1, <3>2 DEF OptionsAreRead
  <2>7. Placed(g, c)'
    BY <1>1, <1>2, <2>1, <2>3 DEF Placed
  <2>8. Typed' /\ OptionsTypeOK'
    BY <1>2, <2>1, <2>3 DEF Typed, OptionsTypeOK
  <2> QED
    BY <2>6, <2>7, <2>8 DEF OptionsInv
<1>4. CASE k = Len(items)
  <2>1. PICK d \in 0 .. 1 : Closed(items, optstring, args, operands, g, d)
    BY <1>1, <1>2 DEF Placed
  <2>2. PICK i \in 0 .. Len(args) : AtOperands(args, operands, i, state')
    <3>1. ReadUpTo(items, optstring, args, g, c, Len(items), state)
      BY <1>2, <1>4
    <3> QED
      BY <1>2, <2>1, <3>1, EndIsOperands
  <2>3. /\ state'.ret = "EOF" /\ state'.optind = i
        /\ state'.optarg = IF operands = << >> THEN NULL ELSE Head(operands)
    BY <2>2 DEF AtOperands, Operands, State
  <2>4. pc' = "read" /\ options' = options
    BY <1>2, <2>3 DEF Read
  <2>5. \A item : Expected(item)' = Expected(item)
    BY <1>2 DEF Expected, IsComplete, Takes
  <2>6. OptionsAreRead'
    <3>1. (\A j \in DOMAIN options : options[j] = Expected(items[j]))'
      BY <1>2, <2>4, <2>5
    <3>2. SubSeq(args', state'.optind + 1, Len(args')) = operands'
      BY <1>2, <2>2, <2>3 DEF AtOperands
    <3>3. state'.optarg = IF operands' = << >> THEN NULL ELSE Head(operands')
      BY <1>2, <2>3
    <3> QED
      BY <1>2, <1>4, <2>4, <3>1, <3>2, <3>3 DEF OptionsAreRead
  <2>7. Placed(g, c)'
    <3>1. Len(g) = Len(items) /\ Len(c) = Len(items)
      BY <1>1 DEF Placed
    <3>2. pc' # "typing" /\ pc' # "reading"
      BY <2>4
    <3> QED
      BY <1>2, <2>1, <3>1, <3>2 DEF Placed
  <2>8. Typed' /\ OptionsTypeOK'
    BY <1>2, <2>2, <2>3, <2>4 DEF Typed, OptionsTypeOK
  <2> QED
    BY <2>6, <2>7, <2>8 DEF OptionsInv
<1> QED
  BY <1>2, <1>3, <1>4

-----------------------------------------------------------------------------
(* Typing *)

(* What Type appends: argument p grows from b letters by the option, and by
   its argument or the argument stands behind it. *)
Grown(line, more, item, opts, p, b) ==
  /\ p \in 2 .. Len(line) + 1 /\ b \in Nat \ {0}
  /\ more \in Seq(Seq(Char)) /\ Len(more) = p + Behind(item, opts)
  /\ \A j \in 1 .. p - 1 : more[j] = line[j]
  /\ b + 1 \in 2 .. Len(more[p])
  /\ more[p][1] = "-" /\ more[p][b + 1] = item.letter
  /\ IF item.heels THEN SubSeq(more[p], b + 2, Len(more[p])) = item.arg
     ELSE Len(more[p]) = b + 1
  /\ HasOwn(item, opts) => more[p + 1] = item.arg

Continues(its, line, more, opts, item, p, b) ==
  IF item.joined
  THEN /\ its # << >> /\ p = Len(line) /\ b = Len(line[p])
       /\ ~TakesArgument(its[Len(its)].letter, opts)
       /\ \A i \in 1 .. b : more[p][i] = line[p][i]
  ELSE p = Len(line) + 1 /\ b = 1

(* The item Type lets through. *)
Allowed(its, item, opts) ==
  /\ ~IncompleteLast(its, opts)
  /\ item.heels => item.arg \notin {NULL, << >>}
  /\ item.arg # NULL => TakesArgument(item.letter, opts)

LEMMA OneMoreWritten ==
  ASSUME NEW its \in Seq(Items), NEW item \in Items, NEW opts,
         NEW line \in Seq(Seq(Char)), NEW more,
         NEW g \in Seq(Nat), NEW c \in Seq(Nat),
         Len(g) = Len(its), Len(c) = Len(its),
         Written(its, opts, line, g, c), Len(line) = UpTo(its, opts, g, Len(its)),
         NEW p \in Nat, NEW b \in Nat, Grown(line, more, item, opts, p, b),
         Continues(its, line, more, opts, item, p, b),
         Allowed(its, item, opts)
  PROVE  /\ Written(Append(its, item), opts, more, Append(g, p), Append(c, b + 1))
         /\ Len(more) = UpTo(Append(its, item), opts, Append(g, p), Len(its) + 1)
<1> DEFINE n == Len(its)
<1>1. PICK is \in Seq(Items), h \in Seq(Nat), e \in Seq(Nat) :
        is = Append(its, item) /\ h = Append(g, p) /\ e = Append(c, b + 1)
  <2>1. Append(its, item) \in Seq(Items) /\ Append(g, p) \in Seq(Nat)
    OBVIOUS
  <2>2. Append(c, b + 1) \in Seq(Nat)
    OBVIOUS
  <2> QED
    BY <2>1, <2>2
<1>2. n \in Nat /\ n + 1 \in 1 .. n + 1 /\ Len(is) = n + 1 /\ Len(line) \in Nat
  BY <1>1, AppendProperties
<1>3. /\ \A k \in 1 .. n : is[k] = its[k] /\ h[k] = g[k] /\ e[k] = c[k]
      /\ is[n + 1] = item /\ h[n + 1] = p /\ e[n + 1] = b + 1
  <2>1. PICK m \in Nat : m = b + 1 /\ e = Append(c, m)
    BY <1>1
  <2>2. (\A k \in 1 .. n : is[k] = its[k]) /\ is[n + 1] = item
    BY <1>1
  <2>3. (\A k \in 1 .. n : h[k] = g[k]) /\ h[n + 1] = p
    BY <1>1
  <2>4. (\A k \in 1 .. n : e[k] = c[k]) /\ e[n + 1] = m
    <3>1. Len(c) = n
      OBVIOUS
    <3>2. (\A k \in 1 .. Len(c) : e[k] = c[k]) /\ e[Len(c) + 1] = m
      BY <2>1, AppendProperties
    <3> QED
      BY <3>1, <3>2
  <2> QED
    BY <2>1, <2>2, <2>3, <2>4
<1>4. \A k \in 1 .. n :
        /\ Proper(its, opts, k) /\ Stands(its, opts, line, g, c, k)
        /\ Follows(its, opts, g, c, k)
  BY DEF Written
<1>5. /\ \A k \in 1 .. n - 1 : JoinedNext(is, k) <=> JoinedNext(its, k)
      /\ n # 0 => (JoinedNext(is, n) <=> item.joined)
      /\ ~JoinedNext(its, n) /\ ~JoinedNext(is, n + 1)
  <2>1. ASSUME NEW k \in 1 .. n - 1
        PROVE  JoinedNext(is, k) <=> JoinedNext(its, k)
    <3>1. k + 1 \in 1 .. n /\ k < n /\ k < n + 1
      BY <1>2
    <3>2. is[k + 1] = its[k + 1]
      BY <1>3, <3>1
    <3> QED
      BY <1>2, <3>1, <3>2 DEF JoinedNext
  <2>2. JoinedNext(is, n) <=> item.joined
    BY <1>2, <1>3 DEF JoinedNext
  <2>3. ~(n < n) /\ ~(n + 1 < n + 1)
    BY <1>2
  <2>4. ~JoinedNext(its, n) /\ ~JoinedNext(is, n + 1)
    BY <1>2, <2>3 DEF JoinedNext
  <2> QED
    BY <2>1, <2>2, <2>4
<1>6. \A k \in 0 .. n : UpTo(is, opts, h, k) = UpTo(its, opts, g, k)
  BY <1>2, <1>3 DEF UpTo
<1>7. UpTo(is, opts, h, n + 1) = p + Behind(item, opts)
  BY <1>2, <1>3 DEF UpTo
<1>8. \A k \in 1 .. n - 1 : Precedes(its, opts, g, k)
  BY DEF Written
<1>9. ASSUME n # 0
      PROVE  /\ n \in 1 .. n /\ its # << >>
             /\ g[n] + Behind(its[n], opts) = Len(line)
             /\ g[n] \in Nat /\ Behind(its[n], opts) \in 0 .. 1
  BY <1>2, <1>4, <1>9 DEF UpTo, Stands, Behind
<1>10. ASSUME item.joined
       PROVE  /\ n # 0 /\ p = g[n] /\ p = Len(line) /\ b = c[n]
              /\ ~TakesArgument(its[n].letter, opts)
  <2>1. /\ n # 0 /\ p = Len(line) /\ b = Len(line[p])
        /\ ~TakesArgument(its[n].letter, opts)
    BY <1>2, <1>10, EmptySeq DEF Continues
  <2>2. Behind(its[n], opts) = 0
    BY <2>1 DEF Behind, HasOwn
  <2>3. p = g[n]
    BY <1>9, <2>1, <2>2
  <2>4. ~its[n].heels
    BY <1>4, <1>9, <2>1 DEF Proper
  <2>5. c[n] = Len(line[g[n]])
    BY <1>4, <1>5, <1>9, <2>1, <2>4 DEF Stands
  <2> QED
    BY <2>1, <2>3, <2>5
<1>11. ASSUME ~item.joined PROVE p = Len(line) + 1 /\ b = 1
  BY <1>11 DEF Continues
<1>12. ASSUME NEW k \in 1 .. n PROVE Proper(is, opts, k)
  <2>1. its[k].arg = NULL /\ TakesArgument(its[k].letter, opts) => k = n
    BY <1>4 DEF Proper
  <2>2. ~(TakesArgument(its[k].letter, opts) /\ its[k].arg = NULL)
    BY <1>9, <2>1 DEF Allowed, IncompleteLast
  <2>3. TakesArgument(its[k].letter, opts) => ~JoinedNext(is, k)
    <3>1. CASE k = n
      BY <1>5, <1>10, <3>1
    <3>2. CASE k # n
      <4>1. k \in 1 .. n - 1
        BY <1>2, <3>2
      <4> QED
        BY <1>4, <1>5, <4>1 DEF Proper
    <3> QED
      BY <3>1, <3>2
  <2> QED
    BY <1>3, <1>4, <2>2, <2>3 DEF Proper
<1>13. Proper(is, opts, n + 1)
  BY <1>2, <1>3, <1>5 DEF Proper, Allowed
<1>14. ASSUME NEW k \in 1 .. n PROVE Follows(is, opts, h, e, k)
  <2>1. k - 1 \in 0 .. n /\ (k > 1 => k - 1 \in 1 .. n)
    BY <1>2
  <2> QED
    BY <1>3, <1>4, <1>6, <2>1 DEF Follows
<1>15. Follows(is, opts, h, e, n + 1)
  <2>1. n + 1 - 1 = n /\ UpTo(is, opts, h, n) = Len(line)
    BY <1>2, <1>6
  <2>2. CASE item.joined
    <3>1. n + 1 > 1 /\ n \in 1 .. n
      BY <1>2, <1>10, <2>2
    <3>2. /\ h[n + 1] = h[n] /\ e[n + 1] = e[n] + 1
          /\ is[n + 1].joined
      BY <1>3, <1>10, <2>2, <3>1
    <3> QED
      BY <2>1, <3>1, <3>2 DEF Follows
  <2>3. CASE ~item.joined
    BY <1>3, <1>11, <2>1, <2>3 DEF Follows
  <2> QED
    BY <2>2, <2>3
<1>16. ASSUME NEW k \in 1 .. n PROVE Precedes(is, opts, h, k)
  <2>1. h[Len(is)] = p /\ h[k] = g[k] /\ UpTo(is, opts, h, k) = UpTo(its, opts, g, k)
    BY <1>2, <1>3, <1>6
  <2>2. g[n] \in Nat /\ g[n] <= p /\ (~item.joined => Len(line) < p)
    <3>1. n # 0
      BY <1>2
    <3>2. g[n] \in Nat /\ g[n] <= Len(line)
      BY <1>2, <1>9, <3>1
    <3>3. CASE item.joined
      BY <1>10, <3>2, <3>3
    <3>4. CASE ~item.joined
      BY <1>2, <1>11, <3>2, <3>4
    <3> QED
      BY <3>3, <3>4
  <2>3. CASE k = n
    <3>1. JoinedNext(is, k) <=> item.joined
      BY <1>2, <1>5, <2>3
    <3>2. UpTo(its, opts, g, k) = Len(line)
      BY <2>3
    <3> QED
      BY <2>1, <2>2, <2>3, <3>1, <3>2 DEF Precedes
  <2>4. CASE k # n
    <3>1. k \in 1 .. n - 1
      BY <1>2, <2>4
    <3>2. g[k] \in Nat /\ UpTo(its, opts, g, k) \in Nat
      <4>1. k \in Nat /\ Stands(its, opts, line, g, c, k)
        BY <1>4
      <4>2. UpTo(its, opts, g, k) \in Nat \ {0}
        BY <4>1, StandsBehind
      <4>3. g[k] \in 2 .. Len(line)
        BY <4>1 DEF Stands
      <4>4. g[k] \in Nat
        BY <4>3
      <4> QED
        BY <4>2, <4>4
    <3>3. /\ JoinedNext(is, k) <=> JoinedNext(its, k)
          /\ IF JoinedNext(its, k) THEN g[k] <= g[n]
             ELSE UpTo(its, opts, g, k) < g[n]
      BY <1>5, <1>8, <3>1 DEF Precedes
    <3>4. \A i, j, l \in Nat : /\ i <= j /\ j <= l => i <= l
                              /\ i < j /\ j <= l => i < l
      OBVIOUS
    <3>5. IF JoinedNext(is, k) THEN g[k] <= p ELSE UpTo(its, opts, g, k) < p
      <4>1. CASE JoinedNext(is, k)
        BY <2>2, <3>2, <3>3, <3>4, <4>1
      <4>2. CASE ~JoinedNext(is, k)
        BY <2>2, <3>2, <3>3, <3>4, <4>2
      <4> QED
        BY <4>1, <4>2
    <3> QED
      BY <2>1, <3>5 DEF Precedes
  <2> QED
    BY <2>3, <2>4
<1>17. /\ p >= 2 /\ p <= Len(more) /\ Len(more) \in Nat /\ Len(line) <= Len(more)
       /\ HasOwn(item, opts) => p < Len(more)
       /\ b + 1 \in 2 .. Len(more[p])
       /\ \A j \in 1 .. Len(line) : j < p => more[j] = line[j]
  <2>1. /\ p \in 2 .. Len(line) + 1 /\ Len(more) = p + Behind(item, opts)
        /\ b + 1 \in 2 .. Len(more[p])
        /\ \A j \in 1 .. p - 1 : more[j] = line[j]
    BY DEF Grown
  <2>2. Behind(item, opts) = IF HasOwn(item, opts) THEN 1 ELSE 0
    BY DEF Behind
  <2>3. p >= Len(line)
    BY <1>2, <1>10, <1>11
  <2>4. ASSUME NEW j \in 1 .. Len(line), j < p PROVE more[j] = line[j]
    <3>1. j \in 1 .. p - 1
      BY <1>2, <2>4
    <3> QED
      BY <2>1, <3>1
  <2>5. Behind(item, opts) \in 0 .. 1 /\ (HasOwn(item, opts) => Behind(item, opts) = 1)
    BY <2>2
  <2>6. /\ Len(more) \in Nat /\ p <= Len(more) /\ Len(line) <= Len(more)
        /\ Behind(item, opts) = 1 => p < Len(more)
    <3>1. PICK i \in 0 .. 1, l \in Nat :
            i = Behind(item, opts) /\ l = Len(more) /\ l = p + i
      BY <2>1, <2>5
    <3>2. PICK m \in Nat : m = Len(line)
      BY <1>2
    <3>3. l \in Nat /\ p <= l /\ m <= l /\ (i = 1 => p < l)
      BY <2>3, <3>1, <3>2
    <3> QED
      BY <3>1, <3>2, <3>3
  <2>7. p >= 2
    BY <2>1
  <2> QED
    BY <2>1, <2>4, <2>5, <2>6, <2>7
<1>18. ASSUME NEW k \in 1 .. n PROVE Stands(is, opts, more, h, e, k)
  <2>1. /\ g[k] \in 2 .. Len(line) /\ c[k] \in 2 .. Len(line[g[k]])
        /\ line[g[k]][1] = "-" /\ line[g[k]][c[k]] = its[k].letter
        /\ IF its[k].heels
           THEN SubSeq(line[g[k]], c[k] + 1, Len(line[g[k]])) = its[k].arg
           ELSE c[k] = Len(line[g[k]]) \/ JoinedNext(its, k)
        /\ HasOwn(its[k], opts) =>
             g[k] < Len(line) /\ line[g[k] + 1] = its[k].arg
    BY <1>4 DEF Stands
  <2>2. g[k] \in 2 .. Len(more) /\ g[k] \in 1 .. Len(line) /\ g[k] \in Nat
    <3>1. g[k] \in 2 .. Len(line)
      BY <2>1
    <3>2. Len(line) <= Len(more) /\ Len(more) \in Nat
      BY <1>17
    <3>3. \A l, m \in Nat : \A i \in 2 .. l :
             l <= m => i \in 2 .. m /\ i \in 1 .. l /\ i \in Nat
      OBVIOUS
    <3> QED
      BY <1>2, <3>1, <3>2, <3>3
  <2>3. is[k] = its[k] /\ h[k] = g[k] /\ e[k] = c[k]
    BY <1>3
  <2>4. JoinedNext(its, k) => JoinedNext(is, k)
    <3>1. CASE k = n
      BY <1>5, <3>1
    <3>2. CASE k # n
      <4>1. k \in 1 .. n - 1
        BY <1>2, <3>2
      <4> QED
        BY <1>5, <4>1
    <3> QED
      BY <3>1, <3>2
  <2>5. CASE g[k] < p /\ (HasOwn(its[k], opts) => g[k] + 1 < p)
    <3>1. more[g[k]] = line[g[k]]
      BY <1>17, <2>2, <2>5
    <3>2. HasOwn(its[k], opts) =>
            g[k] < Len(more) /\ more[g[k] + 1] = its[k].arg
      <4>1. SUFFICES ASSUME HasOwn(its[k], opts)
                     PROVE  g[k] < Len(more) /\ more[g[k] + 1] = its[k].arg
        OBVIOUS
      <4>2. g[k] + 1 \in 1 .. Len(line) /\ g[k] + 1 < p
        <5>1. g[k] < Len(line) /\ g[k] + 1 < p
          BY <2>1, <2>5, <4>1
        <5>2. \A l, i \in Nat : i < l => i + 1 \in 1 .. l
          OBVIOUS
        <5> QED
          BY <1>2, <2>2, <5>1, <5>2
      <4>3. more[g[k] + 1] = line[g[k] + 1]
        BY <1>17, <4>2
      <4>4. g[k] < Len(more)
        <5>1. Len(line) <= Len(more) /\ Len(more) \in Nat
          BY <1>17
        <5>2. \A i, l, m \in Nat : i + 1 \in 1 .. l /\ l <= m => i < m
          OBVIOUS
        <5> QED
          BY <1>2, <2>2, <4>2, <5>1, <5>2
      <4>5. line[g[k] + 1] = its[k].arg
        BY <2>1, <4>1
      <4> QED
        BY <4>3, <4>4, <4>5
    <3> QED
      BY <2>1, <2>2, <2>3, <2>4, <3>1, <3>2 DEF Stands
  <2>6. CASE ~(g[k] < p /\ (HasOwn(its[k], opts) => g[k] + 1 < p))
    <3>1. item.joined
      <4>1. SUFFICES ASSUME ~item.joined PROVE FALSE
        OBVIOUS
      <4>2. p = Len(line) + 1
        BY <1>11, <4>1
      <4>3. HasOwn(its[k], opts) => g[k] < Len(line)
        BY <2>1
      <4>4. g[k] \in Nat /\ g[k] <= Len(line)
        BY <2>2
      <4> QED
        BY <1>2, <2>6, <4>2, <4>3, <4>4
    <3>2. /\ p = g[n] /\ p = Len(line) /\ b = c[n] /\ n # 0
          /\ ~TakesArgument(its[n].letter, opts)
      BY <1>10, <3>1
    <3>3. /\ g[k] = p /\ ~TakesArgument(its[k].letter, opts)
          /\ JoinedNext(is, k)
      <4>1. CASE k = n
        BY <1>5, <3>1, <3>2, <4>1
      <4>2. CASE k # n
        <5>1. k \in 1 .. n - 1 /\ k # 0
          BY <1>2, <4>2
        <5>2. CASE JoinedNext(its, k)
          <6>1. ~TakesArgument(its[k].letter, opts)
            BY <1>4, <5>2 DEF Proper
          <6>2. ~HasOwn(its[k], opts)
            BY <6>1 DEF HasOwn
          <6>3. g[k] <= p
            BY <1>8, <3>2, <5>1, <5>2 DEF Precedes
          <6> QED
            BY <2>2, <2>4, <2>6, <5>2, <6>1, <6>2, <6>3
        <5>3. CASE ~JoinedNext(its, k)
          <6>1. UpTo(its, opts, g, k) < p
            BY <1>8, <3>2, <5>1, <5>3 DEF Precedes
          <6>2. UpTo(its, opts, g, k) =
                  g[k] + IF HasOwn(its[k], opts) THEN 1 ELSE 0
            BY <5>1 DEF UpTo, Behind
          <6>3. PICK i \in Nat : i = g[k]
            BY <2>2
          <6>4. i + (IF HasOwn(its[k], opts) THEN 1 ELSE 0) < p
            BY <6>1, <6>2, <6>3
          <6>5. i < p /\ (HasOwn(its[k], opts) => i + 1 < p)
            BY <6>4
          <6> QED
            BY <2>6, <6>3, <6>5
        <5> QED
          BY <5>2, <5>3
      <4> QED
        BY <4>1, <4>2
    <3>4. ~HasOwn(its[k], opts) /\ ~its[k].heels
      BY <1>4, <3>3 DEF HasOwn, Proper
    <3>5. b = Len(line[p]) /\ \A i \in 1 .. b : more[p][i] = line[p][i]
      BY <3>1 DEF Continues
    <3>6. c[k] \in 1 .. b /\ c[k] \in 2 .. Len(more[p])
      <4>1. c[k] \in 2 .. b
        BY <2>1, <3>3, <3>5
      <4>2. b + 1 \in 2 .. Len(more[p]) /\ Len(more[p]) \in Nat
        <5>1. more \in Seq(Seq(Char)) /\ p \in 1 .. Len(more)
          BY <1>17 DEF Grown
        <5>2. more[p] \in Seq(Char)
          BY <5>1
        <5> QED
          BY <1>17, <5>2
      <4>3. \A l \in Nat : \A i \in 2 .. b :
              b + 1 \in 2 .. l => i \in 1 .. b /\ i \in 2 .. l
        OBVIOUS
      <4> QED
        BY <4>1, <4>2, <4>3
    <3>7. more[p][1] = "-"
      BY DEF Grown
    <3>8. more[p][c[k]] = its[k].letter
      BY <2>1, <3>3, <3>5, <3>6
    <3> QED
      BY <2>2, <2>3, <3>3, <3>4, <3>6, <3>7, <3>8 DEF Stands
  <2> QED
    BY <2>5, <2>6
<1>19. Stands(is, opts, more, h, e, n + 1)
  <2>1. b + 1 + 1 = b + 2
    OBVIOUS
  <2>2. p \in 2 .. Len(more) /\ (HasOwn(item, opts) => p < Len(more))
    BY <1>17
  <2>3. IF item.heels THEN SubSeq(more[p], b + 2, Len(more[p])) = item.arg
        ELSE Len(more[p]) = b + 1
    BY DEF Grown
  <2>4. /\ more[p][1] = "-" /\ more[p][b + 1] = item.letter
        /\ HasOwn(item, opts) => more[p + 1] = item.arg
    BY DEF Grown
  <2> QED
    BY <1>3, <1>17, <2>1, <2>2, <2>3, <2>4 DEF Stands
<1>20. Written(is, opts, more, h, e)
  <2>1. \A k \in 1 .. Len(is) : k \in 1 .. n \/ k = n + 1
    BY <1>2
  <2>2. \A k \in 1 .. Len(is) - 1 : k \in 1 .. n
    BY <1>2
  <2> QED
    BY <1>12, <1>13, <1>14, <1>15, <1>16, <1>18, <1>19, <2>1, <2>2 DEF Written
<1> QED
  BY <1>1, <1>7, <1>20 DEF Grown

(* A letter and what is at its heels, behind a group. *)
LEMMA LetterBehindGroup ==
  ASSUME NEW group \in Seq(Char), NEW letter \in Char,
         NEW heels \in Seq(Char),
         NEW text, text = group \o << letter >> \o heels
  PROVE  /\ text \in Seq(Char) /\ Len(text) = Len(group) + 1 + Len(heels)
         /\ \A i \in 1 .. Len(group) : text[i] = group[i]
         /\ text[Len(group) + 1] = letter
         /\ SubSeq(text, Len(group) + 2, Len(text)) = heels
<1> DEFINE head == group \o << letter >>
           b == Len(group) + 1
<1>1. /\ head \in Seq(Char) /\ Len(head) = b /\ b \in Nat
      /\ \A i \in 1 .. Len(group) : head[i] = group[i] /\ i \in 1 .. b
      /\ head[b] = letter /\ b \in 1 .. b
  <2> DEFINE own == << letter >>
  <2>1. own \in Seq(Char) /\ Len(own) = 1 /\ own[1] = letter /\ 1 \in 1 .. Len(own)
    OBVIOUS
  <2> HIDE DEF own
  <2>2. /\ head \in Seq(Char) /\ Len(head) = Len(group) + Len(own)
        /\ \A i \in 1 .. Len(group) : head[i] = group[i]
        /\ \A i \in 1 .. Len(own) : head[Len(group) + i] = own[i]
    <3>1. head = group \o own
      BY DEF own
    <3> QED
      BY <2>1, <3>1, ConcatProperties
  <2>3. head[Len(group) + 1] = letter
    BY <2>1, <2>2
  <2>4. b \in Nat /\ b \in 1 .. b /\ \A i \in 1 .. Len(group) : i \in 1 .. b
    OBVIOUS
  <2> QED
    BY <2>1, <2>2, <2>3, <2>4
<1>2. text = head \o heels
  OBVIOUS
<1> HIDE DEF head
<1>3. /\ text \in Seq(Char) /\ Len(text) = b + Len(heels)
      /\ \A i \in 1 .. b : text[i] = head[i]
      /\ \A i \in 1 .. Len(heels) : text[b + i] = heels[i]
  <2> HIDE DEF b
  <2>1. /\ text \in Seq(Char) /\ Len(text) = Len(head) + Len(heels)
        /\ \A i \in 1 .. Len(head) : text[i] = head[i]
        /\ \A i \in 1 .. Len(heels) : text[Len(head) + i] = heels[i]
    <3>1. head \in Seq(Char)
      BY <1>1
    <3> QED
      BY <1>2, <3>1, BothParts
  <2> QED
    BY <1>1, <2>1
<1>4. SubSeq(text, b + 1, Len(text)) = heels
  <2> HIDE DEF b
  <2> QED
    BY <1>1, <1>3, EndOfLine
<1>5. b + 1 = Len(group) + 2
  OBVIOUS
<1> QED
  BY <1>1, <1>3, <1>4, <1>5

(* An argument behind others, and perhaps one more. *)
LEMMA ArgumentBehind ==
  ASSUME NEW before \in Seq(Seq(Char)), NEW text \in Seq(Char),
         NEW apart \in Seq(Seq(Char)),
         NEW more, more = Append(before, text) \o apart,
         NEW p \in Nat, p = Len(before) + 1
  PROVE  /\ more \in Seq(Seq(Char)) /\ Len(more) = p + Len(apart)
         /\ \A j \in 1 .. p - 1 : more[j] = before[j]
         /\ more[p] = text
         /\ \A j \in 1 .. Len(apart) : more[p + j] = apart[j]
<1> DEFINE first == Append(before, text)
<1>1. /\ first \in Seq(Seq(Char)) /\ Len(first) = p
      /\ \A j \in 1 .. Len(before) : first[j] = before[j]
      /\ first[p] = text
  BY AppendProperties
<1>2. \A j \in 1 .. p - 1 : j \in 1 .. Len(before) /\ j \in 1 .. p
  OBVIOUS
<1>3. p \in 1 .. p
  OBVIOUS
<1> HIDE DEF first
<1>4. /\ more \in Seq(Seq(Char)) /\ Len(more) = p + Len(apart)
      /\ \A j \in 1 .. p : more[j] = first[j]
      /\ \A j \in 1 .. Len(apart) : more[p + j] = apart[j]
  BY <1>1 DEF first
<1> QED
  BY <1>1, <1>2, <1>3, <1>4

(* What Type appends is what OneMoreWritten asks for. *)
LEMMA TypeGrows ==
  ASSUME NEW item \in Items, Typed, pc = "typing", Type(item),
         NEW g \in Seq(Nat), NEW c \in Seq(Nat), Placed(g, c)
  PROVE  \E p, b \in Nat :
           /\ Grown(args, args', item, optstring, p, b)
           /\ Continues(items, args, args', optstring, item, p, b)
           /\ Allowed(items, item, optstring)
<1> DEFINE n == Len(items)
           heels == IF item.heels THEN item.arg ELSE << >>
           apart == IF item.heels \/ item.arg = NULL THEN << >> ELSE << item.arg >>
           group == IF item.joined THEN Last(args) ELSE << "-" >>
           before == IF item.joined THEN Front(args) ELSE args
           text == group \o << item.letter >> \o heels
           p == Len(before) + 1
           b == Len(group)
<1>1. /\ items \in Seq(Items) /\ args \in Seq(Seq(Char)) /\ args # << >>
      /\ n \in Nat /\ Len(args) \in Nat \ {0}
      /\ Written(items, optstring, args, g, c)
      /\ Len(args) = UpTo(items, optstring, g, n)
  BY EmptySeq DEF Typed, Placed
<1>2. /\ items # << >> => IsComplete(items[n])
      /\ item.joined => items # << >> /\ ~Takes(items[n])
      /\ item.heels => item.arg \notin {NULL, << >>}
      /\ item.arg # NULL => Takes(item)
      /\ args' = Append(before, text) \o apart
  BY DEF Type, Last
<1>3. item.letter \in Char /\ (item.arg # NULL => item.arg \in Seq(Char))
  BY DEF Items
<1>4. Allowed(items, item, optstring)
  BY <1>2 DEF Allowed, IncompleteLast, IsComplete, Takes
<1>5. /\ heels \in Seq(Char) /\ apart \in Seq(Seq(Char))
      /\ Len(apart) = Behind(item, optstring)
      /\ HasOwn(item, optstring) => Len(apart) = 1 /\ apart[1] = item.arg
      /\ IF item.heels THEN heels = item.arg ELSE Len(heels) = 0
  <2> DEFINE none == << >>
             own == << item.arg >>
  <2>1. /\ none \in Seq(Char) /\ none \in Seq(Seq(Char)) /\ Len(none) = 0
        /\ item.arg \in Seq(Char) => own \in Seq(Seq(Char))
        /\ Len(own) = 1 /\ own[1] = item.arg
    OBVIOUS
  <2>2. /\ heels = IF item.heels THEN item.arg ELSE none
        /\ apart = IF item.heels \/ item.arg = NULL THEN none ELSE own
    OBVIOUS
  <2>3. HasOwn(item, optstring) <=> ~item.heels /\ item.arg # NULL
    BY <1>2 DEF HasOwn, Takes
  <2> HIDE DEF none, own, heels, apart
  <2>4. CASE item.heels
    BY <1>2, <1>3, <2>1, <2>2, <2>3, <2>4 DEF Behind
  <2>5. CASE ~item.heels
    BY <1>2, <1>3, <2>1, <2>2, <2>3, <2>5 DEF Behind
  <2> QED
    BY <2>4, <2>5
<1>6. ASSUME item.joined
      PROVE  /\ args[Len(args)] \in Seq(Char) /\ Len(args) \in 2 .. Len(args)
             /\ Len(args[Len(args)]) \in Nat \ {0} /\ args[Len(args)][1] = "-"
             /\ ~TakesArgument(items[n].letter, optstring) /\ items # << >>
  <2>1. n # 0 /\ n \in 1 .. n /\ ~TakesArgument(items[n].letter, optstring)
    BY <1>1, <1>2, <1>6, EmptySeq DEF Takes
  <2>2. Stands(items, optstring, args, g, c, n)
    BY <1>1, <2>1 DEF Written
  <2>3. Behind(items[n], optstring) = 0
    BY <2>1 DEF Behind, HasOwn
  <2>4. g[n] \in 2 .. Len(args) /\ Len(args) = g[n] + 0
    BY <1>1, <2>1, <2>2, <2>3 DEF UpTo, Stands
  <2>5. g[n] = Len(args) /\ Len(args) \in 2 .. Len(args)
    BY <1>1, <2>4
  <2>6. args[Len(args)] \in Seq(Char)
    BY <1>1, <2>5
  <2>7. /\ args[Len(args)][1] = "-" /\ c[n] \in 2 .. Len(args[Len(args)])
    BY <2>2, <2>5 DEF Stands
  <2>8. Len(args[Len(args)]) \in Nat \ {0}
    BY <2>6, <2>7
  <2> QED
    BY <1>2, <1>6, <2>1, <2>5, <2>6, <2>7, <2>8
<1>7. /\ group \in Seq(Char) /\ b \in Nat \ {0} /\ group[1] = "-"
      /\ before \in Seq(Seq(Char)) /\ p \in 2 .. Len(args) + 1
      /\ \A j \in 1 .. p - 1 : before[j] = args[j]
      /\ IF item.joined THEN p = Len(args) /\ group = args[p]
         ELSE p = Len(args) + 1 /\ b = 1
  <2>1. CASE item.joined
    <3>1. group = args[Len(args)]
      BY <2>1 DEF Last
    <3>2. before = SubSeq(args, 1, Len(args) - 1)
      BY <2>1 DEF Front
    <3>3. /\ before \in Seq(Seq(Char)) /\ Len(before) = Len(args) - 1
          /\ \A j \in 1 .. Len(args) - 1 : before[j] = args[j]
      <4> HIDE DEF before
      <4> QED
        BY <1>1, <3>2
    <3>4. p = Len(args)
      BY <1>1, <3>3
    <3> QED
      BY <1>1, <1>6, <2>1, <3>1, <3>3, <3>4
  <2>2. CASE ~item.joined
    <3>1. group = << "-" >> /\ before = args
      BY <2>2
    <3>2. group \in Seq(Char) /\ Len(group) = 1 /\ group[1] = "-"
      <4>1. "-" \in Char
        BY DEF Char
      <4> HIDE DEF group
      <4> QED
        BY <3>1, <4>1
    <3> QED
      BY <1>1, <2>2, <3>1, <3>2
  <2> QED
    BY <2>1, <2>2
<1> HIDE DEF group, before, heels, apart
<1>8. /\ text \in Seq(Char) /\ Len(text) = b + 1 + Len(heels)
      /\ \A i \in 1 .. b : text[i] = group[i]
      /\ text[b + 1] = item.letter
      /\ SubSeq(text, b + 2, Len(text)) = heels
  <2> HIDE DEF text
  <2>1. text = group \o << item.letter >> \o heels
    BY DEF text
  <2> QED
    BY <1>3, <1>5, <1>7, <2>1, LetterBehindGroup
<1> HIDE DEF text
<1>9. /\ args' \in Seq(Seq(Char)) /\ Len(args') = p + Len(apart)
      /\ \A j \in 1 .. p - 1 : args'[j] = before[j]
      /\ args'[p] = text
      /\ \A j \in 1 .. Len(apart) : args'[p + j] = apart[j]
  <2>1. p \in Nat /\ p = Len(before) + 1
    BY <1>1, <1>7
  <2>2. args' = Append(before, text) \o apart
    BY <1>2
  <2>3. PICK new : new = args'
    OBVIOUS
  <2>4. before \in Seq(Seq(Char)) /\ text \in Seq(Char) /\ apart \in Seq(Seq(Char))
    BY <1>5, <1>7, <1>8
  <2> HIDE DEF p
  <2>5. /\ new \in Seq(Seq(Char)) /\ Len(new) = p + Len(apart)
        /\ \A j \in 1 .. p - 1 : new[j] = before[j]
        /\ new[p] = text
        /\ \A j \in 1 .. Len(apart) : new[p + j] = apart[j]
    BY <2>1, <2>2, <2>3, <2>4, ArgumentBehind
  <2> QED
    BY <2>3, <2>5
<1>10. p \in Nat /\ b \in Nat \ {0} /\ p \in 2 .. Len(args) + 1
  BY <1>1, <1>7
<1>11. text[1] = "-"
  <2>1. b \in Nat \ {0} => 1 \in 1 .. b
    OBVIOUS
  <2> HIDE DEF b
  <2> QED
    BY <1>7, <1>8, <2>1
<1> HIDE DEF p, b
<1>12. Grown(args, args', item, optstring, p, b)
  <2>1. Len(heels) \in Nat /\ b + 1 \in 2 .. Len(text)
    <3>1. Len(heels) \in Nat
      BY <1>5
    <3> QED
      BY <1>8, <1>10, <3>1
  <2>2. IF item.heels THEN SubSeq(text, b + 2, Len(text)) = item.arg
        ELSE Len(text) = b + 1
    BY <1>5, <1>8, <1>10
  <2>3. HasOwn(item, optstring) => args'[p + 1] = item.arg
    BY <1>5, <1>9
  <2>4. \A j \in 1 .. p - 1 : args'[j] = args[j]
    BY <1>7, <1>9
  <2> QED
    BY <1>5, <1>8, <1>9, <1>10, <1>11, <2>1, <2>2, <2>3, <2>4 DEF Grown
<1>13. Continues(items, args, args', optstring, item, p, b)
  <2>1. CASE item.joined
    <3>1. p = Len(args) /\ group = args[p] /\ b = Len(args[p])
      BY <1>7, <2>1 DEF b
    <3>2. \A i \in 1 .. b : args'[p][i] = args[p][i]
      BY <1>8, <1>9, <3>1
    <3> QED
      BY <1>6, <2>1, <3>1, <3>2 DEF Continues
  <2>2. CASE ~item.joined
    BY <1>7, <2>2 DEF Continues
  <2> QED
    BY <2>1, <2>2
<1> QED
  BY <1>4, <1>10, <1>12, <1>13

(* The strings of the model are sequences of characters. *)
LEMMA StringsAreChars ==
  /\ Item \subseteq Items /\ Operand \subseteq Seq(Seq(Char))
  /\ << << "prog" >> >> \in Seq(Seq(Char)) /\ << << "-", "-" >> >> \in Seq(Seq(Char))
<1>1. STRING \subseteq Char /\ "-" \in Char /\ "prog" \in Char
  BY DEF Char
<1>2. \A S, T : S \subseteq T => Seq(S) \subseteq Seq(T)
  <2>1. SUFFICES ASSUME NEW S, NEW T, S \subseteq T, NEW s \in Seq(S)
                 PROVE  s \in Seq(T)
    OBVIOUS
  <2>2. Len(s) \in Nat /\ \A k \in 1 .. Len(s) : s[k] \in T
    BY <2>1
  <2>3. s = [k \in 1 .. Len(s) |-> s[k]]
    BY <2>1
  <2> QED
    BY <2>2, <2>3
<1>3. Seq(STRING) \subseteq Seq(Char) /\ Seq(Seq(STRING)) \subseteq Seq(Seq(Char))
  <2>1. Seq(STRING) \subseteq Seq(Char)
    BY <1>1, <1>2
  <2> QED
    BY <1>2, <2>1
<1>4. Item \subseteq Items
  <2>1. SUFFICES ASSUME NEW item \in Item PROVE item \in Items
    OBVIOUS
  <2>2. item \in [letter : STRING \ {"-", ":", "EOF"},
                  arg : Seq(STRING) \cup {NULL},
                  joined : BOOLEAN, heels : BOOLEAN]
    BY OptionConstantsOK
  <2> QED
    BY <1>1, <1>3, <2>2 DEF Items
<1>5. Operand \subseteq Seq(Seq(Char))
  BY <1>3, OptionConstantsOK
<1>6. \A a, b \in Char : << a >> \in Seq(Char) /\ << a, b >> \in Seq(Char)
  OBVIOUS
<1>7. \A s \in Seq(Char) : << s >> \in Seq(Seq(Char))
  OBVIOUS
<1>8. << "prog" >> \in Seq(Char) /\ << "-", "-" >> \in Seq(Char)
  BY <1>1, <1>6
<1>9. /\ << << "prog" >> >> \in Seq(Seq(Char))
      /\ << << "-", "-" >> >> \in Seq(Seq(Char))
  BY <1>7, <1>8
<1> QED
  BY <1>4, <1>5, <1>9

LEMMA TypeKeepsInv ==
  ASSUME OptionsInv, NEW item \in Item, Type(item)
  PROVE  OptionsInv'
<1> DEFINE n == Len(items)
<1>1. item \in Items
  BY StringsAreChars
<1>2. PICK g \in Seq(Nat), c \in Seq(Nat) : Placed(g, c)
  BY DEF OptionsInv
<1>3. /\ pc = "typing" /\ pc' = "typing" /\ items' = Append(items, item)
      /\ UNCHANGED << optstring, operands, state, options >>
  BY DEF Type
<1>4. /\ items \in Seq(Items) /\ args \in Seq(Seq(Char)) /\ args # << >>
      /\ operands \in Seq(Seq(Char)) /\ options = << >> /\ state = Untouched
      /\ Len(g) = n /\ Len(c) = n /\ n \in Nat
      /\ Written(items, optstring, args, g, c)
      /\ Len(args) = UpTo(items, optstring, g, n)
  BY <1>2, <1>3 DEF OptionsInv, Typed, OptionsTypeOK, Placed
<1>5. PICK p \in Nat, b \in Nat :
        /\ Grown(args, args', item, optstring, p, b)
        /\ Continues(items, args, args', optstring, item, p, b)
        /\ Allowed(items, item, optstring)
  BY <1>1, <1>2, <1>3, TypeGrows DEF OptionsInv
<1>6. /\ Written(items', optstring, args', Append(g, p), Append(c, b + 1))
      /\ Len(args') = UpTo(items', optstring, Append(g, p), n + 1)
  <2>1. PICK more : more = args'
    OBVIOUS
  <2> QED
    BY <1>1, <1>3, <1>4, <1>5, <2>1, OneMoreWritten
<1>7. PICK h \in Seq(Nat), e \in Seq(Nat) :
        h = Append(g, p) /\ e = Append(c, b + 1) /\ Len(h) = n + 1 /\ Len(e) = n + 1
  <2>1. Append(g, p) \in Seq(Nat) /\ Len(Append(g, p)) = n + 1
    BY <1>4
  <2>2. Append(c, b + 1) \in Seq(Nat) /\ Len(Append(c, b + 1)) = n + 1
    <3>1. PICK m \in Nat : m = b + 1
      OBVIOUS
    <3>2. c \in Seq(Nat) /\ Len(c) = n
      BY <1>4
    <3>3. Append(c, m) \in Seq(Nat) /\ Len(Append(c, m)) = n + 1
      BY <3>1, <3>2, AppendProperties
    <3> QED
      BY <3>1, <3>3
  <2> QED
    BY <2>1, <2>2
<1>8. items' \in Seq(Items) /\ Len(items') = n + 1
  BY <1>1, <1>3, <1>4, AppendProperties
<1>9. Placed(h, e)'
  <2>1. Len(h) = Len(items') /\ Len(e) = Len(items')
    BY <1>7, <1>8
  <2>2. /\ Written(items', optstring', args', h, e)
        /\ Len(args') = UpTo(items', optstring', h, Len(items'))
    BY <1>3, <1>6, <1>7, <1>8
  <2> QED
    BY <1>3, <2>1, <2>2 DEF Placed
<1>10. /\ args' \in Seq(Seq(Char)) /\ Len(args') \in Nat /\ args' # << >>
  <2>1. /\ args' \in Seq(Seq(Char)) /\ Len(args') = p + Behind(item, optstring)
        /\ p >= 2
    BY <1>5 DEF Grown
  <2>2. Behind(item, optstring) \in 0 .. 1
    BY DEF Behind
  <2>3. Len(args') \in Nat /\ Len(args') # 0
    BY <2>1, <2>2
  <2> QED
    BY <2>1, <2>3, EmptySeq
<1>11. Typed' /\ OptionsTypeOK'
  <2>1. state'.optind \in 0 .. Len(args')
    BY <1>3, <1>4, <1>10 DEF Untouched, State
  <2> QED
    BY <1>3, <1>4, <1>8, <1>10, <2>1 DEF OptionsInv, Typed, OptionsTypeOK
<1>12. OptionsAreRead'
  <2>1. options' = << >> /\ Len(options') = 0
    BY <1>3, <1>4
  <2>2. DOMAIN options' = {}
    BY <2>1
  <2>3. Len(options') <= Len(items')
    BY <1>4, <1>8, <2>1
  <2> QED
    BY <1>3, <2>2, <2>3 DEF OptionsAreRead
<1> QED
  BY <1>9, <1>11, <1>12 DEF OptionsInv

(* What follows the options leaves them where they are. *)
LEMMA MoreBehindOptions ==
  ASSUME NEW its, NEW opts, NEW line \in Seq(Seq(Char)), NEW more \in Seq(Seq(Char)),
         NEW g, NEW c, Written(its, opts, line, g, c),
         Len(line) <= Len(more), \A i \in 1 .. Len(line) : more[i] = line[i]
  PROVE  Written(its, opts, more, g, c)
<1>1. ASSUME NEW k \in 1 .. Len(its) PROVE Stands(its, opts, more, g, c, k)
  <2>1. Stands(its, opts, line, g, c, k)
    BY DEF Written
  <2>2. /\ g[k] \in 2 .. Len(more) /\ more[g[k]] = line[g[k]]
        /\ HasOwn(its[k], opts) =>
             g[k] < Len(more) /\ more[g[k] + 1] = line[g[k] + 1]
    <3>1. g[k] \in 2 .. Len(line) /\ (HasOwn(its[k], opts) => g[k] < Len(line))
      BY <2>1 DEF Stands
    <3>2. /\ g[k] \in 1 .. Len(line) /\ g[k] \in 2 .. Len(more)
          /\ HasOwn(its[k], opts) =>
               g[k] + 1 \in 1 .. Len(line) /\ g[k] < Len(more)
      <4>1. \A l, m \in Nat : \A i \in 2 .. l :
              l <= m => /\ i \in 1 .. l /\ i \in 2 .. m
                        /\ i < l => i + 1 \in 1 .. l /\ i < m
        OBVIOUS
      <4>2. Len(line) \in Nat /\ Len(more) \in Nat
        OBVIOUS
      <4> QED
        BY <3>1, <4>1, <4>2
    <3> QED
      BY <3>2
  <2> QED
    BY <2>1, <2>2 DEF Stands
<1> QED
  BY <1>1 DEF Written

LEMMA TypeOperandsKeepsInv ==
  ASSUME OptionsInv, NEW dashes \in BOOLEAN, NEW rest \in Operand,
         TypeOperands(dashes, rest)
  PROVE  OptionsInv'
<1> DEFINE n == Len(args)
           d == IF dashes THEN 1 ELSE 0
           mid == IF dashes THEN << << "-", "-" >> >> ELSE << >>
           head == args \o mid
<1>1. PICK g \in Seq(Nat), c \in Seq(Nat) : Placed(g, c)
  BY DEF OptionsInv
<1>2. /\ pc = "typing" /\ pc' = "reading" /\ operands' = rest
      /\ dashes \/ ~IsGroup(rest, 0)
      /\ items # << >> /\ ~IsComplete(Last(items)) => ~dashes /\ rest = << >>
      /\ UNCHANGED << optstring, items, state, options >>
      /\ args' = head \o rest
  BY DEF TypeOperands
<1>3. /\ items \in Seq(Items) /\ args \in Seq(Seq(Char)) /\ args # << >>
      /\ rest \in Seq(Seq(Char)) /\ options = << >> /\ state = Untouched
      /\ Len(g) = Len(items) /\ Len(c) = Len(items) /\ n \in Nat
      /\ Written(items, optstring, args, g, c)
      /\ n = UpTo(items, optstring, g, Len(items))
  BY <1>1, <1>2, StringsAreChars DEF OptionsInv, Typed, OptionsTypeOK, Placed
<1>4. /\ mid \in Seq(Seq(Char)) /\ Len(mid) = d /\ d \in 0 .. 1
      /\ d = 1 => mid[1] = << "-", "-" >>
      /\ d = 1 <=> dashes
  <2>1. CASE dashes
    <3>1. mid = << << "-", "-" >> >> /\ d = 1
      BY <2>1
    <3>2. mid \in Seq(Seq(Char))
      BY <3>1, StringsAreChars
    <3> QED
      BY <2>1, <3>1, <3>2
  <2>2. CASE ~dashes
    BY <2>2
  <2> QED
    BY <2>1, <2>2
<1> HIDE DEF mid, d
<1>5. /\ head \in Seq(Seq(Char)) /\ Len(head) = n + d
      /\ \A i \in 1 .. n : head[i] = args[i]
      /\ d = 1 => head[n + 1] = << "-", "-" >>
  <2>1. /\ head \in Seq(Seq(Char)) /\ Len(head) = n + Len(mid)
        /\ \A i \in 1 .. n : head[i] = args[i]
        /\ \A i \in 1 .. Len(mid) : head[n + i] = mid[i]
    BY <1>3, <1>4, BothParts
  <2>2. d = 1 => 1 \in 1 .. d
    OBVIOUS
  <2> QED
    BY <1>4, <2>1, <2>2
<1> HIDE DEF head
<1>6. /\ args' \in Seq(Seq(Char)) /\ Len(args') = n + d + Len(rest)
      /\ \A i \in 1 .. n + d : args'[i] = head[i]
      /\ \A i \in 1 .. Len(rest) : args'[n + d + i] = rest[i]
  <2>1. /\ head \o rest \in Seq(Seq(Char))
        /\ Len(head \o rest) = Len(head) + Len(rest)
        /\ \A i \in 1 .. Len(head) : (head \o rest)[i] = head[i]
        /\ \A i \in 1 .. Len(rest) : (head \o rest)[Len(head) + i] = rest[i]
    <3>1. head \in Seq(Seq(Char)) /\ rest \in Seq(Seq(Char))
      BY <1>3, <1>5
    <3> QED
      BY <3>1, BothParts
  <2> QED
    BY <1>2, <1>5, <2>1
<1>7. /\ Len(rest) \in Nat /\ Len(args') \in Nat /\ n <= Len(args')
      /\ \A i \in 1 .. n : i \in 1 .. n + d
      /\ d = 1 => n + 1 \in 1 .. n + d
  <2>1. Len(rest) \in Nat
    BY <1>3
  <2>2. n \in Nat /\ d \in 0 .. 1 /\ Len(args') = n + d + Len(rest)
    BY <1>3, <1>4, <1>6
  <2> HIDE DEF n
  <2>3. Len(args') \in Nat /\ n <= Len(args')
    BY <2>1, <2>2
  <2>4. /\ \A i \in 1 .. n : i \in 1 .. n + d
        /\ d = 1 => n + 1 \in 1 .. n + d
    BY <2>2
  <2> QED
    BY <2>1, <2>3, <2>4
<1>8. \A i \in 1 .. n : args'[i] = args[i]
  BY <1>5, <1>6, <1>7
<1>9. Written(items, optstring, args', g, c)
  <2>1. PICK more : more = args'
    OBVIOUS
  <2> QED
    BY <1>3, <1>6, <1>7, <1>8, <2>1, MoreBehindOptions
<1>10. IncompleteLast(items, optstring) => d = 0 /\ rest = << >>
  <2>1. IncompleteLast(items, optstring) => ~dashes /\ rest = << >>
    BY <1>2 DEF IncompleteLast, IsComplete, Takes, Last
  <2> QED
    BY <1>4, <2>1
<1>11. Closed(items, optstring, args', rest, g, d)
  <2>1. IF d = 1 THEN args'[n + 1] = << "-", "-" >> ELSE ~IsGroup(rest, 0)
    BY <1>2, <1>4, <1>5, <1>6, <1>7
  <2> QED
    BY <1>3, <1>6, <1>10, <2>1 DEF Closed
<1>12. Placed(g, c)'
  <2>1. Len(options') = 0 /\ ReadUpTo(items', optstring', args', g, c, 0, state')
    BY <1>2, <1>3 DEF ReadUpTo
  <2> QED
    BY <1>2, <1>3, <1>4, <1>9, <1>11, <2>1 DEF Placed
<1>13. args' # << >>
  BY <1>3, <1>6, <1>7, EmptySeq
<1>14. Typed' /\ OptionsTypeOK'
  <2>1. state'.optind \in 0 .. Len(args')
    BY <1>2, <1>3, <1>7 DEF Untouched, State
  <2> QED
    BY <1>2, <1>3, <1>6, <1>13, <2>1 DEF OptionsInv, Typed, OptionsTypeOK
<1>15. OptionsAreRead'
  <2>1. Len(options') = 0 /\ DOMAIN options' = {} /\ Len(items') \in Nat
    BY <1>2, <1>3
  <2>2. Len(options') <= Len(items')
    BY <2>1
  <2> QED
    BY <1>2, <2>1, <2>2 DEF OptionsAreRead
<1> QED
  BY <1>12, <1>14, <1>15 DEF OptionsInv

-----------------------------------------------------------------------------
(* The invariant *)

LEMMA OptionsInitInv ==
  ASSUME InitOptions
  PROVE  OptionsInv
<1>1. /\ items = << >> /\ operands = << >> /\ options = << >> /\ pc = "typing"
      /\ args = << << "prog" >> >> /\ state = Untouched
  BY DEF InitOptions
<1>2. /\ args \in Seq(Seq(Char)) /\ Len(args) = 1 /\ args # << >>
  BY <1>1, StringsAreChars
<1>3. Typed
  BY <1>1, <1>2 DEF Typed
<1>4. state.optind \in 0 .. Len(args)
  BY <1>1, <1>2 DEF Untouched, State
<1>5. OptionsTypeOK
  BY <1>1, <1>4 DEF OptionsTypeOK
<1>6. OptionsAreRead
  <2>1. Len(options) <= Len(items) /\ DOMAIN options = {}
    BY <1>1
  <2> QED
    BY <1>1, <2>1 DEF OptionsAreRead
<1>7. Placed(<< >>, << >>)
  <2>1. Len(items) = 0 /\ 1 .. 0 = {} /\ 1 .. 0 - 1 = {}
    BY <1>1
  <2>2. Written(items, optstring, args, << >>, << >>)
    BY <2>1 DEF Written
  <2>3. Len(args) = UpTo(items, optstring, << >>, Len(items))
    BY <1>2, <2>1 DEF UpTo
  <2> QED
    BY <1>1, <2>1, <2>2, <2>3 DEF Placed
<1>8. << >> \in Seq(Nat)
  OBVIOUS
<1> QED
  BY <1>3, <1>5, <1>6, <1>7, <1>8 DEF OptionsInv

LEMMA OptionsNextInv ==
  ASSUME OptionsInv, [NextOptions]_optionVars
  PROVE  OptionsInv'
<1>1. ASSUME NEW item \in Item, Type(item) PROVE OptionsInv'
  BY <1>1, TypeKeepsInv
<1>2. ASSUME NEW dashes \in BOOLEAN, NEW rest \in Operand,
             TypeOperands(dashes, rest)
      PROVE  OptionsInv'
  BY <1>2, TypeOperandsKeepsInv
<1>3. CASE Read
  BY <1>3, ReadKeepsInv
<1>4. CASE UNCHANGED optionVars
  BY <1>4 DEF optionVars, OptionsInv, Typed, OptionsTypeOK, OptionsAreRead, Placed,
              Expected, IsComplete, Takes
<1> QED
  BY <1>1, <1>2, <1>3, <1>4 DEF NextOptions

LEMMA OptionsAlwaysInv == OptionsSpec => []OptionsInv
<1>1. InitOptions => OptionsInv
  BY OptionsInitInv
<1>2. OptionsInv /\ [NextOptions]_optionVars => OptionsInv'
  BY OptionsNextInv
<1> QED
  BY <1>1, <1>2, PTL DEF OptionsSpec

(* optind never leaves the command line, and getopt has returned nothing
   before main() calls it (xgetopt.c:45, 144-203). *)
THEOREM OptionsTypeCorrect == OptionsSpec => []OptionsTypeOK
<1>1. OptionsInv => OptionsTypeOK
  BY DEF OptionsInv
<1> QED
  BY <1>1, OptionsAlwaysInv, PTL

(* For any options of a program and any command line of them: getopt returns
   each option once, in order and with its argument, "?" for the unknown and
   for one whose argument is missing, and ends at the first operand
   (xgetopt.c:58-75, 144-203). *)
THEOREM OptionsAreAlwaysRead == OptionsSpec => []OptionsAreRead
<1>1. OptionsInv => OptionsAreRead
  BY DEF OptionsInv
<1> QED
  BY <1>1, OptionsAlwaysInv, PTL

=============================================================================
