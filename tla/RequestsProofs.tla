--------------------------- MODULE RequestsProofs ---------------------------
(***************************************************************************)
(* Proofs about Requests, and about the calls of Strings it takes in: for  *)
(* every set of texts, marks, buffer sizes, URLs, control URLs, numbers    *)
(* and addresses, what pmap_ut_substr and pmap_ut_parse_url return and the *)
(* requests composed of it have the properties the runs check.             *)
(***************************************************************************)
EXTENDS Requests, StringsProofs, FiniteSetTheorems

(* What is composed in a buffer: n pieces one behind the other, none lost,
   "max" bytes at most. *)
Kind == {"request line", "host", "header", "content type", "content length",
         "blank line"} \cup Action

Pieces == [is : Kind, len : Nat, says : Text \cup (Text \X Nat) \cup Nat]
Placed == [is : Kind, len : Nat, says : Text \cup (Text \X Nat) \cup Nat, at : Nat]

Composed(p, size, max, n) ==
  /\ p.size = size /\ p.lost = 0
  /\ p.offset \in Nat /\ p.offset <= max
  /\ p.text \in Seq(Placed) /\ Len(p.text) = n
  /\ Stacked(p)

(* q is p with one piece more. *)
Added(p, piece, q) ==
  /\ q.offset = p.offset + piece.len
  /\ Len(q.text) = Len(p.text) + 1
  /\ \A k \in 1 .. Len(p.text) : q.text[k] = p.text[k]
  /\ q.text[Len(p.text) + 1] = At(p.offset, piece)

LEMMA PlacedFields ==
  \A place, p : /\ At(place, p).is = p.is /\ At(place, p).len = p.len
               /\ At(place, p).says = p.says /\ At(place, p).at = place
BY DEF At

LEMMA StackedAdded ==
  ASSUME NEW p, NEW piece, NEW q, Added(p, piece, q), Stacked(p),
         Len(p.text) \in Nat
  PROVE  Stacked(q)
<1>1. PICK n \in Nat : n = Len(p.text)
  OBVIOUS
<1>2. /\ q.offset = p.offset + piece.len /\ Len(q.text) = n + 1
      /\ \A k \in 1 .. n : q.text[k] = p.text[k]
      /\ q.text[n + 1].at = p.offset /\ q.text[n + 1].len = piece.len
  BY <1>1, PlacedFields DEF Added
<1>3. \A k \in 0 .. n : End(q, k) = End(p, k)
  BY <1>2 DEF End
<1>4. p.offset = End(p, n) /\ \A k \in 1 .. n : p.text[k].at = End(p, k - 1)
  BY <1>1 DEF Stacked
<1>5. ASSUME NEW k \in 1 .. n
      PROVE  q.text[k].at = End(q, k - 1)
  <2>1. PICK before \in 0 .. n : before = k - 1
    OBVIOUS
  <2>2. p.text[k].at = End(p, before) /\ End(q, before) = End(p, before)
    BY <1>3, <1>4, <2>1
  <2>3. q.text[k] = p.text[k]
    BY <1>2
  <2> QED
    BY <2>1, <2>2, <2>3
<1>6. q.text[n + 1].at = End(q, n)
  BY <1>2, <1>3, <1>4
<1>7. q.offset = End(q, n + 1)
  BY <1>2 DEF End
<1>8. \A k \in 1 .. n + 1 : k \in 1 .. n \/ (k = n + 1 /\ k - 1 = n)
  OBVIOUS
<1>9. \A k \in 1 .. n + 1 : q.text[k].at = End(q, k - 1)
  BY <1>5, <1>6, <1>8
<1> QED
  BY <1>2, <1>7, <1>9 DEF Stacked

(* There is room for the piece: the buffer then holds "total" bytes at most. *)
HasRoom(p, size, max, n, piece, total) ==
  /\ Composed(p, size, max, n) /\ max \in Nat /\ n \in Nat
  /\ piece \in Pieces
  /\ size \in Nat /\ total \in Nat /\ max + piece.len <= total /\ total < size

LEMMA PieceAdded ==
  ASSUME NEW p, NEW size, NEW max, NEW n, NEW piece, NEW total,
         HasRoom(p, size, max, n, piece, total)
  PROVE  /\ Composed(pbfr_add(p, piece), size, total, n + 1)
         /\ Added(p, piece, pbfr_add(p, piece))
<1> USE DEF HasRoom
<1> DEFINE q == pbfr_add(p, piece)
<1>1. piece.len \in Nat /\ At(p.offset, piece) \in Placed
  BY DEF At, Pieces, Placed, Composed
<1>2. /\ q.size = p.size
      /\ q.offset = p.offset + piece.len
      /\ q.text = Append(p.text, At(p.offset, piece))
      /\ q.lost = p.lost + IF p.offset + piece.len < p.size THEN 0 ELSE 1
  BY DEF pbfr_add
<1>3. p.offset + piece.len < p.size
  BY <1>1 DEF Composed
<1>4. q.lost = 0
  BY <1>2, <1>3 DEF Composed
<1>5. /\ q.text \in Seq(Placed) /\ Len(q.text) = Len(p.text) + 1
      /\ \A k \in 1 .. Len(p.text) : q.text[k] = p.text[k]
      /\ q.text[Len(p.text) + 1] = At(p.offset, piece)
  BY <1>1, <1>2 DEF Composed
<1>6. Added(p, piece, q)
  BY <1>2, <1>5 DEF Added
<1>7. Stacked(q)
  BY <1>6, StackedAdded DEF Composed
<1> QED
  BY <1>1, <1>2, <1>4, <1>5, <1>6, <1>7 DEF Composed

LEMMA CreatedIsEmpty ==
  ASSUME NEW size \in Nat
  PROVE  Composed(pbfr_create(size), size, 0, 0)
BY DEF Composed, pbfr_create, Stacked, End

-----------------------------------------------------------------------------
(* What is printed *)

(* "%d" of an int, and of a port, takes ten digits at most. *)
LEMMA DecimalIsShort ==
  ASSUME NEW n
  PROVE  DecimalLength(n) \in 1 .. 10
<1> DEFINE S == { k \in 1 .. 9 : 10 ^ k <= n }
<1>1. IsFiniteSet(1 .. 9) /\ Cardinality(1 .. 9) = 9
  <2>1. \A b \in Nat \ {0} : IsFiniteSet(1 .. b) /\ Cardinality(1 .. b) = b
    BY FS_Interval
  <2>2. PICK nine \in Nat \ {0} : nine = 9
    OBVIOUS
  <2> QED
    BY <2>1, <2>2
<1>2. S \subseteq 1 .. 9
  OBVIOUS
<1>3. IsFiniteSet(S) /\ Cardinality(S) <= 9
  BY <1>1, <1>2, FS_Subset
<1>4. Cardinality(S) \in Nat
  BY <1>3, FS_CardinalityType
<1> HIDE DEF S
<1>5. 1 + Cardinality(S) \in 1 .. 10
  BY <1>3, <1>4
<1> QED
  BY <1>5 DEF DecimalLength, S

LEMMA NullIsPrinted ==
  /\ NullText \in Text /\ Len(NullText) = 6 /\ NullText[1] = "("
  /\ \A text : NoLonger(text, text) => Printed(text) \in Text
<1>1. NullText \in Text /\ Len(NullText) = 6 /\ NullText[1] = "("
  BY RequestConstantsOK DEF RequestConstantsOK, NullText
<1> QED
  BY <1>1 DEF Printed, NoLonger

(* The path of a request is a text, or NULL, no longer than a buffer for
   URLs holds. *)
PathOK(path) == path = NULL \/ (path \in Text /\ Len(path) < LocationSize)

LEMMA PrintedFits ==
  ASSUME NEW path, PathOK(path)
  PROVE  /\ Printed(path) \in Text /\ Len(Printed(path)) < LocationSize
         /\ path = NULL => Printed(path) = NullText
         /\ path # NULL => Printed(path) = path
<1>1. CASE path = NULL
  <2>1. Printed(path) = NullText
    BY <1>1 DEF Printed
  <2> QED
    BY <1>1, <2>1, NullIsPrinted DEF LocationSize
<1>2. CASE path # NULL
  BY <1>2 DEF Printed, PathOK
<1> QED
  BY <1>1, <1>2

(* The target begins with a slash. *)
LEMMA TargetFits ==
  ASSUME NEW path, PathOK(path)
  PROVE  /\ Target(path) \in Text
         /\ 1 <= Len(Target(path)) /\ Len(Target(path)) <= LocationSize
         /\ Target(path)[1] = "/"
         /\ \/ path # NULL /\ IsPrefix(<< "/" >>, path) /\ Target(path) = path
            \/ /\ path = NULL \/ ~IsPrefix(<< "/" >>, path)
               /\ Target(path) = << "/" >> \o Printed(path)
               /\ \A k \in 1 .. Len(Printed(path)) :
                    Target(path)[1 + k] = Printed(path)[k]
<1>1. << "/" >> \in Text /\ Len(<< "/" >>) = 1 /\ << "/" >>[1] = "/"
  BY StringConstantsOK DEF StringConstantsOK, Text
<1>2. CASE path # NULL /\ IsPrefix(<< "/" >>, path)
  <2>1. path \in Text /\ Target(path) = path /\ Len(path) \in Nat
    BY <1>2 DEF Target, PathOK, Text
  <2>2. 1 <= Len(path) /\ \A k \in 1 .. 1 : path[k] = << "/" >>[k]
    BY <1>1, <1>2, <2>1, PrefixByPlaces
  <2>3. path[1] = "/"
    BY <1>1, <2>1, <2>2
  <2>4. 1 <= Len(path) /\ Len(path) <= LocationSize
    BY <1>2, <2>1, <2>2 DEF PathOK, LocationSize
  <2> QED
    BY <1>2, <2>1, <2>3, <2>4
<1>3. CASE path = NULL \/ ~IsPrefix(<< "/" >>, path)
  <2>1. PICK rest \in Text : rest = Printed(path) /\ Len(rest) < LocationSize
    BY PrintedFits
  <2>2. PICK slash \in Text : slash = << "/" >>
    BY <1>1
  <2>3. PICK t : t = slash \o rest
    OBVIOUS
  <2>4. t \in Text /\ Joined(t, slash, rest)
    BY <2>3, JoinedTexts
  <2>5. Target(path) = t
    BY <1>3, <2>1, <2>2, <2>3 DEF Target
  <2>6. Len(rest) \in Nat /\ Len(slash) = 1 /\ slash[1] = "/"
    BY <1>1, <2>2 DEF Text
  <2>7. Len(t) = 1 + Len(rest) /\ \A k \in 1 .. Len(rest) : t[1 + k] = rest[k]
    BY <2>4, <2>6 DEF Joined
  <2>8. t[1] = "/"
    BY <2>4, <2>6 DEF Joined
  <2>9. 1 <= Len(t) /\ Len(t) <= LocationSize
    BY <2>1, <2>6, <2>7 DEF LocationSize
  <2>10. Target(path) = << "/" >> \o Printed(path)
    BY <2>1, <2>2, <2>3, <2>5
  <2> QED
    BY <1>3, <2>1, <2>4, <2>5, <2>7, <2>8, <2>9, <2>10
<1> QED
  BY <1>2, <1>3

-----------------------------------------------------------------------------
(* What is composed *)

Headed(p, host, port, path) ==
  /\ p.text[1].is = "request line" /\ p.text[1].says = Target(path)
  /\ p.text[2].is = "host" /\ p.text[2].says = << host, port >>

HostOK(host) == host \in Text /\ Len(host) < LocationSize

LEMMA FirstLinesFit ==
  ASSUME NEW method \in {3, 4}, NEW host, HostOK(host), NEW port \in Nat,
         NEW path, PathOK(path)
  PROVE  /\ RequestLine(method, path) \in Pieces
         /\ RequestLine(method, path).len <= 144
         /\ HostLine(host, port) \in Pieces
         /\ HostLine(host, port).len <= 146
<1>1. /\ Target(path) \in Text /\ Len(Target(path)) <= 128
      /\ Len(Target(path)) \in Nat /\ Len(host) \in Nat
  BY TargetFits DEF LocationSize, HostOK, Text
<1>2. DecimalLength(port) \in Nat /\ DecimalLength(port) <= 10
  <2>1. PICK n \in 1 .. 10 : n = DecimalLength(port)
    BY DecimalIsShort
  <2> QED
    BY <2>1
<1>3. << host, port >> \in Text \X Nat /\ Len(host) < 128
  BY DEF HostOK, LocationSize
<1>4. /\ 12 + method + Len(Target(path)) \in Nat
      /\ 12 + method + Len(Target(path)) <= 144
      /\ 9 + Len(host) + DecimalLength(port) \in Nat
      /\ 9 + Len(host) + DecimalLength(port) <= 146
  BY <1>1, <1>2, <1>3
<1> QED
  BY <1>1, <1>3, <1>4 DEF RequestLine, HostLine, Piece, Pieces, Kind

LEMMA RequestCreated ==
  ASSUME NEW method \in {3, 4}, NEW host, HostOK(host), NEW port \in Nat,
         NEW path, PathOK(path)
  PROVE  /\ Composed(pmap_http_create(method, host, port, path),
                     PBUFFER_DEFLEN, 290, 2)
         /\ Headed(pmap_http_create(method, host, port, path), host, port, path)
<1> DEFINE p0 == pbfr_create(PBUFFER_DEFLEN)
           p1 == pbfr_add(p0, RequestLine(method, path))
           p2 == pbfr_add(p1, HostLine(host, port))
<1>1. Composed(p0, PBUFFER_DEFLEN, 0, 0)
  BY CreatedIsEmpty DEF PBUFFER_DEFLEN
<1>2. PICK line \in Pieces : line = RequestLine(method, path) /\ line.len <= 144
  BY FirstLinesFit
<1>3. PICK name \in Pieces : name = HostLine(host, port) /\ name.len <= 146
  BY FirstLinesFit
<1>4. line.len \in Nat /\ name.len \in Nat
  BY DEF Pieces
<1> HIDE DEF p0
<1>5. Composed(p1, PBUFFER_DEFLEN, 144, 1) /\ Added(p0, line, p1)
  <2>1. HasRoom(p0, PBUFFER_DEFLEN, 0, 0, line, 144)
    BY <1>1, <1>2, <1>4 DEF HasRoom, PBUFFER_DEFLEN
  <2>2. p1 = pbfr_add(p0, line)
    BY <1>2
  <2> QED
    BY <2>1, <2>2, PieceAdded
<1> HIDE DEF p1
<1>6. Composed(p2, PBUFFER_DEFLEN, 290, 2) /\ Added(p1, name, p2)
  <2>1. HasRoom(p1, PBUFFER_DEFLEN, 144, 1, name, 290)
    BY <1>3, <1>4, <1>5 DEF HasRoom, PBUFFER_DEFLEN
  <2>2. p2 = pbfr_add(p1, name)
    BY <1>3
  <2> QED
    BY <2>1, <2>2, PieceAdded
<1> HIDE DEF p2
<1>7. p2.text[1] = At(p0.offset, line) /\ p2.text[2] = At(p1.offset, name)
  BY <1>1, <1>5, <1>6 DEF Added, Composed
<1>8. /\ line.is = "request line" /\ line.says = Target(path)
      /\ name.is = "host" /\ name.says = << host, port >>
  BY <1>2, <1>3 DEF RequestLine, HostLine, Piece
<1>9. Headed(p2, host, port, path)
  <2>1. /\ p2.text[1].is = line.is /\ p2.text[1].says = line.says
        /\ p2.text[2].is = name.is /\ p2.text[2].says = name.says
    BY <1>7, PlacedFields
  <2> QED
    BY <1>8, <2>1 DEF Headed
<1>10. p2 = pmap_http_create(method, host, port, path)
  BY DEF pmap_http_create, p0, p1, p2
<1> QED
  BY <1>6, <1>9, <1>10

Header(n) == Piece("header", n, << >>)
ContentType == Piece("content type", 41, << >>)
ContentLength(n) == Piece("content length", 18 + DecimalLength(n), n)

LEMMA FixedPiecesFit ==
  /\ BlankLine \in Pieces /\ BlankLine.len = 2
  /\ ContentType \in Pieces /\ ContentType.len = 41
  /\ \A n \in Nat : /\ Header(n) \in Pieces /\ Header(n).len = n
                     /\ ContentLength(n) \in Pieces
                     /\ ContentLength(n).len <= 28
<1>1. << >> \in Text
  BY DEF Text
<1>2. ASSUME NEW n \in Nat
      PROVE  18 + DecimalLength(n) \in Nat /\ 18 + DecimalLength(n) <= 28
  <2>1. PICK d \in 1 .. 10 : d = DecimalLength(n)
    BY DecimalIsShort
  <2> QED
    BY <2>1
<1> QED
  BY <1>1, <1>2 DEF BlankLine, Header, ContentType, ContentLength, Piece, Pieces, Kind

LEMMA FixedPiecesSay ==
  /\ BlankLine.is = "blank line" /\ ContentType.is = "content type"
  /\ \A n : /\ Header(n).is = "header"
            /\ ContentLength(n).is = "content length"
            /\ ContentLength(n).says = n
BY DEF BlankLine, Header, ContentType, ContentLength, Piece

LEMMA GetComposed ==
  ASSUME NEW host, HostOK(host), NEW port \in Nat, NEW path, PathOK(path)
  PROVE  LET p == pmap_http_get(host, port, path)
         IN  /\ Composed(p, PBUFFER_DEFLEN, 292, 3)
             /\ Headed(p, host, port, path)
             /\ p.text[3].is = "blank line"
<1> DEFINE p2 == pmap_http_create(3, host, port, path)
           p3 == pbfr_add(p2, BlankLine)
<1>1. Composed(p2, PBUFFER_DEFLEN, 290, 2) /\ Headed(p2, host, port, path)
  BY RequestCreated
<1>2. PICK blank \in Pieces : blank = BlankLine
  BY FixedPiecesFit
<1>3. blank.len \in Nat /\ blank.len <= 2
  BY <1>2, FixedPiecesFit
<1>4. blank.is = "blank line"
  BY <1>2, FixedPiecesSay
<1> HIDE DEF p2
<1>5. Composed(p3, PBUFFER_DEFLEN, 292, 3) /\ Added(p2, blank, p3)
  <2>1. HasRoom(p2, PBUFFER_DEFLEN, 290, 2, blank, 292)
    BY <1>1, <1>3 DEF HasRoom, PBUFFER_DEFLEN
  <2>2. p3 = pbfr_add(p2, blank)
    BY <1>2
  <2> QED
    BY <2>1, <2>2, PieceAdded
<1> HIDE DEF p3
<1>6. /\ p3.text[1] = p2.text[1] /\ p3.text[2] = p2.text[2]
      /\ p3.text[3] = At(p2.offset, blank)
  BY <1>1, <1>5 DEF Added, Composed
<1>7. Headed(p3, host, port, path)
  BY <1>1, <1>6 DEF Headed
<1>8. p3.text[3].is = "blank line"
  <2>1. p3.text[3].is = blank.is
    BY <1>6, PlacedFields
  <2> QED
    BY <1>4, <2>1
<1>9. p3 = pmap_http_get(host, port, path)
  BY DEF pmap_http_get, p2, p3
<1> QED
  BY <1>5, <1>7, <1>8, <1>9

-----------------------------------------------------------------------------
(* The body: one piece, of 760 bytes at most, in a buffer of 1024. *)

BodyOK(body, action) ==
  /\ Composed(body, BodySize, 760, 1)
  /\ body.text[1].is = action /\ body.text[1].at = 0
  /\ body.text[1].len = body.offset

LEMMA FieldsAreShort ==
  ASSUME NEW action \in Action, NEW fields \in BodyFields(action)
  PROVE  fields \in Nat /\ BodyText(action) + fields <= 760
<1>1. ASSUME NEW e \in IntLength PROVE e \in Nat /\ e <= 11
  BY RequestConstantsOK DEF RequestConstantsOK
<1>2. ASSUME NEW p \in ProtoLength PROVE p \in Nat /\ p <= 3
  BY RequestConstantsOK DEF RequestConstantsOK, ProtocolSize
<1>3. ASSUME NEW a \in Address PROVE NtoaLength(a) \in Nat /\ NtoaLength(a) <= 43
  <2>1. ASSUME NEW n PROVE \E d \in Nat : d = DecimalLength(n) /\ d <= 10
    <3>1. PICK d \in 1 .. 10 : d = DecimalLength(n)
      BY DecimalIsShort
    <3> QED
      BY <3>1
  <2>2. PICK b1 \in Nat : b1 = DecimalLength(a[1]) /\ b1 <= 10
    BY <2>1
  <2>3. PICK b2 \in Nat : b2 = DecimalLength(a[2]) /\ b2 <= 10
    BY <2>1
  <2>4. PICK b3 \in Nat : b3 = DecimalLength(a[3]) /\ b3 <= 10
    BY <2>1
  <2>5. PICK b4 \in Nat : b4 = DecimalLength(a[4]) /\ b4 <= 10
    BY <2>1
  <2> QED
    BY <2>2, <2>3, <2>4, <2>5 DEF NtoaLength
<1>4. CASE action = "add"
  <2>1. PICK e \in IntLength, p \in ProtoLength, i \in IntLength, a \in Address,
             l \in IntLength : fields = e + p + i + NtoaLength(a) + l
    BY <1>4 DEF BodyFields
  <2>2. BodyText(action) = 674
    BY <1>4 DEF BodyText
  <2>3. PICK n \in Nat : n = NtoaLength(a) /\ n <= 43
    BY <1>3
  <2>4. /\ e \in Nat /\ e <= 11 /\ p \in Nat /\ p <= 3 /\ i \in Nat /\ i <= 11
        /\ l \in Nat /\ l <= 11
    BY <1>1, <1>2
  <2> QED
    BY <2>1, <2>2, <2>3, <2>4
<1>5. CASE action = "del"
  <2>1. PICK e \in IntLength, p \in ProtoLength : fields = e + p
    BY <1>5 DEF BodyFields
  <2>2. BodyText(action) = 441
    BY <1>5 DEF BodyText
  <2> QED
    BY <1>1, <1>2, <2>1, <2>2
<1>6. CASE action = "exip"
  BY <1>6 DEF BodyFields, BodyText
<1> QED
  BY <1>4, <1>5, <1>6 DEF Action

LEMMA BodyComposed ==
  ASSUME NEW action \in Action, NEW fields \in BodyFields(action)
  PROVE  BodyOK(pbfr_add(pbfr_create(BodySize),
                         Piece(action, BodyText(action) + fields, << >>)), action)
<1> DEFINE p0    == pbfr_create(BodySize)
           piece == Piece(action, BodyText(action) + fields, << >>)
           body  == pbfr_add(p0, piece)
<1>1. Composed(p0, BodySize, 0, 0) /\ p0.offset = 0
  BY CreatedIsEmpty DEF BodySize, pbfr_create
<1>2. PICK len \in Nat : len = BodyText(action) + fields /\ len <= 760
  <2>1. BodyText(action) \in Nat
    BY DEF BodyText, Action
  <2> QED
    BY <2>1, FieldsAreShort
<1>3. piece \in Pieces /\ piece.len = len /\ piece.is = action
  <2>1. << >> \in Text
    BY DEF Text
  <2> QED
    BY <1>2, <2>1 DEF Piece, Pieces, Kind
<1> HIDE DEF p0, piece
<1>4. HasRoom(p0, BodySize, 0, 0, piece, 760)
  BY <1>1, <1>2, <1>3 DEF HasRoom, BodySize
<1>5. Composed(body, BodySize, 760, 1) /\ Added(p0, piece, body)
  BY <1>4, PieceAdded
<1> HIDE DEF body
<1>6. body.text[1] = At(0, piece) /\ body.offset = len
  BY <1>1, <1>2, <1>3, <1>5 DEF Added, Composed
<1>7. BodyOK(body, action)
  BY <1>3, <1>5, <1>6, PlacedFields DEF BodyOK
<1> QED
  BY <1>7 DEF body, p0, piece

-----------------------------------------------------------------------------
(* A POST: six pieces and the body's. *)

LEMMA JoinedPieces ==
  ASSUME NEW S, NEW a \in Seq(S), NEW b \in Seq(S), NEW t, t = a \o b
  PROVE  t \in Seq(S) /\ Joined(t, a, b)
BY DEF Joined

LEMMA BodyAppended ==
  ASSUME NEW p, NEW size \in Nat, NEW max \in Nat, NEW n \in Nat,
         Composed(p, size, max, n),
         NEW body, NEW action \in Action, BodyOK(body, action), max + 760 <= size
  PROVE  /\ Composed(pbfr_append(p, body), size, max + 760, n + 1)
         /\ Added(p, Piece(action, body.offset, body.text[1].says),
                  pbfr_append(p, body))
<1> DEFINE q     == pbfr_append(p, body)
           last  == At(p.offset + body.text[1].at, body.text[1])
           piece == Piece(action, body.offset, body.text[1].says)
<1>1. /\ body.text \in Seq(Placed) /\ Len(body.text) = 1
      /\ body.offset \in Nat /\ body.offset <= 760 /\ body.lost = 0
  BY DEF BodyOK, Composed
<1>2. PICK sole \in Placed : sole = body.text[1]
  BY <1>1
<1>3. sole.is = action /\ sole.at = 0 /\ sole.len = body.offset
  BY <1>2 DEF BodyOK
<1>4. last \in Placed
  BY <1>1, <1>2, <1>3 DEF At, Placed, Composed
<1>5. last = At(p.offset, piece)
  BY <1>2, <1>3 DEF At, Piece, Composed
<1>6. /\ Copied(p, body) \in Seq(Placed) /\ Len(Copied(p, body)) = 1
      /\ Copied(p, body)[1] = last
  <2>1. DOMAIN body.text = 1 .. 1
    BY <1>1
  <2>2. Copied(p, body) = [k \in 1 .. 1 |-> At(p.offset + body.text[k].at, body.text[k])]
    BY <2>1 DEF Copied
  <2> HIDE DEF last
  <2>3. \A k \in 1 .. 1 : Copied(p, body)[k] = last
    BY <2>2 DEF last
  <2> QED
    BY <1>4, <2>2, <2>3
<1>7. /\ q.size = p.size
      /\ q.offset = p.offset + body.offset
      /\ q.text = p.text \o Copied(p, body)
      /\ q.lost = p.lost + body.lost +
                  IF p.offset + body.offset <= p.size THEN 0 ELSE 1
  BY DEF pbfr_append
<1>8. q.lost = 0 /\ q.offset \in Nat /\ q.offset <= max + 760
  BY <1>1, <1>7 DEF Composed
<1> HIDE DEF last, piece
<1>9. /\ q.text \in Seq(Placed) /\ Len(q.text) = Len(p.text) + 1
      /\ \A k \in 1 .. Len(p.text) : q.text[k] = p.text[k]
      /\ q.text[Len(p.text) + 1] = last
  <2>1. PICK t \in Seq(Placed) : t = p.text
    BY DEF Composed
  <2>2. PICK c \in Seq(Placed) : c = Copied(p, body)
    BY <1>6
  <2>3. Len(c) = 1 /\ c[1] = last /\ Len(t) \in Nat
    BY <1>6, <2>2
  <2>4. q.text = t \o c
    BY <1>7, <2>1, <2>2
  <2>5. q.text \in Seq(Placed) /\ Joined(q.text, t, c)
    BY <2>4, JoinedPieces
  <2>6. Len(q.text) = Len(t) + 1 /\ \A k \in 1 .. Len(t) : q.text[k] = t[k]
    BY <2>3, <2>5 DEF Joined
  <2>7. q.text[Len(t) + 1] = c[1]
    BY <2>3, <2>5 DEF Joined
  <2> QED
    BY <2>1, <2>3, <2>5, <2>6, <2>7
<1>10. piece.len = body.offset
  BY DEF piece, Piece
<1> HIDE DEF q
<1>11. Added(p, piece, q)
  BY <1>5, <1>7, <1>9, <1>10 DEF Added
<1>12. Stacked(q)
  BY <1>11, StackedAdded DEF Composed
<1>13. Composed(q, size, max + 760, n + 1)
  BY <1>7, <1>8, <1>9, <1>12 DEF Composed
<1> QED
  BY <1>11, <1>13 DEF q, piece

(* The length announced is the body's, which ends the request. *)
Announces(p) ==
  LET text == p.text
  IN  /\ Len(text) = 7
      /\ \A k \in 1 .. 4 : text[k].is # "content length"
      /\ text[6].is = "blank line" /\ text[7].is \in Action
      /\ text[6].at = text[5].at + text[5].len
      /\ text[7].at = text[6].at + text[6].len
      /\ text[7].len = text[5].says
      /\ p.offset = text[7].at + text[7].len

LEMMA PostComposed ==
  ASSUME NEW host, HostOK(host), NEW port \in Nat, NEW path, PathOK(path),
         NEW header \in Nat, header <= 83,
         NEW body, NEW action \in Action, BodyOK(body, action)
  PROVE  LET p == pmap_http_post(host, port, path, header, body)
         IN  /\ Composed(p, PBUFFER_DEFLEN, 1204, 7)
             /\ Headed(p, host, port, path)
             /\ Announces(p)
<1> DEFINE p2 == pmap_http_create(4, host, port, path)
           p3 == pbfr_add(p2, Header(header))
           p4 == pbfr_add(p3, ContentType)
           p5 == pbfr_add(p4, ContentLength(body.offset))
           p6 == pbfr_add(p5, BlankLine)
           p7 == pbfr_append(p6, body)
<1>1. p7 = pmap_http_post(host, port, path, header, body)
  BY DEF pmap_http_post, Header, ContentType, ContentLength
<1>2. Composed(p2, PBUFFER_DEFLEN, 290, 2) /\ Headed(p2, host, port, path)
  BY RequestCreated
<1>3. body.offset \in Nat
  BY DEF BodyOK, Composed
<1>4. PICK c3 \in Pieces : c3 = Header(header) /\ c3.len = header
  BY FixedPiecesFit
<1>5. PICK c4 \in Pieces : c4 = ContentType /\ c4.len = 41
  BY FixedPiecesFit
<1>6. PICK c5 \in Pieces : c5 = ContentLength(body.offset)
  BY <1>3, FixedPiecesFit
<1>7. c5.len \in Nat /\ c5.len <= 28
  BY <1>3, <1>6, FixedPiecesFit DEF Pieces
<1>8. PICK c6 \in Pieces : c6 = BlankLine
  BY FixedPiecesFit
<1>9. c6.len = 2
  BY <1>8, FixedPiecesFit
<1>10. /\ c3.is = "header" /\ c4.is = "content type" /\ c5.is = "content length"
       /\ c6.is = "blank line"
  BY Zenon, <1>4, <1>5, <1>6, <1>8, FixedPiecesSay
<1>11. c5.says = body.offset
  BY <1>6, FixedPiecesSay
<1> HIDE DEF p2
<1>12. Composed(p3, PBUFFER_DEFLEN, 373, 3) /\ Added(p2, c3, p3)
  <2>1. HasRoom(p2, PBUFFER_DEFLEN, 290, 2, c3, 373)
    BY <1>2, <1>4 DEF HasRoom, PBUFFER_DEFLEN
  <2>2. p3 = pbfr_add(p2, c3)
    BY <1>4
  <2> QED
    BY <2>1, <2>2, PieceAdded
<1> HIDE DEF p3
<1>13. Composed(p4, PBUFFER_DEFLEN, 414, 4) /\ Added(p3, c4, p4)
  <2>1. HasRoom(p3, PBUFFER_DEFLEN, 373, 3, c4, 414)
    BY <1>5, <1>12 DEF HasRoom, PBUFFER_DEFLEN
  <2>2. p4 = pbfr_add(p3, c4)
    BY <1>5
  <2> QED
    BY <2>1, <2>2, PieceAdded
<1> HIDE DEF p4
<1>14. Composed(p5, PBUFFER_DEFLEN, 442, 5) /\ Added(p4, c5, p5)
  <2>1. HasRoom(p4, PBUFFER_DEFLEN, 414, 4, c5, 442)
    BY <1>7, <1>13 DEF HasRoom, PBUFFER_DEFLEN
  <2>2. p5 = pbfr_add(p4, c5)
    BY <1>6
  <2> QED
    BY <2>1, <2>2, PieceAdded
<1> HIDE DEF p5
<1>15. Composed(p6, PBUFFER_DEFLEN, 444, 6) /\ Added(p5, c6, p6)
  <2>1. HasRoom(p5, PBUFFER_DEFLEN, 442, 5, c6, 444)
    BY <1>9, <1>14 DEF HasRoom, PBUFFER_DEFLEN
  <2>2. p6 = pbfr_add(p5, c6)
    BY <1>8
  <2> QED
    BY <2>1, <2>2, PieceAdded
<1> HIDE DEF p6
<1> DEFINE c7 == Piece(action, body.offset, body.text[1].says)
<1>16. c7.len = body.offset /\ c7.is = action
  BY DEF Piece
<1> HIDE DEF c7
<1>17. Composed(p7, PBUFFER_DEFLEN, 1204, 7) /\ Added(p6, c7, p7)
  <2>1. PICK size \in Nat, max \in Nat, n \in Nat :
          size = PBUFFER_DEFLEN /\ max = 444 /\ n = 6
    BY DEF PBUFFER_DEFLEN
  <2>2. max + 760 <= size /\ max + 760 = 1204 /\ n + 1 = 7
    BY <2>1 DEF PBUFFER_DEFLEN
  <2>3. Composed(p6, size, max, n)
    BY <1>15, <2>1
  <2>4. Composed(p7, size, max + 760, n + 1) /\ Added(p6, c7, p7)
    BY <2>2, <2>3, BodyAppended DEF c7
  <2> QED
    BY <2>1, <2>2, <2>4
<1> HIDE DEF p7
<1>18. /\ p7.text[1] = p2.text[1] /\ p7.text[2] = p2.text[2]
       /\ p7.text[3] = At(p2.offset, c3) /\ p7.text[4] = At(p3.offset, c4)
       /\ p7.text[5] = At(p4.offset, c5) /\ p7.text[6] = At(p5.offset, c6)
       /\ p7.text[7] = At(p6.offset, c7)
  BY <1>2, <1>12, <1>13, <1>14, <1>15, <1>17 DEF Added, Composed
<1>19. Headed(p7, host, port, path)
  BY <1>2, <1>18 DEF Headed
<1>20. /\ p7.text[1].is = "request line" /\ p7.text[2].is = "host"
  BY <1>19 DEF Headed
<1>21. /\ p7.text[3].is = c3.is /\ p7.text[4].is = c4.is
       /\ p7.text[6].is = c6.is /\ p7.text[7].is = c7.is
  BY <1>18, PlacedFields
<1>22. \A k \in 1 .. 4 : p7.text[k].is # "content length"
  <2>1. p7.text[3].is # "content length" /\ p7.text[4].is # "content length"
    BY <1>10, <1>21
  <2>2. p7.text[1].is # "content length" /\ p7.text[2].is # "content length"
    BY <1>20
  <2> SUFFICES ASSUME NEW k \in 1 .. 4 PROVE p7.text[k].is # "content length"
    OBVIOUS
  <2>3. k = 1 \/ k = 2 \/ k = 3 \/ k = 4
    OBVIOUS
  <2> QED
    BY <2>1, <2>2, <2>3
<1>23. p7.text[6].is = "blank line" /\ p7.text[7].is \in Action
  BY <1>10, <1>16, <1>21
<1>24. /\ p7.text[5].at = p4.offset /\ p7.text[5].len = c5.len
       /\ p7.text[5].says = c5.says
       /\ p7.text[6].at = p5.offset /\ p7.text[6].len = c6.len
       /\ p7.text[7].at = p6.offset /\ p7.text[7].len = c7.len
  BY <1>18, PlacedFields
<1>25. /\ p5.offset = p4.offset + c5.len /\ p6.offset = p5.offset + c6.len
       /\ p7.offset = p6.offset + c7.len
  BY <1>14, <1>15, <1>17 DEF Added
<1>26. /\ p7.text[6].at = p7.text[5].at + p7.text[5].len
       /\ p7.text[7].at = p7.text[6].at + p7.text[6].len
       /\ p7.offset = p7.text[7].at + p7.text[7].len
  BY <1>24, <1>25
<1>27. p7.text[7].len = p7.text[5].says /\ Len(p7.text) = 7
  BY <1>11, <1>16, <1>17, <1>24 DEF Composed
<1>28. Announces(p7)
  BY Zenon, <1>22, <1>23, <1>26, <1>27 DEF Announces
<1> QED
  BY <1>1, <1>17, <1>19, <1>28

-----------------------------------------------------------------------------
(* The inductive invariant: the latest call got one of the inputs and
   returned what its function makes of it.  A POST follows a GET, so its host
   and port are those of a URL that was taken apart. *)

SubstrMade ==
  /\ call.fn = "substr" /\ call.arg \in Snippet /\ call.len \in Room
  /\ call.result = pmap_ut_substr(call.arg, call.len)

ParseMade ==
  /\ call.fn = "parse_url" /\ call.arg \in UrlText /\ call.libc \in Libc
  /\ call.result = pmap_ut_parse_url(call.libc, call.arg)

GetMade ==
  /\ call.fn = "get" /\ call.arg \in Location
  /\ \E libc \in Libc : call.endpoint = pmap_ut_parse_url(libc, call.arg)
  /\ call.endpoint.host # NULL
  /\ call.path = call.endpoint.path
  /\ call.request =
       pmap_http_get(call.endpoint.host, call.endpoint.port, call.path)

PostMade ==
  /\ call.fn = "post" /\ call.path \in ControlUrl
  /\ \E host \in Text, port \in Nat, action \in Action :
       /\ HostOK(host)
       /\ BodyOK(call.body, action)
       /\ call.request = pmap_http_post(host, port, call.path,
                                        HeaderLength(action), call.body)

CallOK == call = NoCall \/ SubstrMade \/ ParseMade \/ GetMade \/ PostMade

LEMMA EndpointFits ==
  ASSUME GetMade
  PROVE  /\ HostOK(call.endpoint.host) /\ call.endpoint.port \in Nat
         /\ PathOK(call.path)
<1>1. PICK url \in Text : url = call.arg /\ Len(url) < LocationSize
  BY RequestConstantsOK DEF RequestConstantsOK, GetMade
<1>2. PICK libc \in Libc : call.endpoint = pmap_ut_parse_url(libc, url)
  BY <1>1 DEF GetMade
<1>3. PICK e : e = call.endpoint
  OBVIOUS
<1>4. \/ e = UndefinedUrl
      \/ e.port \in Nat /\ NoLonger(e.host, url) /\ NoLonger(e.path, url)
  BY <1>2, <1>3, ParsedIsNoLonger
<1>5. e.host # NULL /\ call.path = e.path
  BY <1>3 DEF GetMade
<1>6. e # UndefinedUrl
  BY <1>5 DEF UndefinedUrl, Components
<1>7. Len(url) \in Nat /\ \A part \in Text : Len(part) \in Nat
  BY DEF Text
<1>8. HostOK(e.host) /\ PathOK(e.path)
  BY <1>1, <1>4, <1>5, <1>6, <1>7 DEF HostOK, PathOK, NoLonger, LocationSize
<1> QED
  BY <1>3, <1>4, <1>5, <1>6, <1>8

LEMMA HeaderIsShort ==
  ASSUME NEW action \in Action
  PROVE  HeaderLength(action) \in Nat /\ HeaderLength(action) <= 83
BY DEF Action, HeaderLength

LEMMA ControlUrlFits ==
  ASSUME NEW path \in ControlUrl
  PROVE  path \in Text /\ PathOK(path)
BY RequestConstantsOK DEF RequestConstantsOK, PathOK

LEMMA CallStep ==
  ASSUME CallOK, [Next]_call
  PROVE  CallOK'
<1>1. CASE Substr
  <2>1. PICK snippet \in Snippet, len \in Room :
          call' = [fn |-> "substr", arg |-> snippet, len |-> len,
                   result |-> pmap_ut_substr(snippet, len)]
    BY <1>1 DEF Substr
  <2>2. SubstrMade'
    BY <2>1 DEF SubstrMade
  <2> QED
    BY <2>2 DEF CallOK
<1>2. CASE ParseUrl
  <2>1. PICK libc \in Libc, url \in UrlText :
          call' = [fn |-> "parse_url", arg |-> url, libc |-> libc,
                   result |-> pmap_ut_parse_url(libc, url)]
    BY <1>2 DEF ParseUrl
  <2>2. ParseMade'
    BY <2>1 DEF ParseMade
  <2> QED
    BY <2>2 DEF CallOK
<1>3. CASE Get
  <2> DEFINE Endpoint(libc, url) == pmap_ut_parse_url(libc, url)
  <2>1. PICK libc \in Libc, url \in Location :
          /\ Endpoint(libc, url).host # NULL
          /\ call' = [fn |-> "get", arg |-> url, endpoint |-> Endpoint(libc, url),
                      path |-> Endpoint(libc, url).path,
                      request |-> pmap_http_get(Endpoint(libc, url).host,
                                                Endpoint(libc, url).port,
                                                Endpoint(libc, url).path)]
    BY <1>3 DEF Get
  <2>2. GetMade'
    BY <2>1 DEF GetMade
  <2> QED
    BY <2>2 DEF CallOK
<1>4. ASSUME NEW action \in Action, Post(action) PROVE CallOK'
  <2>1. GetMade
    BY <1>4 DEF CallOK, Post, NoCall, SubstrMade, ParseMade, PostMade
  <2> DEFINE Body(fields) ==
               pbfr_add(pbfr_create(BodySize),
                        Piece(action, BodyText(action) + fields, << >>))
  <2>2. PICK path \in ControlUrl, fields \in BodyFields(action) :
          call' = [fn |-> "post", body |-> Body(fields), path |-> path,
                   request |-> pmap_http_post(
                                 call.endpoint.host, call.endpoint.port,
                                 path, HeaderLength(action), Body(fields))]
    BY <1>4 DEF Post
  <2>3. BodyOK(Body(fields), action)
    BY BodyComposed
  <2> HIDE DEF Body
  <2>4. PICK host \in Text, port \in Nat :
          host = call.endpoint.host /\ port = call.endpoint.port /\ HostOK(host)
    BY <2>1, EndpointFits DEF HostOK
  <2>5. /\ call'.fn = "post" /\ call'.path = path /\ call'.body = Body(fields)
        /\ call'.request =
             pmap_http_post(host, port, path, HeaderLength(action), Body(fields))
    BY <2>2, <2>4
  <2>6. PostMade'
    BY <2>3, <2>4, <2>5 DEF PostMade
  <2> QED
    BY <2>6 DEF CallOK
<1>5. CASE Return \/ UNCHANGED call
  BY <1>5 DEF Return, CallOK, SubstrMade, ParseMade, GetMade, PostMade
<1> QED
  BY <1>1, <1>2, <1>3, <1>4, <1>5 DEF Next

(* Every call got one of the inputs and returned what its function makes of
   it, and every POST goes where a URL that came apart leads. *)
LEMMA CallInvariant == Spec => []CallOK
<1>1. Init => CallOK
  BY DEF Init, CallOK
<1> QED
  BY <1>1, CallStep, PTL DEF Spec

-----------------------------------------------------------------------------
(* The theorems *)

LEMMA SubstrFromSnippets ==
  ASSUME CallOK, call.fn = "substr"
  PROVE  /\ SubstrCalled
         /\ call.arg.end[1] = "<" =>
              \A k \in 2 .. Len(call.arg.start) : call.arg.start[k] # "<"
<1>1. SubstrMade
  BY DEF CallOK, NoCall, SubstrMade, ParseMade, GetMade, PostMade
<1> QED
  BY <1>1, StringConstantsOK DEF StringConstantsOK, SubstrMade, SubstrCalled, Snippets

LEMMA ParseFromUrls ==
  ASSUME CallOK, call.fn = "parse_url"
  PROVE  ParseMade
BY DEF CallOK, NoCall, SubstrMade, ParseMade, GetMade, PostMade

LEMMA RequestsAreMade ==
  ASSUME CallOK, Requested
  PROVE  \/ call.fn = "get" /\ GetMade
         \/ call.fn = "post" /\ PostMade
BY DEF CallOK, NoCall, SubstrMade, ParseMade, GetMade, PostMade, Requested

(* What pmap_ut_substr returns is what stands between its marks, without the
   blanks it begins with, for every text, marks and room. *)
THEOREM SubstrIsAlwaysBetween == Spec => []SubstrIsBetween
<1>1. CallOK => SubstrIsBetween
  <2>1. CASE call.fn = "substr"
    BY <2>1, SubstrFromSnippets, SubstrFindsBetween
  <2>2. CASE call.fn # "substr"
    BY <2>2 DEF SubstrIsBetween, Substrings
  <2> QED
    BY <2>1, <2>2
<1> QED
  BY <1>1, CallInvariant, PTL

(* Nothing is left undefined when an element of XML is cut out. *)
THEOREM ElementsAreAlwaysDefined == Spec => []ElementsAreDefined
<1>1. CallOK => ElementsAreDefined
  <2>1. CASE call.fn = "substr"
    BY <2>1, SubstrFromSnippets, SubstrOfElementIsDefined
  <2>2. CASE call.fn # "substr"
    BY <2>2 DEF ElementsAreDefined, Substrings
  <2> QED
    BY <2>1, <2>2
<1> QED
  BY <1>1, CallInvariant, PTL

(* The beginning of a text, however long, never yields another substring
   than the whole text. *)
THEOREM PartAlwaysTellsTheSame == Spec => []PartTellsTheSame
<1>1. CallOK => PartTellsTheSame
  <2>1. CASE call.fn = "substr"
    BY <2>1, SubstrFromSnippets, SubstrOfPart
  <2>2. CASE call.fn # "substr"
    BY <2>2 DEF PartTellsTheSame, Substrings
  <2> QED
    BY <2>1, <2>2
<1> QED
  BY <1>1, CallInvariant, PTL

(* scheme://host:port/path comes apart on every C library, for every scheme,
   host and port without colon and slash, and any path. *)
THEOREM UrlsComeApart == Spec => []UrlComesApart
<1>1. CallOK => UrlComesApart
  <2> SUFFICES ASSUME CallOK, Parsed,
                      NEW scheme \in Scheme, NEW host \in Host,
                      NEW port \in PortText, NEW path \in Path,
                      call.arg = Url(scheme, host, port, path)
               PROVE  call.result = Components(scheme, host, atoi(port), path)
    BY DEF UrlComesApart
  <2> QED
    BY ParseFromUrls, ParsedUrl DEF Parsed, ParseMade
<1> QED
  BY <1>1, CallInvariant, PTL

(* Without a port it does where strtok_r leaves NULL behind its last token. *)
THEOREM BsdPortlessUrlsComeApart == Spec => []BsdPortlessUrlComesApart
<1>1. CallOK => BsdPortlessUrlComesApart
  <2> SUFFICES ASSUME CallOK, Parsed, call.libc = "bsd",
                      NEW scheme \in Scheme, NEW host \in Host, NEW path \in Path,
                      call.arg = Portless(scheme, host, path), ~Has(path, ":")
               PROVE  call.result = Components(scheme, host, 80, path)
    BY DEF BsdPortlessUrlComesApart, PortlessUrlComesApart
  <2> QED
    BY ParseFromUrls, ParsedPortless DEF Parsed, ParseMade
<1> QED
  BY <1>1, CallInvariant, PTL

LEMMA GetShape ==
  ASSUME GetMade
  PROVE  /\ Composed(call.request, PBUFFER_DEFLEN, 292, 3)
         /\ Headed(call.request, call.endpoint.host, call.endpoint.port, call.path)
         /\ call.request.text[3].is = "blank line"
<1>1. PICK host, port, path : /\ host = call.endpoint.host /\ HostOK(host)
                              /\ port = call.endpoint.port /\ port \in Nat
                              /\ path = call.path /\ PathOK(path)
  BY EndpointFits
<1>2. LET p == pmap_http_get(host, port, path)
      IN  /\ Composed(p, PBUFFER_DEFLEN, 292, 3)
          /\ Headed(p, host, port, path)
          /\ p.text[3].is = "blank line"
  BY <1>1, GetComposed
<1>3. call.request = pmap_http_get(host, port, path)
  BY <1>1 DEF GetMade
<1> QED
  BY <1>1, <1>2, <1>3

LEMMA PostShape ==
  ASSUME PostMade
  PROVE  /\ Composed(call.request, PBUFFER_DEFLEN, 1204, 7)
         /\ Announces(call.request)
         /\ Composed(call.body, BodySize, 760, 1)
         /\ \E host, port : Headed(call.request, host, port, call.path)
<1>1. PICK host \in Text, port \in Nat, action \in Action :
        /\ HostOK(host) /\ BodyOK(call.body, action)
        /\ call.request = pmap_http_post(host, port, call.path,
                                         HeaderLength(action), call.body)
  BY DEF PostMade
<1>2. PICK header \in Nat : header = HeaderLength(action) /\ header <= 83
  BY HeaderIsShort
<1>3. PathOK(call.path)
  BY ControlUrlFits DEF PostMade
<1>4. LET p == pmap_http_post(host, port, call.path, header, call.body)
      IN  /\ Composed(p, PBUFFER_DEFLEN, 1204, 7)
          /\ Headed(p, host, port, call.path)
          /\ Announces(p)
  BY <1>1, <1>2, <1>3, PostComposed
<1>5. Composed(call.body, BodySize, 760, 1)
  BY <1>1 DEF BodyOK
<1> QED
  BY <1>1, <1>2, <1>4, <1>5

(* Type correctness: what is written to a caller's buffer fits with its end
   mark, a URL's port is a number, and a request buffer keeps its size and its
   pieces one behind the other, whatever texts they are filled with. *)
THEOREM RequestsTypeOK == Spec => []TypeOK
<1>1. CallOK => TypeOK
  <2> SUFFICES ASSUME CallOK PROVE TypeOK
    OBVIOUS
  <2>1. ASSUME Substrings
        PROVE  /\ call.result.ret \in -1 .. 2
               /\ call.result.ret = 0 <=> call.result.buffer # NULL
               /\ call.result.ret = 0 => Len(call.result.buffer) < call.len
    BY <2>1, SubstrFromSnippets, SubstrFits DEF Substrings
  <2>2. ASSUME Parsed
        PROVE  call.result.port \in Nat \/ call.result = UndefinedUrl
    <3>1. ParseMade
      BY <2>2, ParseFromUrls DEF Parsed
    <3>2. PICK libc \in Libc, url \in Text :
            call.result = pmap_ut_parse_url(libc, url)
      BY <3>1, StringConstantsOK DEF StringConstantsOK, ParseMade
    <3> QED
      BY <3>2, ParsedIsNoLonger
  <2>3. ASSUME Requested
        PROVE  call.request.size = PBUFFER_DEFLEN /\ Stacked(call.request)
    BY <2>3, RequestsAreMade, GetShape, PostShape DEF Composed
  <2> QED
    BY <2>1, <2>2, <2>3 DEF TypeOK
<1> QED
  BY <1>1, CallInvariant, PTL

(* No request and no body is ever cut: 1204 bytes are the most a request can
   have, and 760 a body. *)
THEOREM NothingIsEverCut == Spec => []NothingIsCut
<1>1. CallOK => NothingIsCut
  <2> SUFFICES ASSUME CallOK PROVE NothingIsCut
    OBVIOUS
  <2>1. ASSUME Requested
        PROVE  call.request.lost = 0 /\ call.request.offset < PBUFFER_DEFLEN
    <3>1. \E max \in Nat : /\ max < PBUFFER_DEFLEN /\ call.request.lost = 0
                           /\ call.request.offset \in Nat
                           /\ call.request.offset <= max
      <4>1. CASE GetMade
        <5>1. Composed(call.request, PBUFFER_DEFLEN, 292, 3)
          BY <4>1, GetShape
        <5> QED
          BY <5>1 DEF Composed, PBUFFER_DEFLEN
      <4>2. CASE PostMade
        <5>1. Composed(call.request, PBUFFER_DEFLEN, 1204, 7)
          BY <4>2, PostShape
        <5> QED
          BY <5>1 DEF Composed, PBUFFER_DEFLEN
      <4> QED
        BY <2>1, <4>1, <4>2, RequestsAreMade
    <3> QED
      BY <3>1 DEF PBUFFER_DEFLEN
  <2>2. ASSUME call.fn = "post"
        PROVE  call.body.lost = 0 /\ call.body.offset < BodySize
    BY <2>2, RequestsAreMade, PostShape DEF Requested, Composed, BodySize
  <2> QED
    BY <2>1, <2>2 DEF NothingIsCut
<1> QED
  BY <1>1, CallInvariant, PTL

(* A GET has no piece that announces a length, a POST has one. *)
IsPiece(p, k) == k \in DOMAIN p.text
IsLength(p, k) == p.text[k].is = "content length"

LEMMA PlacesOfPieces ==
  ASSUME NEW p, NEW size, NEW max, NEW n \in Nat, Composed(p, size, max, n),
         NEW k, IsPiece(p, k)
  PROVE  k \in 1 .. n
<1>1. PICK text \in Seq(Placed) : text = p.text /\ Len(text) = n
  BY DEF Composed
<1>2. DOMAIN text = 1 .. Len(text)
  OBVIOUS
<1> QED
  BY <1>1, <1>2 DEF IsPiece

LEMMA GetAnnouncesNothing ==
  ASSUME NEW p, NEW host, NEW port, NEW path, Headed(p, host, port, path),
         Composed(p, PBUFFER_DEFLEN, 292, 3), ~IsLength(p, 3),
         NEW k, IsPiece(p, k)
  PROVE  ~IsLength(p, k)
<1>1. ~IsLength(p, 1) /\ ~IsLength(p, 2)
  BY DEF Headed, IsLength
<1>2. PICK n \in Nat : n = 3
  OBVIOUS
<1>3. k \in 1 .. n
  BY <1>2, PlacesOfPieces
<1>4. k = 1 \/ k = 2 \/ k = 3
  BY <1>2, <1>3
<1> QED
  BY <1>1, <1>4

LEMMA PostAnnouncesOnce ==
  ASSUME NEW p, Announces(p), Composed(p, PBUFFER_DEFLEN, 1204, 7),
         NEW k, IsPiece(p, k), IsLength(p, k)
  PROVE  k = 5
<1>1. ~IsLength(p, 6)
  BY DEF Announces, IsLength
<1>2. ~IsLength(p, 7)
  BY DEF Announces, IsLength, Action
<1>3. k \notin 1 .. 4
  BY DEF Announces, IsLength
<1>4. PICK n \in Nat : n = 7
  OBVIOUS
<1>5. k \in 1 .. n
  BY <1>4, PlacesOfPieces
<1>6. k \in 1 .. 4 \/ k = 5 \/ k = 6 \/ k = 7
  BY <1>4, <1>5
<1> QED
  BY <1>1, <1>2, <1>3, <1>6

(* The length a POST announces is the length of the body that follows. *)
THEOREM BodyIsAlwaysAnnounced == Spec => []BodyIsAnnounced
<1>1. CallOK => BodyIsAnnounced
  <2> SUFFICES ASSUME CallOK, Requested,
                      NEW k, IsPiece(call.request, k), IsLength(call.request, k)
               PROVE  LET text == call.request.text
                      IN  /\ call.fn = "post" /\ k + 2 = Len(text)
                          /\ text[k + 1].is = "blank line"
                          /\ text[k + 1].at = text[k].at + text[k].len
                          /\ text[k + 2].is \in Action
                          /\ text[k + 2].at = text[k + 1].at + text[k + 1].len
                          /\ text[k + 2].len = text[k].says
                          /\ call.request.offset =
                               text[k + 2].at + text[k + 2].len
    BY DEF BodyIsAnnounced, IsPiece, IsLength
  <2>1. CASE GetMade
    <3>1. ~IsLength(call.request, 3)
      BY <2>1, GetShape DEF IsLength
    <3> QED
      BY <2>1, <3>1, GetShape, GetAnnouncesNothing
  <2>2. CASE call.fn = "post" /\ PostMade
    <3>1. k = 5 /\ Announces(call.request)
      BY <2>2, PostShape, PostAnnouncesOnce
    <3>2. k + 1 = 6 /\ k + 2 = 7
      BY <3>1
    <3> QED
      BY Zenon, <2>2, <3>1, <3>2 DEF Announces
  <2> QED
    BY <2>1, <2>2, RequestsAreMade
<1> QED
  BY <1>1, CallInvariant, PTL

LEMMA SlashIsText ==
  << "/" >> \in Text /\ Len(<< "/" >>) = 1 /\ << "/" >>[1] = "/"
BY StringConstantsOK DEF StringConstantsOK, Text

LEMMA BeginsWithSlash ==
  ASSUME NEW text \in Text
  PROVE  IsPrefix(<< "/" >>, text) <=> 1 <= Len(text) /\ text[1] = "/"
<1>1. PICK slash \in Text : slash = << "/" >> /\ Len(slash) = 1 /\ slash[1] = "/"
  BY SlashIsText
<1>2. IsPrefix(slash, text)
        <=> Len(slash) <= Len(text) /\ \A k \in 1 .. Len(slash) : text[k] = slash[k]
  BY PrefixByPlaces
<1>3. (\A k \in 1 .. Len(slash) : text[k] = slash[k]) <=> text[1] = "/"
  BY <1>1
<1> QED
  BY <1>1, <1>2, <1>3

LEMMA TargetSlashes ==
  ASSUME NEW path, PathOK(path)
  PROVE  /\ IsPrefix(<< "/" >>, Target(path))
         /\ IsPrefix(<< "/", "/" >>, Target(path)) => IsPrefix(<< "/", "/" >>, path)
<1>1. PICK target \in Text : target = Target(path) /\ 1 <= Len(target) /\ target[1] = "/"
  BY TargetFits
<1>2. IsPrefix(<< "/" >>, target)
  BY <1>1, BeginsWithSlash
<1>3. ASSUME IsPrefix(TwoSlashes, target), target # path PROVE FALSE
  <2>1. PICK rest \in Text : rest = Printed(path)
    BY PrintedFits
  <2>2. /\ path = NULL \/ ~IsPrefix(<< "/" >>, path)
        /\ target = << "/" >> \o rest
        /\ \A k \in 1 .. Len(rest) : target[1 + k] = rest[k]
    BY <1>1, <1>3, <2>1, TargetFits
  <2>3. Len(target) = 1 + Len(rest) /\ Len(rest) \in Nat
    <3>1. PICK slash \in Text : slash = << "/" >> /\ Len(slash) = 1
      BY SlashIsText
    <3>2. Joined(target, slash, rest)
      BY <2>2, <3>1, JoinedTexts
    <3> QED
      BY <3>1, <3>2 DEF Joined, Text
  <2>4. 2 <= Len(target) /\ target[2] = "/"
    BY <1>3, TwoSlashesAreText, PrefixByPlaces
  <2>5. 1 <= Len(rest) /\ rest[1] = "/"
    BY <2>2, <2>3, <2>4
  <2>6. CASE path = NULL
    BY <2>1, <2>5, <2>6, NullIsPrinted, PrintedFits
  <2>7. CASE path # NULL
    <3>1. rest = path /\ path \in Text
      BY <2>1, <2>7, PrintedFits DEF PathOK
    <3> QED
      BY <2>2, <2>5, <2>7, <3>1, BeginsWithSlash
  <2> QED
    BY <2>6, <2>7
<1> QED
  BY <1>1, <1>2, <1>3 DEF TwoSlashes

(* The target of a request begins with a slash, and with a second one only if
   the path asked for does. *)
THEOREM TargetAlwaysHasOneSlash == Spec => []TargetHasOneSlash
<1>1. CallOK => TargetHasOneSlash
  <2> SUFFICES ASSUME CallOK, Requested PROVE TargetHasOneSlash
    BY DEF TargetHasOneSlash
  <2>1. PathOK(call.path) /\ call.request.text[1].says = Target(call.path)
    <3>1. CASE GetMade
      BY <3>1, EndpointFits, GetShape DEF Headed
    <3>2. CASE PostMade
      BY <3>2, PostShape, ControlUrlFits DEF Headed, PostMade
    <3> QED
      BY <3>1, <3>2, RequestsAreMade
  <2> QED
    BY <2>1, TargetSlashes DEF TargetHasOneSlash
<1> QED
  BY <1>1, CallInvariant, PTL

(* A GET that follows scheme://host:port/path names that host, port and
   path, for every URL of this form with no second slash before the path. *)
THEOREM GetAlwaysNamesUrl == Spec => []GetNamesUrl
<1>1. CallOK => GetNamesUrl
  <2> SUFFICES ASSUME CallOK, call.fn = "get",
                      NEW scheme \in Scheme, NEW host \in Host,
                      NEW port \in PortText, NEW path \in Path,
                      call.arg = Url(scheme, host, port, path),
                      ~IsPrefix(<< "/" >>, path)
               PROVE  /\ call.request.text[1].says = << "/" >> \o path
                      /\ call.request.text[2].says = << host, atoi(port) >>
    BY DEF GetNamesUrl
  <2>1. GetMade
    BY RequestsAreMade DEF Requested
  <2>2. PICK libc \in Libc : call.endpoint = pmap_ut_parse_url(libc, call.arg)
    BY <2>1 DEF GetMade
  <2>3. call.endpoint = Components(scheme, host, atoi(port), path)
    BY <2>2, ParsedUrl
  <2>4. /\ call.endpoint.host = host /\ call.endpoint.port = atoi(port)
        /\ call.path = path
    BY <2>1, <2>3 DEF Components, GetMade
  <2>5. /\ call.request.text[1].says = Target(path)
        /\ call.request.text[2].says = << host, atoi(port) >>
    BY <2>1, <2>4, GetShape DEF Headed
  <2>6. path # NULL
    BY StringConstantsOK DEF StringConstantsOK
  <2>7. Target(path) = << "/" >> \o path
    BY <2>6 DEF Target, Printed
  <2> QED
    BY <2>5, <2>7
<1> QED
  BY <1>1, CallInvariant, PTL
=============================================================================
