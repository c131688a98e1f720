---------------------------- MODULE PureFunctions ----------------------------
(***************************************************************************)
(* Functions of the print server that only compute, each called once for   *)
(* every small input: the comparison of versions in the client and in the  *)
(* update service, page ranges and n pages on a sheet in the PDF backend,  *)
(* and the printer's status bits.                                          *)
(***************************************************************************)
EXTENDS Integers, FiniteSets, Sequences, SequencesExt

CONSTANTS
    MaxParts,   \* bound: components of a version, parts of a page range
    MaxDigit,   \* bound: value of a component
    MaxPages    \* bound: pages of a document

VARIABLE call   \* the function, its input and its result

NotCalled == [fn |-> "none"]
AtMost(S, n) == UNION {[1..k -> S] : k \in 0..n}
Lesser(a, b) == IF a < b THEN a ELSE b
Greater(a, b) == IF a < b THEN b ELSE a

-----------------------------------------------------------------------------
(* Versions: a sequence of components, some of them no numbers: a text without *)
(* a digit in front, and one that begins with a 1, like 1rc.                   *)

Word == -1
OneRc == -2
NotNumbers == {Word, OneRc}
Versions == AtMost(0..MaxDigit \cup NotNumbers, MaxParts) \ {<<>>}

Component(v, i) == IF i \in DOMAIN v THEN v[i] ELSE 0

\* The loop of both: the first place that differs decides, the shorter version
\* goes on with zeros.
FirstDifferenceGreater(a, b) ==
    \E i \in 1..Greater(Len(a), Len(b)) :
        /\ Component(a, i) > Component(b, i)
        /\ \A k \in 1..(i - 1) : Component(a, k) = Component(b, k)

\* _version_greater of the client raises ValueError for a component that is no
\* number; check_latest_version then says there is no update.
ClientGreater(a, b) ==
    /\ (ToSet(a) \cup ToSet(b)) \cap NotNumbers = {}
    /\ FirstDifferenceGreater(a, b)

\* parseInts of the service: Sscanf takes the digits in front, and leaves zero
\* where there are none.
Sscanf(c) == CASE c = Word -> 0 [] c = OneRc -> 1 [] OTHER -> c

\* versionGreater of the service.
ServiceGreater(a, b) ==
    LET Parsed(v) == [i \in DOMAIN v |-> Sscanf(v[i])]
    IN  FirstDifferenceGreater(Parsed(a), Parsed(b))

CompareVersions ==
    /\ call = NotCalled
    /\ \E a, b \in Versions :
          call' = [fn |-> "version", a |-> a, b |-> b,
                   client |-> ClientGreater(a, b), service |-> ServiceGreater(a, b)]

-----------------------------------------------------------------------------
(* Page ranges: a sequence of parts, <<p>>, <<s, e>> or <<>> for junk. *)

Parts == AtMost(0..(MaxPages + 1), 2)

\* Mutant: '5-3' names nothing.
PagesOfForward(part, total) ==
    IF Len(part) < 2 THEN ToSet(part) ELSE Greater(1, part[1])..Lesser(part[2], total)

\* One part: junk is skipped, a span may be written backwards.
PagesOf(part, total) ==
    IF Len(part) < 2 THEN ToSet(part)
    ELSE Greater(1, Lesser(part[1], part[2]))..Lesser(Greater(part[1], part[2]), total)

\* _parse_page_range, counting from one: sorted(set(...)), a set here.
ParsePageRange(spec, total) ==
    IF spec = <<>> THEN 1..total
    ELSE (UNION {PagesOf(spec[i], total) : i \in DOMAIN spec}) \cap 1..total

\* _prepare_pdf: a range that names nothing is taken for none.
PreparedPages(spec, total) ==
    LET pages == ParsePageRange(spec, total)
    IN  IF pages # {} /\ Cardinality(pages) < total THEN pages ELSE 1..total

SelectPages ==
    /\ call = NotCalled
    /\ \E spec \in AtMost(Parts, 2), total \in 1..MaxPages :
          call' = [fn |-> "pages", spec |-> spec, total |-> total,
                   named |-> ParsePageRange(spec, total),
                   printed |-> PreparedPages(spec, total)]

-----------------------------------------------------------------------------
(* n pages on a sheet. *)

Documented == {2, 4, 6, 8, 16}  \* api.py:86; the API accepts every number

\* grid_map: columns and rows.
Grid(n) ==
    CASE n = 4 -> <<2, 2>> [] n = 6 -> <<2, 3>> [] n = 8 -> <<2, 4>> [] n = 16 -> <<4, 4>>
      [] OTHER -> <<1, 2>>

\* Sheet, column and row of the page at index k.
Place(n, k) == <<k \div n, (k % n) % Grid(n)[1], (k % n) \div Grid(n)[1]>>

\* nup_compose; a single page is left as it is.
ComposeSheets ==
    /\ call = NotCalled
    /\ \E n \in Documented, total \in 2..(2 * MaxPages * MaxPages) :
          call' = [fn |-> "nup", n |-> n, total |-> total,
                   places |-> [k \in 0..(total - 1) |-> Place(n, k)]]

-----------------------------------------------------------------------------
(* The printer's status word: which of its bits are set, by what they mean;
   "unknown" is one that STATUS_BITS does not have. *)

Bits == {"error", "warning", "busy", "neutral", "unknown"}

ParseStatus(word) ==
    CASE word \ {"unknown"} = {} -> "ready"
      [] "error" \in word -> "error"
      [] "error" \notin word /\ "warning" \in word -> "warning"
      [] word \cap {"error", "warning"} = {} /\ "busy" \in word -> "busy"
      [] OTHER -> "ready"

ReadStatus ==
    /\ call = NotCalled
    /\ \E word \in SUBSET Bits :
          call' = [fn |-> "status", word |-> word, overall |-> ParseStatus(word)]

-----------------------------------------------------------------------------
Init == call = NotCalled
Next == CompareVersions \/ SelectPages \/ ComposeSheets \/ ReadStatus
Spec == Init /\ [][Next]_call

-----------------------------------------------------------------------------
(* Properties: what each function is for. *)

\* Reference order of versions: the number with the components for digits.
Weight(v) ==
    LET w[i \in 0..MaxParts] ==
            IF i = 0 THEN 0 ELSE w[i - 1] * (MaxDigit + 1) + Component(v, i)
    IN  w[MaxParts]

\* For versions of numbers the client and the service agree, on the order in
\* which 1.0 and 1.0.0 are the same; a version with something else in it never
\* looks newer to the client.
VersionsRight ==
    call.fn = "version" =>
        IF (ToSet(call.a) \cup ToSet(call.b)) \cap NotNumbers # {} THEN ~call.client
        ELSE /\ call.client = (Weight(call.a) > Weight(call.b))
             /\ call.service = call.client

\* A page range selects the pages of the document some part names; they are
\* printed, or everything is when it names no page at all.
PagesRight ==
    call.fn = "pages" =>
        LET Covers(part, p) ==
                \/ Len(part) = 1 /\ part[1] = p
                \/ /\ Len(part) = 2
                   /\ Lesser(part[1], part[2]) <= p /\ p <= Greater(part[1], part[2])
            named == {p \in 1..call.total : \E i \in DOMAIN call.spec : Covers(call.spec[i], p)}
        IN  /\ call.spec # <<>> => call.named = named
            /\ call.printed = IF named = {} THEN 1..call.total ELSE named

\* For the documented numbers every page lies within a sheet, no two in the
\* same cell, in reading order, and no sheet but the last has a free cell.
SheetsRight ==
    call.fn = "nup" =>
        LET cols == Grid(call.n)[1]
            rows == Grid(call.n)[2]
            Rank(k) == (call.places[k][1] * rows + call.places[k][3]) * cols + call.places[k][2]
        IN  /\ \A k \in DOMAIN call.places : call.places[k][2] < cols /\ call.places[k][3] < rows
            /\ \A k \in DOMAIN call.places : Rank(k) = k

\* The worst of what the printer reports wins: nothing that stops printing is
\* hidden behind a warning or a busy printer.
StatusRight ==
    call.fn = "status" =>
        LET worse == <<"ready", "busy", "warning", "error">>
            Rank(b) == CHOOSE i \in 1..4 : worse[i] = (IF b \in {"neutral", "unknown"} THEN "ready" ELSE b)
        IN  /\ \A b \in call.word : Rank(b) <= Rank(call.overall)
            /\ call.overall = "ready" \/ call.overall \in call.word

FunctionsRight == VersionsRight /\ PagesRight /\ SheetsRight /\ StatusRight
=============================================================================
