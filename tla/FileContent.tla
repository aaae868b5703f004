------------------------------ MODULE FileContent ------------------------------
(***************************************************************************)
(* What the stages make of a file: storage.Save, Validator.Validate and    *)
(* Extractor.Extract.  A file is a sequence of bytes, of which the classes *)
(* matter that the checks tell apart: "open" and "close" are braces, "ctl" *)
(* is a control character, and a character outside ASCII is a "lead" byte  *)
(* and a "cont".  The limits are scaled down.                              *)
(***************************************************************************)
EXTENDS Integers, Sequences, FiniteSets

CONSTANTS
  MaxFileSize,     \* domain.MaxFileSize
  MaxSummarySize,  \* domain.MaxSummarySize
  SniffSize,       \* what Save keeps for DetectContentType (512)
  PrefixSize,      \* what Validate reads for the magic (64 KiB)
  LineSize,        \* bufio.MaxScanTokenSize (64 KiB), of a line of YAML
  PreviewLines     \* lines of a text shown in its summary (20)

Byte == {"a", "open", "close", "colon", "hash", "space", "nl", "ctl", "nul",
         "lead", "cont", "%PDF"}
White == {"space", "nl"}
Missing == <<"missing">>            \* the stored file cannot be opened
Ext == {".txt", ".json", ".csv", ".yaml", ".exe"}

ASSUME ContentAssumption ==
  /\ {MaxFileSize, MaxSummarySize, SniffSize, PrefixSize, LineSize,
      PreviewLines} \subseteq Nat \ {0}
  /\ MaxSummarySize >= 3

UpTo(s, n) == SubSeq(s, 1, IF n < Len(s) THEN n ELSE Len(s))
Has(s, b)  == \E i \in DOMAIN s : s[i] = b
Lines(s)   == {i \in DOMAIN s : s[i] = "nl"}

\* The first n lines of s.
FirstLines(s, n) ==
  LET last == {i \in Lines(s) : Cardinality({j \in Lines(s) : j <= i}) = n}
  IN UpTo(s, IF last = {} THEN Len(s) ELSE (CHOOSE i \in last : TRUE) - 1)

\* s without the white space around it.
Trimmed(s) ==
  LET ink == {i \in DOMAIN s : s[i] \notin White}
  IN IF ink = {} THEN <<>>
     ELSE SubSeq(s, CHOOSE i \in ink : \A j \in ink : i <= j,
                    CHOOSE i \in ink : \A j \in ink : i >= j)

\* utf8.Valid
UTF8(s) ==
  /\ \A i \in DOMAIN s : s[i] = "lead" => i < Len(s) /\ s[i + 1] = "cont"
  /\ \A i \in DOMAIN s : s[i] = "cont" => i > 1 /\ s[i - 1] = "lead"

-------------------------------------------------------------------------------
\* net/http's DetectContentType: a signature counts where the content begins.
Binary(s) == Has(s, "nul") \/ Has(s, "ctl")
DetectContentType(s) ==
  CASE s[1] = "%PDF"                -> "application/pdf"
    [] s[1] # "%PDF" /\ Binary(s)   -> "application/octet-stream"
    [] s[1] # "%PDF" /\ ~Binary(s)  -> "text/plain"

\* What is recorded of an upload; the hash tells contents apart.
Save(ext, data) ==
  [ext |-> ext, size |-> Len(data), sha |-> data,
   mime |-> IF data = <<>> THEN "application/octet-stream"
            ELSE DetectContentType(UpTo(data, SniffSize))]

Allowed == Ext \ {".exe"}
MimeCompatible(ext, mime) ==
  \/ mime = "text/plain" \/ mime = "application/octet-stream"
  \/ ext = ".json" /\ mime = "application/json"
  \/ ext = ".yaml" /\ mime \in {"application/yaml", "application/x-yaml"}

ValidMagicVariant(ext, s) ==                  \* no test for NUL
  /\ UTF8(s)
  /\ ext = ".json" => Trimmed(s) = <<>> \/ Trimmed(s)[1] = "open"
  /\ ext = ".csv" /\ s # <<>> => Trimmed(FirstLines(s, 1)) # <<>>
ValidMagic(ext, s) ==
  /\ ~Has(s, "nul") /\ UTF8(s)
  /\ ext = ".json" => Trimmed(s) = <<>> \/ Trimmed(s)[1] = "open"
  /\ ext = ".csv" /\ s # <<>> => Trimmed(FirstLines(s, 1)) # <<>>

\* The checks, in order, and the code of the first that is not passed.
FirstCode(checks) ==
  LET failed == {i \in DOMAIN checks : ~checks[i][1]}
  IN IF failed = {} THEN ""
     ELSE checks[CHOOSE i \in failed : \A j \in failed : i <= j][2]

Validate(file, disk) == FirstCode(<<
  <<file.ext \in Allowed, "ERR_UNSUPPORTED_EXTENSION">>,
  <<MimeCompatible(file.ext, file.mime), "ERR_MIME_MISMATCH">>,
  <<disk # Missing, "ERR_MAGIC_MISMATCH">>,
  <<ValidMagic(file.ext, UpTo(disk, PrefixSize)), "ERR_MAGIC_MISMATCH">>,
  <<file.size # 0, "ERR_EMPTY_FILE">>,
  <<file.size <= MaxFileSize, "ERR_FILE_TOO_LARGE">>,
  <<disk = file.sha, "ERR_HASH_MISMATCH">> >>)

-------------------------------------------------------------------------------
\* encoding/json, of which one flat object of names is kept.
IsObject(s) == /\ Len(s) >= 2 /\ s[1] = "open" /\ s[Len(s)] = "close"
               /\ \A i \in 2 .. Len(s) - 1 : s[i] \notin {"open", "close"}
Names(s) == SubSeq(s, 2, Len(s) - 1)

\* A line the scanner of extractYAML has no room for.
LongLine(s) == \E i \in 1 .. Len(s) - LineSize + 1 :
                 \A j \in i .. i + LineSize - 1 : s[j] # "nl"

\* An extraction fails when the file cannot be read, is larger than it may be,
\* or its parser refuses it.
Extractable(file, disk) ==
  /\ disk # Missing /\ Len(disk) <= MaxFileSize
  /\ file.ext = ".json" => IsObject(Trimmed(disk))
  /\ file.ext = ".yaml" => ~LongLine(disk)

\* A key of extractYAML, from a to e: what stands, trimmed, before the first
\* colon of a line that is neither indented nor a comment.
IsKey(s, a, e) ==
  /\ a <= e /\ (a = 1 \/ s[a - 1] = "nl")
  /\ s[a] \notin {"space", "hash"} /\ s[e] # "space"
  /\ \A i \in a .. e : s[i] \notin {"nl", "colon"}
  /\ \E c \in DOMAIN s : c > e /\ s[c] = "colon" /\ \A i \in e + 1 .. c - 1 : s[i] = "space"

\* The keys, each once; the byte after a key stands for what separates it from
\* the next one, and the file's order for that of sort.Strings.
KeyPlaces(s) == {i \in DOMAIN s : \E a, e \in DOMAIN s :
  /\ IsKey(s, a, e) /\ i \in a .. e + 1
  /\ \A b, f \in DOMAIN s :
       IsKey(s, b, f) /\ SubSeq(s, b, f) = SubSeq(s, a, e) => a <= b}
BytesAt(s, places) ==
  [n \in 1 .. Cardinality(places) |->
     s[CHOOSE i \in places : Cardinality({j \in places : j <= i}) = n]]

\* The summary: the counts, one byte of them, and what is shown of the file.
Shown(ext, s) == CASE ext = ".json" -> Names(Trimmed(s))
                   [] ext = ".csv"  -> FirstLines(s, 4)
                   [] ext = ".yaml" -> BytesAt(s, KeyPlaces(s))
                   [] OTHER         -> FirstLines(s, PreviewLines)
Counts == <<"a">>
Marker == <<"nl", "a">>

\* truncateSummary: cut where a character starts.
TruncateSummaryVariant(s) ==                  \* cut at the byte
  IF Len(s) <= MaxSummarySize THEN s
  ELSE UpTo(s, MaxSummarySize - Len(Marker)) \o Marker
TruncateSummary(s) ==
  IF Len(s) <= MaxSummarySize THEN s
  ELSE LET room == MaxSummarySize - Len(Marker)
           limit == CHOOSE n \in 0 .. room :
                      /\ n > 0 => s[n + 1] # "cont"
                      /\ \A m \in n + 1 .. room : s[m + 1] = "cont"
       IN UpTo(s, limit) \o Marker

Extract(file, disk) == TruncateSummary(Counts \o Shown(file.ext, disk))
===============================================================================
