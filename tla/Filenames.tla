------------------------------- MODULE Filenames -------------------------------
(***************************************************************************)
(* What happens to a filename: encode_filename() records it in the S3      *)
(* metadata, decode_filename() reads it back, and build_content_           *)
(* disposition() shows it to the client who downloads the drawing and may  *)
(* upload the file again under the name it got (app/core/drawings.py).     *)
(*                                                                         *)
(* Characters are told apart only by what the code does with them. The two *)
(* limits, 1024 and 32 in the code, are constants, so that short names can *)
(* exceed them.                                                            *)
(***************************************************************************)
EXTENDS Integers, FiniteSets, SequencesExt

CONSTANTS
    Letter,         \* ASCII characters quote() leaves alone, "_" among them
    Dot, Colon, Sep,\* ".", ":" and the separators "/" and "\"
    Reserved,       \* printable ASCII characters quote() escapes
    QuoteMark,      \* the double quote; control characters fare like it
    Accented,       \* characters of two UTF-8 bytes
    Underscore,     \* the letter that replaces what a header cannot hold
    Broken,         \* what a cut escape sequence decodes to
    None,           \* no filename
    FallbackName,   \* "<drawing id>.kmz"
    MaxEncoded,     \* MAX_ENCODED_FILENAME_LENGTH
    MaxExtension,   \* MAX_ENCODED_EXTENSION_LENGTH
    MaxLength       \* bound on the names clients send

Escaped == Reserved \cup {Colon, Sep, QuoteMark}
Char == Letter \cup {Dot} \cup Escaped \cup Accented

\* No filename is no text. No character is of two kinds. An extension that is
\* kept fits into an encoded name, and so do two dots with a character behind
\* them.
ASSUME FilenameAssumption ==
    /\ None \notin Seq(Char) \cup Seq([of : Char, nth : Nat])
    /\ Underscore \in Letter /\ Broken \notin Char
    /\ Letter \cap Accented = {} /\ Dot \notin Letter
    /\ Escaped \cap (Letter \cup Accented \cup {Dot}) = {}
    /\ FallbackName \in Seq(Letter \cup {Dot})
    /\ Len(FallbackName) \in 1..MaxEncoded
    /\ FallbackName[1] \in Letter
    /\ {MaxEncoded, MaxExtension, MaxLength} \subseteq Nat
    /\ MaxExtension <= MaxEncoded /\ 8 <= MaxEncoded

VARIABLES
    filename,   \* what the client sends, character by character
    recorded,   \* the original-filename entry of the metadata, or None
    previous    \* what was recorded before the last upload

vars == <<filename, recorded, previous>>

-------------------------------------------------------------------------------
(* Percent-encoding. A character is encoded as itself or as three symbols  *)
(* for each of its bytes; a symbol knows which one of its character it is. *)

Width(c) == IF c \in Letter \cup {Dot} THEN 1 ELSE IF c \in Escaped THEN 3 ELSE 6

Symbols(c) == [k \in 1..Width(c) |-> [of |-> c, nth |-> k]]

Quote(name) == FlattenSeq([i \in DOMAIN name |-> Symbols(name[i])])

\* Where a whole character starts in the encoded text.
Starts(text) ==
    {i \in DOMAIN text :
        LET w == Width(text[i].of)
        IN  /\ i + w - 1 <= Len(text)
            /\ \A k \in 1..w : text[i + k - 1] = [of |-> text[i].of, nth |-> k]}

Unquote(text) ==
    LET covered == UNION {i .. i + Width(text[i].of) - 1 : i \in Starts(text)}
    IN  FlattenSeq([i \in DOMAIN text |->
            IF i \in Starts(text) THEN <<text[i].of>>
            ELSE IF i \in covered THEN <<>> ELSE <<Broken>>])

-------------------------------------------------------------------------------
(* pathlib.PureWindowsPath, of Python 3.14 (external).                     *)

\* A path without its drive: "x:", or "//server/share" (all of the path when
\* that part is incomplete).
WithoutDrive(path) ==
    LET later  == {i \in 3..Len(path) : path[i] = Sep}
        second == {i \in later : Cardinality({j \in later : j <= i}) = 2}
    IN  IF Len(path) >= 2 /\ path[1] = Sep /\ path[2] = Sep
        THEN IF second = {} THEN <<>>
             ELSE SubSeq(path, 1 + CHOOSE i \in second : TRUE, Len(path))
        ELSE IF Len(path) >= 2 /\ path[1] # Sep /\ path[2] = Colon
        THEN SubSeq(path, 3, Len(path))
        ELSE path

\* The last component, where empty ones and "." do not count.
LastComponent(path) ==
    LET component(i, j) ==
            /\ \A k \in i..j : path[k] # Sep
            /\ i > 1 => path[i - 1] = Sep
            /\ j < Len(path) => path[j + 1] = Sep
            /\ SubSeq(path, i, j) # <<Dot>>
        spans == {s \in (1..Len(path)) \X (1..Len(path)) : s[1] <= s[2] /\ component(s[1], s[2])}
    IN  IF spans = {} THEN <<>>
        ELSE LET last == CHOOSE s \in spans : \A t \in spans : t[1] <= s[1]
             IN  SubSeq(path, last[1], last[2])

BaseName(path) == LastComponent(WithoutDrive(path))

\* A component from its last dot on, if anything but dots precedes it.
Extension(name) ==
    LET dots == {i \in DOMAIN name : name[i] = Dot /\ \E j \in 1..(i - 1) : name[j] # Dot}
        last == {i \in dots : \A j \in DOMAIN name : j > i => name[j] # Dot}
    IN  IF last = {} THEN <<>>
        ELSE SubSeq(name, CHOOSE i \in last : TRUE, Len(name))

Suffix(path) == Extension(BaseName(path))

-------------------------------------------------------------------------------
(* app/core/drawings.py.                                                   *)

\* What is left of a name, unless it is only path syntax.
OrFallback(name) == IF name \in {<<>>, <<Dot>>, <<Dot, Dot>>} THEN FallbackName ELSE name

BadUsableName(path) ==
    LET file == IF path = None THEN <<>> ELSE path
        seps == {i \in DOMAIN file : file[i] = Sep}
    IN  OrFallback(IF seps = {} THEN file
                   ELSE SubSeq(file, 1 + CHOOSE i \in seps : \A j \in seps : i <= j, Len(file)))

\* The name without directories, or the fallback.
UsableName(path) ==
    OrFallback(IF path = None THEN <<>> ELSE BaseName(path))

\* An extension that is too long is treated as part of the stem.
KeptSuffix(suffix) == IF Len(Quote(suffix)) > MaxExtension THEN <<>> ELSE suffix

\* As many characters of the stem as the budget allows, and the suffix.
Cut(stem, suffix, budget) ==
    LET kept == {k \in 1..Len(stem) : Len(Quote(SubSeq(stem, 1, k))) <= budget}
    IN  Quote(SubSeq(stem, 1, Cardinality(kept))) \o Quote(suffix)

Stem(name, suffix) == SubSeq(name, 1, Len(name) - Len(suffix))

BadShorten(name) == SubSeq(Quote(name), 1, MaxEncoded)

BadBudgetShorten(name) ==
    LET suffix == KeptSuffix(Suffix(name))
    IN  Cut(Stem(name, suffix), suffix, MaxEncoded)

\* The longest part of the stem that leaves room for the extension.
Shorten(name) ==
    LET suffix == KeptSuffix(Suffix(name))
    IN  Cut(Stem(name, suffix), suffix, MaxEncoded - Len(Quote(suffix)))

Encode(name) == IF Len(Quote(name)) <= MaxEncoded THEN Quote(name) ELSE Shorten(name)

EncodeFilename(path) == Encode(UsableName(path))

DecodeFilename(text) == IF text \in {None, <<>>} THEN None ELSE Unquote(text)

BadAscii(c) == IF c \in Accented THEN Underscore ELSE c

\* A character of the quoted fallback name.
Ascii(c) == IF c \in Accented \cup {QuoteMark} THEN Underscore ELSE c

\* filename="..." and filename*=..., without the fixed text around them.
ContentDisposition(name) ==
    <<QuoteMark>> \o [i \in DOMAIN name |-> Ascii(name[i])] \o <<QuoteMark>>
        \o Quote(name)

-------------------------------------------------------------------------------
Init ==
    /\ filename = <<>>
    /\ recorded = None
    /\ previous = None

\* The client makes up its filename.
Type(c) ==
    /\ recorded = None
    /\ Len(filename) < MaxLength
    /\ filename' = Append(filename, c)
    /\ UNCHANGED <<recorded, previous>>

\* The drawing is uploaded under that name; an empty one stands for none.
Upload ==
    /\ recorded = None
    /\ recorded' = EncodeFilename(IF filename = <<>> THEN None ELSE filename)
    /\ UNCHANGED <<filename, previous>>

\* The client downloads the drawing and uploads another content under the
\* name it got.
UploadAgain ==
    /\ recorded # None
    /\ previous = None
    /\ filename' = DecodeFilename(recorded)
    /\ recorded' = EncodeFilename(filename')
    /\ previous' = recorded

Done == previous # None /\ UNCHANGED vars

Next == (\E c \in Char : Type(c)) \/ Upload \/ UploadAgain \/ Done

Spec == Init /\ [][Next]_vars

-------------------------------------------------------------------------------
(* Properties.                                                             *)

Shown == DecodeFilename(recorded)

\* S3 caps the user metadata: the encoded name stays within its budget,
\* whatever its characters encode to (MAX_ENCODED_FILENAME_LENGTH).
FitsMetadata == recorded # None => Len(recorded) <= MaxEncoded

\* What is shown is the longest start of the name that fits with its extension.
LongestStart(name, extension) ==
    LET cuts == {SubSeq(name, 1, n) \o extension : n \in 0..(Len(name) - Len(extension))}
        fits == {cut \in cuts : Len(Quote(cut)) <= MaxEncoded}
    IN  Shown \in fits /\ \A cut \in fits : Len(cut) <= Len(Shown)

\* The client gets back the very name it sent, without directories; if that
\* is too long, the longest start of it that fits, with a real extension kept
\* and no character cut in the middle.
OnlyShortened ==
    recorded # None /\ previous = None =>
        LET name == IF BaseName(filename) \in {<<>>, <<Dot, Dot>>}
                    THEN FallbackName ELSE BaseName(filename)
        IN  LongestStart(name, IF Len(Quote(Suffix(name))) <= MaxExtension
                               THEN Suffix(name) ELSE <<>>)

\* A name is recorded once and for all: who downloads a drawing and uploads
\* it again under the name shown leaves the name as it is. (Only a name that
\* itself looks like a path on another drive, "x:map.kmz", is stripped anew.)
UploadAgainKeepsName ==
    previous # None => recorded = previous \/ WithoutDrive(filename) # filename

\* The name is read back from both parts of the header.
Readable(header, name) ==
    LET end == CHOOSE i \in 2..Len(header) :
                  header[i] = QuoteMark /\ \A j \in 2..(i - 1) : header[j] # QuoteMark
    IN  /\ end - 2 = Len(name)
        /\ \A i \in 2..(end - 1) : header[i] \notin Accented
        /\ Unquote(SubSeq(header, end + 1, Len(header))) = name

\* Both names in the Content-Disposition header can be read back: the quoted
\* one ends at the first quotation mark and has a character for each of the
\* name's, and the extended one is the exact name.
HeaderReadable == recorded # None => Readable(ContentDisposition(Shown), Shown)
===============================================================================
