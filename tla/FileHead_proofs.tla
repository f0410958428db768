--------------------------- MODULE FileHead_proofs ---------------------------
(***************************************************************************)
(* For all lines, bodies and tags: the first line of a file binds its      *)
(* reader, because the header says what the tokens so far say and nothing  *)
(* behind them changes it; every channel of a metablock is typed; what a   *)
(* WriterBuilder writes is read; and an XML metablock gives what a JSON    *)
(* one with the same entries gives.                                        *)
(***************************************************************************)
EXTENDS FileHead, FoldLemmas, TLAPS

Spec == Init /\ [][Next]_vars

\* The phases behind the first field, and those behind the whole line.
InLine     == {"tokens", "body", "crc", "Osf4", "Osf5", "open"}
BehindLine == InLine \ {"tokens"}
BehindCrc  == {"Osf4", "Osf5", "open"}

Key(i) == stream.fields[i].key

MagicHeader == [version : Versions, metablock_len : Nat, metablock_crc : Seq(Nat),
                integrity : {"none", "crc32c", "ed25519"}]

\* What the fields that were read say, and the header with them.
Read ==
    /\ fields_read \in 1..Len(stream.fields)
    /\ Key(1) = "number"
    /\ header \in MagicHeader
    /\ header.version = "Osf5" <=> stream.identifier = "OSF5"
    /\ \A i \in 2..fields_read : Key(i) \in {"crc32c", "ed25519"}
    /\ fields_read > 1 => header.version = "Osf5"
    /\ header.integrity = IF fields_read > 1 THEN Key(fields_read) ELSE "none"

\* The CRC of the header is the last that was read.
LastCrc ==
    IF header.metablock_crc = <<>>
    THEN \A i \in 1..fields_read : Key(i) # "crc32c"
    ELSE \E i \in 1..fields_read :
            /\ Key(i) = "crc32c"
            /\ header.metablock_crc = <<stream.fields[i].value>>
            /\ \A j \in 1..fields_read : Key(j) = "crc32c" => j <= i

\* A signature is declared behind a CRC only.
CrcFirst ==
    \A i \in 1..fields_read :
        Key(i) = "ed25519" => \E j \in 1..fields_read : j < i /\ Key(j) = "crc32c"

HeadInv ==
    /\ stream \in Streams
    /\ phase \in InLine => Read /\ LastCrc /\ CrcFirst
    /\ phase \in BehindLine => fields_read = Len(stream.fields)
    /\ phase \in BehindCrc => header.metablock_crc \in {<<>>, <<stream.crc>>}

---------------------------------------------------------------------------
LEMMA StreamType ==
    ASSUME HeadInv
    PROVE  /\ stream.fields \in Seq(Field)
           /\ Len(stream.fields) \in Nat
           /\ DOMAIN stream.fields = 1..Len(stream.fields)
           /\ \A i \in DOMAIN stream.fields :
                 Key(i) \in {"number", "crc32c", "ed25519", "unknown", "malformed", "empty"}
  <1>1. stream.fields \in Seq(Field)
    BY StreamAssumption DEF HeadInv, Stream
  <1>2. \A i \in 1..Len(stream.fields) : stream.fields[i] \in Field
    BY <1>1
  <1>. QED  BY <1>1, <1>2 DEF Key, Field

\* The steps that leave the header and the stream alone and go on in order.
Quiet ==
    /\ UNCHANGED <<stream, head>>
    /\ phase' \in InLine => phase \in InLine
    /\ phase' \in BehindLine => phase \in BehindLine
    /\ phase' \in BehindCrc => phase \in BehindCrc

LEMMA QuietKeeps ==
    ASSUME HeadInv, Quiet
    PROVE  HeadInv'
  BY DEF HeadInv, Quiet, Read, LastCrc, CrcFirst, Key, head

\* What a reader does with a body is of no concern to the header.
LEMMA BodySteps ==
    ASSUME ParseJson \/ ParseXml \/ BrokenXml
    PROVE  Quiet
  <1>1. CASE ParseJson
    BY <1>1 DEF ParseJson, Goes, Fails, Quiet, InLine, BehindLine, BehindCrc
  <1>2. CASE BrokenXml
    BY <1>2 DEF BrokenXml, Fails, Quiet, InLine, BehindLine, BehindCrc
  <1>3. CASE StartRoot
    BY <1>3 DEF StartRoot, Element, Event, Fails, Quiet, InLine, BehindLine, BehindCrc
  <1>4. CASE StartSection
    BY <1>4 DEF StartSection, Element, Event, Quiet, InLine, BehindLine, BehindCrc
  <1>5. CASE StartChannel
    BY <1>5 DEF StartChannel, Element, Event, Fails, Quiet, InLine, BehindLine, BehindCrc
  <1>6. CASE StartInfo
    BY <1>6 DEF StartInfo, Element, Event, Fails, Quiet, InLine, BehindLine, BehindCrc
  <1>7. CASE EndTag
    BY <1>7 DEF EndTag, Closing, Event, Quiet, InLine, BehindLine, BehindCrc
  <1>8. CASE SkipTag
    BY <1>8 DEF SkipTag, Element, Closing, Event, Quiet, InLine, BehindLine, BehindCrc
  <1>9. CASE EndOfXml
    BY <1>9 DEF EndOfXml, Fails, Goes, Quiet, InLine, BehindLine, BehindCrc
  <1>. QED  BY <1>1, <1>2, <1>3, <1>4, <1>5, <1>6, <1>7, <1>8, <1>9 DEF ParseXml

\* A token: the header follows it.
LEMMA TokenStep ==
    ASSUME HeadInv, parse_token
    PROVE  HeadInv'
  <1>. DEFINE n == fields_read
              token == stream.fields[n + 1]
  <1>1. CASE TokenError(token) # "none"
    BY <1>1 DEF parse_token, Fails, HeadInv, InLine, BehindLine, BehindCrc
  <1>2. CASE TokenError(token) = "none"
    <2>1. /\ phase = "tokens" /\ phase' = "tokens"
          /\ stream' = stream
          /\ n \in 1..Len(stream.fields) /\ n < Len(stream.fields) /\ n' = n + 1
          /\ header' = Understood(token)
          /\ Read /\ LastCrc /\ CrcFirst
      BY <1>2 DEF parse_token, HeadInv, InLine, Read
    <2>2. /\ header.version # "Osf4"
          /\ token.key \in {"crc32c", "ed25519"}
          /\ token.key = "ed25519" => header.metablock_crc # <<>>
      BY <1>2 DEF TokenError
    <2>3. Len(stream.fields) \in Nat
      BY StreamType
    <2>4. \A i \in 1..(n + 1) : i \in 1..n \/ i = n + 1
      BY <2>1, <2>3
    <2>5. \A i : Key(i)' = Key(i)
      BY <2>1 DEF Key
    <2>6. Key(n + 1) = token.key
      BY DEF Key
    <2>7. header' = [header EXCEPT !.integrity = token.key, !.metablock_crc = header'.metablock_crc]
      BY <2>1 DEF Understood
    <2>8. \A i \in 1..n : n + 1 > i /\ i \in 1..(n + 1)
      BY <2>1, <2>3
    <2>9. header.version' = header.version /\ header.integrity' = token.key
      BY <2>7, <2>1 DEF Read, MagicHeader
    <2>10. Read'
      <3>1. fields_read' \in 1..Len(stream.fields')
        BY <2>1, <2>3
      <3>2. \A i \in 2..(n + 1) : Key(i) \in {"crc32c", "ed25519"}
        <4>. SUFFICES ASSUME NEW i \in 2..(n + 1)
                      PROVE  Key(i) \in {"crc32c", "ed25519"}
          OBVIOUS
        <4>1. CASE i = n + 1
          BY <4>1, <2>2, <2>6
        <4>2. CASE i # n + 1
          <5>1. i \in 2..n
            BY <4>2, <2>1, <2>3
          <5>. QED  BY <5>1, <2>1 DEF Read
        <4>. QED  BY <4>1, <4>2
      <3>3. header.version = "Osf5"
        BY <2>1, <2>2 DEF Read, MagicHeader, Versions
      <3>4. header' \in MagicHeader
        <4>1. header \in MagicHeader /\ token \in Field
          <5>1. stream.fields \in Seq(Field) /\ n + 1 \in 1..Len(stream.fields)
            BY StreamType, <2>1, <2>3
          <5>. QED  BY <5>1, <2>1 DEF Read
        <4>2. header'.metablock_crc \in Seq(Nat)
          BY <4>1, <2>1 DEF Understood, MagicHeader, Field
        <4>. QED  BY <4>1, <4>2, <2>7, <2>2 DEF MagicHeader
      <3>5. fields_read' > 1 /\ header'.integrity = Key(fields_read)'
        BY <2>1, <2>3, <2>9 DEF Key
      <3>6. Key(1)' = "number" /\ \A i \in 2..fields_read' : Key(i)' \in {"crc32c", "ed25519"}
        BY <3>2, <2>1, <2>5 DEF Read
      <3>7. header.version' = "Osf5" <=> stream.identifier' = "OSF5"
        BY <2>1, <2>9 DEF Read
      <3>. QED  BY <3>1, <3>3, <3>4, <3>5, <3>6, <3>7, <2>9 DEF Read
    <2>11. CASE token.key = "crc32c"
      <3>1. header.metablock_crc' = <<token.value>> /\ header.metablock_crc' # <<>>
        BY <2>1, <2>11, <2>9 DEF Understood, Read, MagicHeader
      <3>2. LastCrc'
        <4>. SUFFICES /\ Key(n + 1) = "crc32c"
                      /\ \A j \in 1..(n + 1) : j <= n + 1
          BY <3>1, <2>1, <2>3, <2>5 DEF LastCrc
        <4>. QED  BY <2>11, <2>6, <2>1, <2>3
      <3>3. CrcFirst'
        BY <2>11, <2>1, <2>3, <2>4, <2>5, <2>6, <2>8 DEF CrcFirst
      <3>. QED  BY <3>2, <3>3, <2>10, <2>1 DEF HeadInv, BehindLine, BehindCrc
    <2>12. CASE token.key = "ed25519"
      <3>1. header.metablock_crc' = header.metablock_crc
        BY <2>1, <2>12, <2>9 DEF Understood, Read, MagicHeader
      <3>2. PICK c \in 1..n : /\ Key(c) = "crc32c"
                              /\ header.metablock_crc = <<stream.fields[c].value>>
                              /\ \A j \in 1..n : Key(j) = "crc32c" => j <= c
        BY <2>1, <2>2, <2>12 DEF LastCrc
      <3>3. LastCrc'
        BY <3>1, <3>2, <2>1, <2>2, <2>12, <2>4, <2>5, <2>6, <2>8 DEF LastCrc
      <3>4. CrcFirst'
        BY <3>2, <2>1, <2>12, <2>4, <2>5, <2>6, <2>8 DEF CrcFirst
      <3>. QED  BY <3>3, <3>4, <2>10, <2>1 DEF HeadInv, BehindLine, BehindCrc
    <2>. QED  BY <2>2, <2>11, <2>12
  <1>. QED  BY <1>1, <1>2

\* The first field: what the line says is in the header, and nothing else yet.
LEMMA HeaderStep ==
    ASSUME HeadInv, parse_magic_header
    PROVE  HeadInv'
  <1>1. CASE HeaderError = "none"
    <2>1. /\ stream' = stream /\ phase' = "tokens" /\ fields_read' = 1
          /\ header' = [version |-> Version, metablock_len |-> stream.fields[1].value,
                        integrity |-> "none", metablock_crc |-> <<>>]
      BY <1>1 DEF parse_magic_header, Goes
    <2>2. stream.fields # <<>> /\ Key(1) = "number"
      BY <1>1 DEF HeaderError, Key
    <2>3. Len(stream.fields) \in Nat /\ Len(stream.fields) > 0
      <3>1. stream.fields \in Seq(Field)
        BY StreamType
      <3>. QED  BY <3>1, <2>2
    <2>4. Key(1)' = "number" /\ \A i \in 1..1 : Key(i)' = "number"
      BY <2>1, <2>2 DEF Key
    <2>5. Read'
      <3>1. stream.fields \in Seq(Field) /\ 1 \in 1..Len(stream.fields)
        BY StreamType, <2>3
      <3>2. stream.fields[1] \in Field
        BY <3>1
      <3>5. stream.fields[1].value \in Nat
        BY <3>2 DEF Field
      <3>3. header' \in MagicHeader
        BY <3>5, <2>1 DEF MagicHeader, Version, Versions
      <3>. QED  BY <3>3, <2>1, <2>3, <2>4 DEF Read, Version
    <2>6. LastCrc' /\ CrcFirst'
      BY <2>1, <2>4 DEF LastCrc, CrcFirst
    <2>. QED  BY <2>1, <2>5, <2>6 DEF HeadInv, BehindLine, BehindCrc
  <1>2. CASE HeaderError # "none"
    BY <1>2 DEF parse_magic_header, Fails, HeadInv, InLine, BehindLine, BehindCrc
  <1>. QED  BY <1>1, <1>2

\* The line is done when all its fields are read, and the CRC is the one declared when
\* it is compared.
LEMMA OtherSteps ==
    ASSUME HeadInv,
           \/ detect_and_wrap \/ IoFails \/ read_first_line \/ end_of_header
           \/ read_body \/ verify_metablock_crc
    PROVE  HeadInv'
  <1>1. CASE detect_and_wrap
    <2>1. Quiet
      BY <1>1 DEF detect_and_wrap, Goes, Quiet, InLine, BehindLine, BehindCrc
    <2>. QED  BY <2>1, QuietKeeps
  <1>2. CASE IoFails
    <2>1. Quiet
      BY <1>2 DEF IoFails, Fails, Quiet, InLine, BehindLine, BehindCrc
    <2>. QED  BY <2>1, QuietKeeps
  <1>3. CASE read_first_line
    <2>1. Quiet
      BY <1>3 DEF read_first_line, Goes, Fails, Quiet, InLine, BehindLine, BehindCrc
    <2>. QED  BY <2>1, QuietKeeps
  <1>4. CASE end_of_header
    <2>1. /\ UNCHANGED <<stream, header, fields_read>>
          /\ phase = "tokens" /\ phase' = "body"
          /\ fields_read = Len(stream.fields)
      BY <1>4 DEF end_of_header, Goes, head
    <2>. QED  BY <2>1 DEF HeadInv, InLine, BehindLine, BehindCrc, Read, LastCrc, CrcFirst, Key
  <1>5. CASE read_body
    <2>1. Quiet
      BY <1>5 DEF read_body, Goes, Fails, Quiet, InLine, BehindLine, BehindCrc
    <2>. QED  BY <2>1, QuietKeeps
  <1>6. CASE verify_metablock_crc
    <2>1. /\ UNCHANGED <<stream, header, fields_read>>
          /\ phase = "crc"
          /\ \/ phase' = "failed"
             \/ header.metablock_crc \in {<<>>, <<stream.crc>>}
      BY <1>6 DEF verify_metablock_crc, Goes, Fails, head
    <2>. QED  BY <2>1 DEF HeadInv, InLine, BehindLine, BehindCrc, Read, LastCrc, CrcFirst, Key
  <1>. QED  BY <1>1, <1>2, <1>3, <1>4, <1>5, <1>6

LEMMA HeadStep ==
    ASSUME HeadInv, [Next]_vars
    PROVE  HeadInv'
  <1>1. CASE ParseJson \/ ParseXml \/ BrokenXml
    BY <1>1, BodySteps, QuietKeeps
  <1>2. CASE parse_token
    BY <1>2, TokenStep
  <1>3. CASE parse_magic_header
    BY <1>3, HeaderStep
  <1>4. CASE \/ detect_and_wrap \/ IoFails \/ read_first_line \/ end_of_header
             \/ read_body \/ verify_metablock_crc
    BY <1>4, OtherSteps
  <1>5. CASE UNCHANGED vars
    <2>1. Quiet
      BY <1>5 DEF vars, Quiet
    <2>. QED  BY <2>1, QuietKeeps
  <1>. QED  BY <1>1, <1>2, <1>3, <1>4, <1>5 DEF Next, Reading

\* At every step of every line the header says what the fields that were read say.
THEOREM HeadAlways == Spec => []HeadInv
  <1>1. Init => HeadInv
    BY DEF Init, HeadInv, InLine, BehindLine, BehindCrc
  <1>2. HeadInv /\ [Next]_vars => HeadInv'
    BY HeadStep
  <1>. QED  BY <1>1, <1>2, PTL DEF Spec

LEMMA HonouredByInv ==
    ASSUME HeadInv
    PROVE  HeaderIsHonoured
  <1>. DEFINE n == Len(stream.fields)
  <1>. SUFFICES ASSUME phase = "open"
                PROVE  /\ \A i \in 2..n : stream.fields[i].key \in {"crc32c", "ed25519"}
                       /\ n > 1 => stream.identifier = "OSF5"
                       /\ header.integrity = IF n > 1 THEN stream.fields[n].key ELSE "none"
                       /\ \A i \in DeclaredCrcs :
                             (\A j \in DeclaredCrcs : j <= i) =>
                                 /\ header.metablock_crc = <<stream.crc>>
                                 /\ stream.fields[i].value = stream.crc
                       /\ \A i \in DOMAIN stream.fields :
                             stream.fields[i].key = "ed25519" => \E j \in DeclaredCrcs : j < i
    BY DEF HeaderIsHonoured
  <1>1. /\ Read /\ LastCrc /\ CrcFirst
        /\ fields_read = n
        /\ header.metablock_crc \in {<<>>, <<stream.crc>>}
    BY DEF HeadInv, InLine, BehindLine, BehindCrc
  <1>2. DOMAIN stream.fields = 1..fields_read /\ n \in Nat
    BY <1>1, StreamType
  <1>3. \A i : i \in DeclaredCrcs <=> i \in 1..fields_read /\ Key(i) = "crc32c"
    BY <1>2 DEF DeclaredCrcs, Key
  <1>4. ASSUME NEW i \in DeclaredCrcs, \A j \in DeclaredCrcs : j <= i
        PROVE  header.metablock_crc = <<stream.crc>> /\ stream.fields[i].value = stream.crc
    <2>1. header.metablock_crc # <<>>
      BY <1>1, <1>3, <1>4 DEF LastCrc
    <2>2. PICK c \in 1..fields_read :
             /\ Key(c) = "crc32c"
             /\ header.metablock_crc = <<stream.fields[c].value>>
             /\ \A j \in 1..fields_read : Key(j) = "crc32c" => j <= c
      BY <1>1, <2>1 DEF LastCrc
    <2>3. header.metablock_crc = <<stream.crc>>
      BY <1>1, <2>1
    <2>4. stream.fields[c].value = stream.crc
      BY <2>2, <2>3
    <2>5. i <= c /\ c <= i /\ i \in 1..fields_read
      BY <1>3, <1>4, <2>2
    <2>6. i = c
      BY <1>1, <1>2, <2>5
    <2>. QED  BY <2>3, <2>4, <2>6
  <1>5. \A i \in DOMAIN stream.fields :
           stream.fields[i].key = "ed25519" => \E j \in DeclaredCrcs : j < i
    BY <1>1, <1>2, <1>3 DEF CrcFirst, Key
  <1>6. /\ \A i \in 2..n : stream.fields[i].key \in {"crc32c", "ed25519"}
        /\ n > 1 => stream.identifier = "OSF5"
        /\ header.integrity = IF n > 1 THEN stream.fields[n].key ELSE "none"
    BY <1>1 DEF Read, Key
  <1>. HIDE DEF n
  <1>. QED  BY <1>4, <1>5, <1>6

\* A file is opened only as its first line says: every token is understood, the level is
\* that of the last token, the CRC that is declared last is the CRC of the metablock, and
\* a signature stands behind a CRC, whatever the line, the body and the reads that fail.
THEOREM HeaderIsAlwaysHonoured == Spec => []HeaderIsHonoured
  <1>1. HeadInv => HeaderIsHonoured
    BY HonouredByInv
  <1>. QED  BY <1>1, HeadAlways, PTL

---------------------------------------------------------------------------
(* Checks in a row, and what a body gives. *)

AllIn(s, P) == \A k \in DOMAIN s : s[k] \in P

LEMMA ConcatAll ==
    ASSUME NEW X, NEW s \in Seq(X), NEW t \in Seq(X), NEW P
    PROVE  /\ s \o t \in Seq(X)
           /\ AllIn(s \o t, P) <=> AllIn(s, P) /\ AllIn(t, P)
  <1>. DEFINE m == Len(s)
              n == Len(t)
              c == s \o t
  <1>1. /\ c \in Seq(X) /\ m \in Nat /\ n \in Nat /\ Len(c) = m + n
        /\ DOMAIN s = 1..m /\ DOMAIN t = 1..n /\ DOMAIN c = 1..(m + n)
        /\ \A k \in 1..m : c[k] = s[k]
        /\ \A k \in 1..n : c[m + k] = t[k]
    OBVIOUS
  <1>2. ASSUME AllIn(c, P)
        PROVE  AllIn(s, P) /\ AllIn(t, P)
    <2>1. \A k \in 1..n : m + k \in 1..(m + n)
      BY <1>1
    <2>2. \A k \in 1..m : k \in 1..(m + n)
      BY <1>1
    <2>. HIDE DEF c, m, n
    <2>. QED  BY <1>1, <1>2, <2>1, <2>2 DEF AllIn
  <1>3. ASSUME AllIn(s, P), AllIn(t, P)
        PROVE  AllIn(c, P)
    <2>1. \A k \in 1..(m + n) : k \in 1..m \/ (k - m \in 1..n /\ m + (k - m) = k)
      BY <1>1
    <2>. HIDE DEF c, m, n
    <2>. QED  BY <1>1, <1>3, <2>1 DEF AllIn
  <1>. QED  BY <1>1, <1>2, <1>3

LEMMA FirstErrorIs ==
    ASSUME NEW n \in Nat, NEW errors, DOMAIN errors = 1..n
    PROVE  /\ FirstError(errors) = "none" <=> AllIn(errors, {"none"})
           /\ \/ FirstError(errors) = "none"
              \/ \E k \in DOMAIN errors : FirstError(errors) = errors[k]
  <1>1. CASE AllIn(errors, {"none"})
    BY <1>1 DEF AllIn, FirstError
  <1>2. CASE ~AllIn(errors, {"none"})
    <2>. DEFINE T == {k \in 1..n : errors[k] # "none"}
                Is(k) == k \in DOMAIN errors /\ errors[k] # "none"
                            /\ \A j \in 1..(k - 1) : errors[j] = "none"
    <2>1. T \in SUBSET Nat /\ T # {}
      BY <1>2 DEF AllIn
    <2>2. PICK x \in T : \A y \in T : x <= y
      BY <2>1, LeastNatural
    <2>3. Is(x)
      BY <2>2
    <2>4. FirstError(errors) = errors[CHOOSE k \in DOMAIN errors :
                                         /\ errors[k] # "none"
                                         /\ \A j \in 1..(k - 1) : errors[j] = "none"]
      BY <1>2, Zenon DEF FirstError, AllIn
    <2>5. \E k : Is(k) /\ FirstError(errors) = errors[k]
      BY <2>3, <2>4
    <2>. QED  BY <1>2, <2>5
  <1>. QED  BY <1>1, <1>2

BodyErrors == {"none", "Json", "InvalidMetablock", "RemovedInSpec2026_05_04"}

LEMMA SingleErrors ==
    /\ \A c : ChannelError(c) \in BodyErrors
    /\ \A f : InfoError(f) \in BodyErrors
    /\ \A f : FileError(f) \in BodyErrors
    /\ \A kind : Wrong(kind) \in BodyErrors
  BY DEF ChannelError, InfoError, FileError, Wrong, BodyErrors

\* A channel element passes when its channel does and its time increment is a number.
LEMMA XmlErrorIs ==
    ASSUME NEW c
    PROVE  /\ XmlChannelError(c) \in BodyErrors
           /\ XmlChannelError(c) = "none" =>
                 ChannelError(c) = "none" /\ c.timeincrement # Unreadable
  <1>. DEFINE e == <<ChannelError(c),
                     IF c.timeincrement = Unreadable THEN "InvalidMetablock" ELSE "none">>
  <1>1. DOMAIN e = 1..2 /\ e[1] = ChannelError(c)
        /\ e[2] = IF c.timeincrement = Unreadable THEN "InvalidMetablock" ELSE "none"
    OBVIOUS
  <1>2. e[1] \in BodyErrors /\ e[2] \in BodyErrors
    BY <1>1, SingleErrors DEF BodyErrors
  <1>3. XmlChannelError(c) = FirstError(e)
    BY DEF XmlChannelError
  <1>. HIDE DEF e
  <1>4. /\ FirstError(e) = "none" <=> AllIn(e, {"none"})
        /\ FirstError(e) = "none" \/ \E k \in DOMAIN e : FirstError(e) = e[k]
    BY <1>1, FirstErrorIs
  <1>5. 1 \in 1..2 /\ 2 \in 1..2 /\ \A k \in 1..2 : k = 1 \/ k = 2
    OBVIOUS
  <1>6. FirstError(e) \in BodyErrors
    BY <1>1, <1>2, <1>4, <1>5 DEF BodyErrors
  <1>7. ASSUME FirstError(e) = "none"
        PROVE  e[1] = "none" /\ e[2] = "none"
    BY <1>1, <1>4, <1>5, <1>7 DEF AllIn
  <1>. QED  BY <1>1, <1>3, <1>6, <1>7

Sound(j) ==
    /\ j.parsable /\ j.osf
    /\ Wrong(j.file_kind) = "none" /\ Wrong(j.channels_kind) = "none"
    /\ Wrong(j.infos_kind) = "none"
    /\ \A k \in DOMAIN j.channels : ChannelError(j.channels[k]) = "none"
    /\ \A k \in DOMAIN j.infos : InfoError(j.infos[k]) = "none"

\* A body is refused exactly when one of its checks is.
LEMMA JsonErrorIs ==
    ASSUME NEW j, \E n \in Nat : DOMAIN j.channels = 1..n, \E n \in Nat : DOMAIN j.infos = 1..n
    PROVE  /\ JsonError(j) \in BodyErrors
           /\ JsonError(j) = "none" <=> Sound(j)
  <1>. DEFINE a == <<IF j.parsable THEN "none" ELSE "Json",
                     IF j.osf THEN "none" ELSE "InvalidMetablock",
                     Wrong(j.file_kind), Wrong(j.channels_kind)>>
              b == [k \in DOMAIN j.channels |-> ChannelError(j.channels[k])]
              c == <<Wrong(j.infos_kind)>>
              d == [k \in DOMAIN j.infos |-> InfoError(j.infos[k])]
              e == a \o b \o c \o d
              N == {"none"}
  <1>1. a \in Seq(BodyErrors)
    BY SingleErrors DEF BodyErrors
  <1>2. b \in Seq(BodyErrors)
    BY SingleErrors
  <1>3. c \in Seq(BodyErrors)
    BY SingleErrors
  <1>4. d \in Seq(BodyErrors)
    BY SingleErrors
  <1>5. AllIn(a, N) <=> /\ j.parsable /\ j.osf
                        /\ Wrong(j.file_kind) = "none" /\ Wrong(j.channels_kind) = "none"
    <2>1. DOMAIN a = 1..4 /\ \A k \in 1..4 : k = 1 \/ k = 2 \/ k = 3 \/ k = 4
      OBVIOUS
    <2>2. 1 \in 1..4 /\ 2 \in 1..4 /\ 3 \in 1..4 /\ 4 \in 1..4
      OBVIOUS
    <2>3. /\ a[1] = IF j.parsable THEN "none" ELSE "Json"
          /\ a[2] = IF j.osf THEN "none" ELSE "InvalidMetablock"
          /\ a[3] = Wrong(j.file_kind) /\ a[4] = Wrong(j.channels_kind)
      OBVIOUS
    <2>4. (a[1] = "none" <=> j.parsable) /\ (a[2] = "none" <=> j.osf)
      BY <2>3
    <2>. HIDE DEF a
    <2>5. AllIn(a, N) <=> a[1] = "none" /\ a[2] = "none" /\ a[3] = "none" /\ a[4] = "none"
      BY <2>1, <2>2 DEF AllIn
    <2>. QED  BY <2>3, <2>4, <2>5
  <1>6. AllIn(b, N) <=> \A k \in DOMAIN j.channels : ChannelError(j.channels[k]) = "none"
    BY DEF AllIn
  <1>7. AllIn(c, N) <=> Wrong(j.infos_kind) = "none"
    BY DEF AllIn
  <1>8. AllIn(d, N) <=> \A k \in DOMAIN j.infos : InfoError(j.infos[k]) = "none"
    BY DEF AllIn
  <1>9. JsonError(j) = FirstError(e)
    BY DEF JsonError
  <1>. HIDE DEF a, b, c, d, N
  <1>10. a \o b \in Seq(BodyErrors) /\ (AllIn(a \o b, N) <=> AllIn(a, N) /\ AllIn(b, N))
    BY <1>1, <1>2, ConcatAll
  <1>. DEFINE ab == a \o b
              abc == ab \o c
  <1>11. abc \in Seq(BodyErrors) /\ (AllIn(abc, N) <=> AllIn(ab, N) /\ AllIn(c, N))
    <2>. HIDE DEF ab
    <2>. QED  BY <1>10, <1>3, ConcatAll DEF ab
  <1>12. e \in Seq(BodyErrors) /\ (AllIn(e, N) <=> AllIn(abc, N) /\ AllIn(d, N))
    <2>1. e = abc \o d
      OBVIOUS
    <2>. HIDE DEF ab, abc, e
    <2>. QED  BY <2>1, <1>11, <1>4, ConcatAll
  <1>13. AllIn(e, N) <=> Sound(j)
    BY <1>5, <1>6, <1>7, <1>8, <1>10, <1>11, <1>12, Zenon DEF Sound
  <1>. HIDE DEF e
  <1>14. Len(e) \in Nat /\ DOMAIN e = 1..Len(e) /\ \A k \in DOMAIN e : e[k] \in BodyErrors
    BY <1>12
  <1>15. /\ FirstError(e) = "none" <=> AllIn(e, N)
         /\ FirstError(e) = "none" \/ \E k \in DOMAIN e : FirstError(e) = e[k]
    BY <1>14, FirstErrorIs DEF N
  <1>16. FirstError(e) \in BodyErrors
    BY <1>14, <1>15 DEF BodyErrors
  <1>. QED  BY <1>9, <1>13, <1>15, <1>16

---------------------------------------------------------------------------
(* The types. *)

ChannelMeta == [index : 0..MaxIndex, name : Text,
                channel_type : {"scalar", "vector", "matrix", "binary", "unsupported"},
                data_type : Current \cup {"unsupported"}, size_of_length_value : {2, 4},
                time_increment_ns : Text, spectrum_type : Spectra \cup {Missing}]

InfoMeta == [name : Text, data_type : Current \cup {"unsupported"}]

LEMMA MetaIs ==
    MetaType = [version : {0, 4, 5}, creator : Text, latitude : Text,
                channels : Seq(ChannelMeta), infos : Seq(InfoMeta)]
  BY DEF MetaType, ChannelMeta, InfoMeta

LEMMA ChannelOfType ==
    ASSUME NEW c \in ChannelFields, ChannelError(c) = "none"
    PROVE  ChannelOf(c) \in ChannelMeta
  <1>1. c.index \in 0..MaxIndex /\ c.sizeoflengthvalue \in {2, 4}
    BY DEF ChannelError, validate_size_of_length_value
  <1>2. c.name \in Text /\ Readable(c.timeincrement) \in Text
    BY DEF ChannelFields, Readable, Text
  <1>3. parse_data_type(c.datatype) \in Current \cup {"unsupported"}
    BY DEF parse_data_type, Current
  <1>4. parse_channel_type(c.channeltype)
            \in {"scalar", "vector", "matrix", "binary", "unsupported"}
    BY DEF parse_channel_type
  <1>5. from_wire(Readable(c.spectrumtype)) \in Spectra \cup {Missing}
    BY DEF from_wire, Spectra
  <1>. QED  BY <1>1, <1>2, <1>3, <1>4, <1>5 DEF ChannelOf, ChannelMeta

LEMMA InfoOfType ==
    ASSUME NEW f \in InfoFields
    PROVE  InfoOf(f) \in InfoMeta
  <1>1. f.name \in Text
    BY DEF InfoFields
  <1>2. parse_data_type(f.datatype) \in Current \cup {"unsupported"}
    BY DEF parse_data_type, Current
  <1>3. "string" \in Current
    BY DEF Current
  <1>. QED  BY <1>1, <1>2, <1>3 DEF InfoOf, InfoMeta

LEMMA CoordinateType ==
    ASSUME NEW f \in FileFields
    PROVE  f.creator \in Text /\ Coordinate(f) \in Text
  BY DEF FileFields, Coordinate, Readable, Text

\* What a body gives is a metablock.
LEMMA ParsedType ==
    ASSUME NEW j \in JsonBody, Sound(j)
    PROVE  parse_metablock_json(j) \in MetaType
  <1>. DEFINE channels == [k \in DOMAIN j.channels |-> ChannelOf(j.channels[k])]
              infos == [k \in DOMAIN j.infos |-> InfoOf(j.infos[k])]
              creator == IF j.file_kind = "object" THEN j.file.creator ELSE Missing
              latitude == IF j.file_kind = "object" THEN Coordinate(j.file) ELSE Missing
  <1>1. j.channels \in Seq(ChannelFields) /\ j.infos \in Seq(InfoFields) /\ j.file \in FileFields
    BY DEF JsonBody
  <1>2. \A k \in DOMAIN j.channels : ChannelOf(j.channels[k]) \in ChannelMeta
    <2>1. \A k \in DOMAIN j.channels : j.channels[k] \in ChannelFields
      BY <1>1
    <2>. QED  BY <2>1, ChannelOfType DEF Sound
  <1>3. \A k \in DOMAIN j.infos : InfoOf(j.infos[k]) \in InfoMeta
    <2>1. \A k \in DOMAIN j.infos : j.infos[k] \in InfoFields
      BY <1>1
    <2>. QED  BY <2>1, InfoOfType
  <1>4. channels \in Seq(ChannelMeta)
    BY <1>1, <1>2
  <1>5. infos \in Seq(InfoMeta)
    BY <1>1, <1>3
  <1>6. creator \in Text /\ latitude \in Text
    BY <1>1, CoordinateType DEF Text
  <1>7. parse_metablock_json(j) = [version |-> 5, creator |-> creator, latitude |-> latitude,
                                   channels |-> channels, infos |-> infos]
    BY DEF parse_metablock_json
  <1>. HIDE DEF channels, infos, creator, latitude
  <1>. QED  BY <1>4, <1>5, <1>6, <1>7, MetaIs

LEMMA BodyType ==
    ASSUME NEW j \in JsonBody
    PROVE  /\ JsonError(j) \in BodyErrors
           /\ JsonError(j) = "none" <=> Sound(j)
  <1>1. j.channels \in Seq(ChannelFields) /\ j.infos \in Seq(InfoFields)
    BY DEF JsonBody
  <1>2. /\ Len(j.channels) \in Nat /\ DOMAIN j.channels = 1..Len(j.channels)
        /\ Len(j.infos) \in Nat /\ DOMAIN j.infos = 1..Len(j.infos)
    BY <1>1
  <1>. QED  BY <1>2, JsonErrorIs

LEMMA TagType ==
    ASSUME NEW tag \in Tags
    PROVE  /\ tag.name \in Names
           /\ tag.name = "optimeas" => tag.attrs \in FileFields
           /\ tag.name = "channel" => tag.attrs \in ChannelFields
           /\ tag.name = "info" => tag.attrs \in InfoFields
  BY BodyAssumption DEF Tag, Names

\* The states of the types that no step but the reading of the body touches.
Plain ==
    /\ phase \in {"peek", "line", "header", "tokens", "body", "crc", "Osf4", "Osf5", "open", "failed"}
    /\ result \in {"none", "Io", "InvalidMagicHeader", "MagicHeaderTooLong", "UnsupportedVersion",
                   "UnknownHeaderToken", "MetablockCrcMismatch", "Abort", "Json", "Xml",
                   "InvalidMetablock", "RemovedInSpec2026_05_04"}
    /\ parser.state \in {"TopLevel", "InOptimeas", "InChannels", "InInfos", "Skipping"}
    /\ meta \in MetaType

Typed == HeadInv /\ HeadTypeOK

LEMMA TypedInit ==
    ASSUME Init
    PROVE  Typed
  <1>1. HeadInv
    BY DEF Init, HeadInv, InLine, BehindLine, BehindCrc
  <1>2. NoMeta \in MetaType
    <2>1. <<>> \in Seq(ChannelMeta) /\ <<>> \in Seq(InfoMeta)
      OBVIOUS
    <2>. QED  BY <2>1, MetaIs DEF NoMeta, Text
  <1>3. NoHeader \in MagicHeader
    <2>1. <<>> \in Seq(Nat)
      OBVIOUS
    <2>. QED  BY <2>1 DEF NoHeader, MagicHeader, Versions
  <1>4. 0 \in 0..Len(stream.fields)
    BY <1>1, StreamType
  <1>. QED  BY <1>1, <1>2, <1>3, <1>4 DEF Init, Typed, HeadTypeOK, MagicHeader

\* A body that is read leaves the head as it is.
LEMMA PlainTyped ==
    ASSUME Typed, HeadInv', UNCHANGED <<stream, format, header, fields_read>>, Plain'
    PROVE  HeadTypeOK'
  BY DEF Typed, HeadTypeOK, Plain

LEMMA JsonTyped ==
    ASSUME Typed, ParseJson
    PROVE  Plain'
  <1>1. PICK j \in Bodies :
           IF JsonError(j) = "none"
           THEN phase' = "open" /\ result' = result /\ meta' = parse_metablock_json(j)
           ELSE phase' = "failed" /\ result' = JsonError(j) /\ meta' = meta
    BY Zenon DEF ParseJson, Goes, Fails
  <1>2. j \in JsonBody
    BY BodyAssumption
  <1>3. JsonError(j) \in BodyErrors /\ (JsonError(j) = "none" => parse_metablock_json(j) \in MetaType)
    BY <1>2, BodyType, ParsedType
  <1>4. parser' = parser
    BY DEF ParseJson
  <1>. QED  BY <1>1, <1>3, <1>4 DEF Typed, HeadTypeOK, Plain, BodyErrors

LEMMA RootTyped ==
    ASSUME Typed, StartRoot
    PROVE  Plain'
  <1>1. PICK tag \in Tags :
           \/ UNCHANGED <<phase, result, parser, meta>>
           \/ /\ tag.name = "optimeas"
              /\ parser' = [state |-> "InOptimeas", skipped |-> Missing]
              /\ meta' = [meta EXCEPT !.creator = tag.attrs.creator,
                                      !.latitude = Coordinate(tag.attrs)]
              /\ UNCHANGED <<phase, result>>
           \/ phase' = "failed" /\ result' = "InvalidMetablock" /\ UNCHANGED <<parser, meta>>
    BY DEF StartRoot, Becomes, Fails
  <1>2. tag.name = "optimeas" => tag.attrs.creator \in Text /\ Coordinate(tag.attrs) \in Text
    BY TagType, CoordinateType
  <1>3. meta' \in MetaType
    BY <1>1, <1>2, MetaIs DEF Typed, HeadTypeOK
  <1>. QED  BY <1>1, <1>3 DEF Typed, HeadTypeOK, Plain

LEMMA ChannelTyped ==
    ASSUME Typed, StartChannel
    PROVE  Plain'
  <1>1. PICK tag \in Tags :
           \/ UNCHANGED <<phase, result, meta>>
           \/ /\ tag.name = "channel" /\ XmlChannelError(tag.attrs) = "none"
              /\ meta' = [meta EXCEPT !.channels = Append(@, ChannelOf(tag.attrs))]
              /\ UNCHANGED <<phase, result>>
           \/ phase' = "failed" /\ result' = XmlChannelError(tag.attrs) /\ UNCHANGED meta
    BY DEF StartChannel, Fails
  <1>2. ASSUME tag.name = "channel", XmlChannelError(tag.attrs) = "none",
               meta' = [meta EXCEPT !.channels = Append(@, ChannelOf(tag.attrs))]
        PROVE  meta' \in MetaType
    <2>1. ChannelOf(tag.attrs) \in ChannelMeta
      BY <1>2, TagType, XmlErrorIs, ChannelOfType
    <2>2. meta \in MetaType /\ meta.channels \in Seq(ChannelMeta)
      BY MetaIs DEF Typed, HeadTypeOK
    <2>3. Append(meta.channels, ChannelOf(tag.attrs)) \in Seq(ChannelMeta)
      BY <2>1, <2>2
    <2>. QED  BY <1>2, <2>2, <2>3, MetaIs
  <1>3. XmlChannelError(tag.attrs) \in BodyErrors
    BY XmlErrorIs
  <1>4. parser' = parser
    BY DEF StartChannel
  <1>5. meta' \in MetaType
    BY <1>1, <1>2 DEF Typed, HeadTypeOK
  <1>. QED  BY <1>1, <1>3, <1>4, <1>5 DEF Typed, HeadTypeOK, Plain, BodyErrors

LEMMA InfoTyped ==
    ASSUME Typed, StartInfo
    PROVE  Plain'
  <1>1. PICK tag \in Tags :
           \/ UNCHANGED <<phase, result, meta>>
           \/ /\ tag.name = "info"
              /\ meta' = [meta EXCEPT !.infos = Append(@, InfoOf(tag.attrs))]
              /\ UNCHANGED <<phase, result>>
           \/ phase' = "failed" /\ result' = InfoError(tag.attrs) /\ UNCHANGED meta
    BY DEF StartInfo, Fails
  <1>2. ASSUME tag.name = "info", meta' = [meta EXCEPT !.infos = Append(@, InfoOf(tag.attrs))]
        PROVE  meta' \in MetaType
    <2>1. InfoOf(tag.attrs) \in InfoMeta
      BY <1>2, TagType, InfoOfType
    <2>2. meta \in MetaType /\ meta.infos \in Seq(InfoMeta)
      BY MetaIs DEF Typed, HeadTypeOK
    <2>3. Append(meta.infos, InfoOf(tag.attrs)) \in Seq(InfoMeta)
      BY <2>1, <2>2
    <2>. QED  BY <1>2, <2>2, <2>3, MetaIs
  <1>3. InfoError(tag.attrs) \in BodyErrors
    BY SingleErrors
  <1>4. parser' = parser
    BY DEF StartInfo
  <1>5. meta' \in MetaType
    BY <1>1, <1>2 DEF Typed, HeadTypeOK
  <1>. QED  BY <1>1, <1>3, <1>4, <1>5 DEF Typed, HeadTypeOK, Plain, BodyErrors

LEMMA OtherTyped ==
    ASSUME Typed, StartSection \/ EndTag \/ SkipTag \/ EndOfXml \/ BrokenXml
    PROVE  Plain'
  <1>1. CASE StartSection
    <2>1. /\ UNCHANGED <<phase, result, meta>>
          /\ parser'.state \in {"TopLevel", "InOptimeas", "InChannels", "InInfos", "Skipping"}
      <3>1. PICK ev \in {"Start", "Empty"}, tag \in Tags :
               CASE ev = "Empty"                         -> UNCHANGED parser
                 [] ev = "Start" /\ tag.name = "channels"    -> Becomes("InChannels")
                 [] ev = "Start" /\ tag.name = "infos"       -> Becomes("InInfos")
                 [] ev = "Start" /\ tag.name \notin {"channels", "infos"} ->
                       parser' = [state |-> "Skipping", skipped |-> tag.name]
        BY <1>1, Zenon DEF StartSection
      <3>2. \/ UNCHANGED parser \/ Becomes("InChannels") \/ Becomes("InInfos")
            \/ parser' = [state |-> "Skipping", skipped |-> tag.name]
        BY <3>1
      <3>. QED  BY <1>1, <3>2 DEF StartSection, Becomes, Typed, HeadTypeOK
    <2>. QED  BY <2>1 DEF Typed, HeadTypeOK, Plain
  <1>2. CASE EndTag
    <2>1. /\ UNCHANGED <<phase, result, meta>>
          /\ parser'.state \in {"TopLevel", "InOptimeas", "InChannels", "InInfos", "Skipping"}
      BY <1>2 DEF EndTag, Becomes, Typed, HeadTypeOK
    <2>. QED  BY <2>1 DEF Typed, HeadTypeOK, Plain
  <1>3. CASE SkipTag
    <2>1. /\ UNCHANGED <<phase, result, meta>>
          /\ parser'.state \in {"TopLevel", "InOptimeas", "InChannels", "InInfos", "Skipping"}
      BY <1>3 DEF SkipTag, Becomes, Typed, HeadTypeOK
    <2>. QED  BY <2>1 DEF Typed, HeadTypeOK, Plain
  <1>4. CASE EndOfXml
    <2>1. meta \in MetaType => [meta EXCEPT !.version = 4] \in MetaType
      BY MetaIs
    <2>. QED  BY <1>4, <2>1 DEF EndOfXml, Goes, Fails, Typed, HeadTypeOK, Plain
  <1>5. CASE BrokenXml
    BY <1>5 DEF BrokenXml, Fails, body, Typed, HeadTypeOK, Plain
  <1>. QED  BY <1>1, <1>2, <1>3, <1>4, <1>5

LEMMA BodyKeepsFormat ==
    ASSUME ParseJson \/ ParseXml \/ BrokenXml
    PROVE  format' = format
  <1>1. CASE ParseJson \/ BrokenXml
    BY <1>1 DEF ParseJson, BrokenXml
  <1>2. CASE StartRoot \/ StartSection \/ StartChannel \/ StartInfo \/ EndTag \/ SkipTag
    BY <1>2 DEF StartRoot, StartSection, StartChannel, StartInfo, EndTag, SkipTag, Element,
                Closing, Event
  <1>3. CASE EndOfXml
    BY <1>3 DEF EndOfXml
  <1>. QED  BY <1>1, <1>2, <1>3 DEF ParseXml

LEMMA BodyTyped ==
    ASSUME Typed, HeadInv', ParseJson \/ ParseXml \/ BrokenXml
    PROVE  HeadTypeOK'
  <1>1. UNCHANGED <<stream, format, header, fields_read>>
    BY BodySteps, BodyKeepsFormat DEF Quiet, head
  <1>2. Plain'
    BY JsonTyped, RootTyped, ChannelTyped, InfoTyped, OtherTyped DEF ParseXml
  <1>. QED  BY <1>1, <1>2, PlainTyped

\* The steps of the first line and of what is compared behind it.
LEMMA LineTyped ==
    ASSUME Typed, HeadInv',
           \/ detect_and_wrap \/ IoFails \/ read_first_line \/ end_of_header
           \/ read_body \/ verify_metablock_crc
    PROVE  HeadTypeOK'
  <1>1. CASE detect_and_wrap
    <2>1. format' \in {"none", "zlib", "gzip"}
      <3>1. stream.wrapper \in {"none", "zlib", "gzip"}
        BY StreamAssumption DEF Typed, HeadInv, Stream
      <3>2. \A n : Detected(n) \in {"none", "zlib", "gzip"}
        BY <3>1 DEF Detected
      <3>. QED  BY <1>1, <3>2 DEF detect_and_wrap
    <2>. QED  BY <1>1, <2>1 DEF detect_and_wrap, Goes, head, body, Typed, HeadTypeOK
  <1>2. CASE IoFails
    BY <1>2 DEF IoFails, Fails, head, body, Typed, HeadTypeOK
  <1>3. CASE read_first_line
    <2>1. \A error \in LineErrors :
             error \in {"InvalidMagicHeader", "MagicHeaderTooLong", "UnsupportedVersion"}
      BY DEF LineErrors
    <2>. QED  BY <1>3, <2>1 DEF read_first_line, Goes, Fails, head, body, Typed, HeadTypeOK
  <1>4. CASE end_of_header
    BY <1>4 DEF end_of_header, Goes, head, body, Typed, HeadTypeOK
  <1>5. CASE read_body
    BY <1>5 DEF read_body, Goes, Fails, head, body, Typed, HeadTypeOK
  <1>6. CASE verify_metablock_crc
    <2>1. header.version \in {"Osf4", "Osf5"}
      BY DEF Typed, HeadTypeOK, Versions
    <2>. QED  BY <1>6, <2>1 DEF verify_metablock_crc, Goes, Fails, head, body, Typed, HeadTypeOK
  <1>. QED  BY <1>1, <1>2, <1>3, <1>4, <1>5, <1>6

\* A token or the first field that is refused leaves the header; one that is not makes
\* a header of it.
LEMMA TokensTyped ==
    ASSUME Typed, HeadInv', parse_magic_header \/ parse_token
    PROVE  HeadTypeOK'
  <1>1. CASE phase' = "failed"
    <2>1. /\ UNCHANGED <<stream, format, header, fields_read, parser, meta>>
          /\ result' \in {"InvalidMagicHeader", "UnsupportedVersion", "UnknownHeaderToken"}
      <3>1. CASE parse_magic_header
        BY <1>1, <3>1 DEF parse_magic_header, HeaderError, Goes, Fails, body
      <3>2. CASE parse_token
        <4>1. \A token : TokenError(token) \in {"none", "InvalidMagicHeader", "UnknownHeaderToken"}
          BY DEF TokenError
        <4>. QED  BY <1>1, <3>2, <4>1 DEF parse_token, Fails, body
      <3>. QED  BY <3>1, <3>2
    <2>. QED  BY <1>1, <2>1 DEF Typed, HeadTypeOK
  <1>2. CASE phase' # "failed"
    <2>1. UNCHANGED <<stream, format, result, parser, meta>> /\ phase' = "tokens"
      BY <1>2 DEF parse_magic_header, parse_token, Goes, Fails, body
    <2>2. Read'
      BY <2>1 DEF HeadInv, InLine
    <2>3. header' \in MagicHeader /\ fields_read' \in 1..Len(stream.fields')
      BY <2>2 DEF Read
    <2>4. Len(stream.fields) \in Nat
      BY StreamType DEF Typed
    <2>5. fields_read' \in 0..Len(stream.fields')
      BY <2>1, <2>3, <2>4
    <2>. QED  BY <2>1, <2>3, <2>5 DEF Typed, HeadTypeOK, MagicHeader
  <1>. QED  BY <1>1, <1>2

LEMMA TypedStep ==
    ASSUME Typed, [Next]_vars
    PROVE  Typed'
  <1>1. HeadInv'
    BY HeadStep DEF Typed
  <1>2. CASE ParseJson \/ ParseXml \/ BrokenXml
    BY <1>1, <1>2, BodyTyped DEF Typed
  <1>3. CASE \/ detect_and_wrap \/ IoFails \/ read_first_line \/ end_of_header
             \/ read_body \/ verify_metablock_crc
    BY <1>1, <1>3, LineTyped DEF Typed
  <1>4. CASE parse_magic_header \/ parse_token
    BY <1>1, <1>4, TokensTyped DEF Typed
  <1>5. CASE UNCHANGED vars
    BY <1>1, <1>5 DEF vars, head, body, Typed, HeadTypeOK
  <1>. QED  BY <1>2, <1>3, <1>4, <1>5 DEF Next, Reading

\* Every state of the reader is typed, and its header says what its line says.
THEOREM TypedAlways == Spec => []Typed
  <1>1. Init => Typed
    BY TypedInit
  <1>2. Typed /\ [Next]_vars => Typed'
    BY TypedStep
  <1>. QED  BY <1>1, <1>2, PTL DEF Spec

\* Whatever the line, the body and the tags say, each channel that gets into the
\* metablock has an index and a width that the block reader can use, and every
\* refusal is one of the errors of the reader.
THEOREM HeadTypesHold == Spec => []HeadTypeOK
  <1>1. Typed => HeadTypeOK
    BY DEF Typed
  <1>. QED  BY <1>1, TypedAlways, PTL

---------------------------------------------------------------------------
(* What a WriterBuilder writes is read. *)

\* A body that has been read decided how the attempt ended, and nothing follows it.
Told ==
    /\ phase \notin {"open", "failed"} => json = NoBody
    /\ json # NoBody /\ JsonError(json) = "none" =>
          phase = "open" /\ meta = parse_metablock_json(json)

LEMMA ToldStep ==
    ASSUME Told, [Next]_vars
    PROVE  Told'
  <1>1. CASE ParseJson
    <2>1. PICK j \in Bodies :
             /\ json' = j
             /\ JsonError(j) = "none" => phase' = "open" /\ meta' = parse_metablock_json(j)
             /\ phase' \in {"open", "failed"}
      BY <1>1 DEF ParseJson, Goes, Fails
    <2>2. JsonError(j)' = JsonError(j) /\ parse_metablock_json(j)' = parse_metablock_json(j)
      BY DEF JsonError, parse_metablock_json
    <2>. QED  BY <2>1, <2>2 DEF Told
  <1>2. CASE UNCHANGED <<phase, json, meta>>
    BY <1>2 DEF Told
  <1>3. CASE phase \notin {"open", "failed"} /\ UNCHANGED json
    BY <1>3 DEF Told
  <1>4. ASSUME ParseXml \/ BrokenXml
        PROVE  phase \notin {"open", "failed"} /\ UNCHANGED json
    <2>1. CASE StartRoot \/ StartSection \/ StartChannel \/ StartInfo \/ EndTag \/ SkipTag
      BY <2>1 DEF StartRoot, StartSection, StartChannel, StartInfo, EndTag, SkipTag, Element,
                  Closing, Event
    <2>2. CASE EndOfXml \/ BrokenXml
      BY <2>2 DEF EndOfXml, BrokenXml, body
    <2>. QED  BY <1>4, <2>1, <2>2 DEF ParseXml
  <1>5. ASSUME \/ detect_and_wrap \/ IoFails \/ read_first_line \/ parse_magic_header
               \/ parse_token \/ end_of_header \/ read_body \/ verify_metablock_crc
        PROVE  phase \notin {"open", "failed"} /\ UNCHANGED json
    BY <1>5 DEF detect_and_wrap, IoFails, read_first_line, parse_magic_header, parse_token,
                end_of_header, read_body, verify_metablock_crc, body
  <1>6. CASE UNCHANGED vars
    BY <1>2, <1>6 DEF vars, body
  <1>. QED  BY <1>1, <1>3, <1>4, <1>5, <1>6 DEF Next, Reading

\* The checks of the reader let a channel of a WriterBuilder pass, and the reader has
\* a value for each of its types.
LEMMA DraftedChannel ==
    ASSUME NEW draft \in Drafts, NEW i \in DOMAIN draft.channels
    PROVE  LET c == draft.channels[i]
               w == channel_def_to_json(i - 1, c)
           IN  /\ ChannelError(w) = "none"
               /\ ChannelOf(w) =
                     [index |-> i - 1, name |-> c.name, channel_type |-> c.channel_type,
                      data_type |-> c.data_type, size_of_length_value |-> c.size_of_length_value,
                      time_increment_ns |-> c.time_increment_ns, spectrum_type |-> c.spectrum_type]
  <1>. DEFINE c == draft.channels[i]
              w == channel_def_to_json(i - 1, c)
              D == [name : Text \ {Missing, Unreadable}, channel_type : {"scalar", "vector", "matrix", "binary"},
                    data_type : Current, size_of_length_value : {2, 4},
                    time_increment_ns : Text \ {Unreadable},
                    spectrum_type : Spectra \cup {Missing}]
  <1>1. draft.channels \in Seq(D) /\ Len(draft.channels) <= MaxIndex + 1
    BY DraftAssumption DEF Draft
  <1>2. c \in D /\ i \in 1..Len(draft.channels)
    <2>. HIDE DEF D
    <2>. QED  BY <1>1
  <1>3. i - 1 \in 0..MaxIndex
    BY <1>1, <1>2, StreamAssumption
  <1>4. /\ c.name \notin {Missing, Unreadable}
        /\ c.channel_type \in {"scalar", "vector", "matrix", "binary"}
        /\ c.data_type \in Current /\ c.size_of_length_value \in {2, 4}
        /\ c.time_increment_ns # Unreadable
        /\ c.spectrum_type \in Spectra \cup {Missing}
    BY <1>2
  <1>. HIDE DEF c
  <1>5. w = [index |-> i - 1, name |-> c.name, channeltype |-> c.channel_type,
             datatype |-> c.data_type, sizeoflengthvalue |-> c.size_of_length_value,
             timeincrement |-> c.time_increment_ns, spectrumtype |-> c.spectrum_type]
    BY <1>4 DEF channel_def_to_json, Current
  <1>. HIDE DEF w
  <1>6. /\ w.index = i - 1 /\ w.name = c.name /\ w.channeltype = c.channel_type
        /\ w.datatype = c.data_type /\ w.sizeoflengthvalue = c.size_of_length_value
        /\ w.timeincrement = c.time_increment_ns /\ w.spectrumtype = c.spectrum_type
    BY <1>5
  <1>7. ChannelError(w) = "none"
    BY <1>3, <1>4, <1>6 DEF ChannelError, validate_size_of_length_value, Readable, Missing, Unreadable,
                              Current, Removed
  <1>8. /\ parse_channel_type(w.channeltype) = c.channel_type
        /\ parse_data_type(w.datatype) = c.data_type
        /\ Readable(w.timeincrement) = c.time_increment_ns
        /\ from_wire(Readable(w.spectrumtype)) = c.spectrum_type
    BY <1>4, <1>6 DEF parse_channel_type, parse_data_type, Readable, from_wire, Current, Spectra,
                      Missing, Unreadable
  <1>. QED  BY <1>6, <1>7, <1>8 DEF ChannelOf, c, w

LEMMA DraftIsSound ==
    ASSUME NEW draft \in Drafts
    PROVE  LET j == build_metablock_json(draft)
           IN  /\ JsonError(j) = "none"
               /\ parse_metablock_json(j).creator = draft.creator
               /\ parse_metablock_json(j).latitude = draft.latitude
               /\ parse_metablock_json(j).channels = [i \in DOMAIN draft.channels |->
                      LET c == draft.channels[i]
                      IN  [index |-> i - 1, name |-> c.name, channel_type |-> c.channel_type,
                           data_type |-> c.data_type,
                           size_of_length_value |-> c.size_of_length_value,
                           time_increment_ns |-> c.time_increment_ns,
                           spectrum_type |-> c.spectrum_type]]
  <1>. DEFINE j == build_metablock_json(draft)
              w(i) == channel_def_to_json(i - 1, draft.channels[i])
              n == Len(draft.channels)
              file == [creator |-> draft.creator, created_at_latitude |-> draft.latitude,
                       latitude |-> Missing]
  <1>1. n \in Nat /\ DOMAIN draft.channels = 1..n /\ draft.latitude # Unreadable
    BY DraftAssumption DEF Draft
  <1>2. /\ j.parsable = TRUE /\ j.osf = TRUE /\ j.file_kind = "object"
        /\ j.channels_kind = "array" /\ j.infos_kind = "absent"
        /\ j.file = file /\ j.infos = <<>>
        /\ j.channels = [i \in DOMAIN draft.channels |-> w(i)]
    BY DEF build_metablock_json
  <1>. HIDE DEF j
  <1>3. /\ DOMAIN j.channels = 1..n /\ DOMAIN j.infos = 1..0
        /\ \A i \in 1..n : j.channels[i] = w(i)
    BY <1>1, <1>2
  <1>4. \A i \in DOMAIN draft.channels : ChannelError(w(i)) = "none"
    BY DraftedChannel
  <1>5. Sound(j)
    BY <1>1, <1>2, <1>3, <1>4 DEF Sound, Wrong
  <1>6. JsonError(j) = "none"
    <2>1. (\E m \in Nat : DOMAIN j.channels = 1..m) /\ (\E m \in Nat : DOMAIN j.infos = 1..m)
      BY <1>1, <1>3
    <2>. QED  BY <1>5, <2>1, JsonErrorIs
  <1>7. Coordinate(file) = draft.latitude /\ file.creator = draft.creator
    BY <1>1 DEF Coordinate, Readable, Missing, Unreadable
  <1>8. /\ parse_metablock_json(j).creator = file.creator
        /\ parse_metablock_json(j).latitude = Coordinate(file)
        /\ parse_metablock_json(j).channels =
              [k \in DOMAIN j.channels |-> ChannelOf(j.channels[k])]
    BY <1>2 DEF parse_metablock_json
  <1>9. [k \in DOMAIN j.channels |-> ChannelOf(j.channels[k])] =
           [i \in DOMAIN draft.channels |->
                LET c == draft.channels[i]
                IN  [index |-> i - 1, name |-> c.name, channel_type |-> c.channel_type,
                     data_type |-> c.data_type, size_of_length_value |-> c.size_of_length_value,
                     time_increment_ns |-> c.time_increment_ns, spectrum_type |-> c.spectrum_type]]
    <2>1. \A i \in DOMAIN draft.channels : ChannelOf(w(i)) =
                LET c == draft.channels[i]
                IN  [index |-> i - 1, name |-> c.name, channel_type |-> c.channel_type,
                     data_type |-> c.data_type, size_of_length_value |-> c.size_of_length_value,
                     time_increment_ns |-> c.time_increment_ns, spectrum_type |-> c.spectrum_type]
      BY DraftedChannel
    <2>. HIDE DEF w
    <2>. QED  BY <1>1, <1>3, <2>1
  <1>. QED  BY <1>6, <1>7, <1>8, <1>9 DEF j

\* The metablock of every WriterBuilder is read as it was declared: whatever channels
\* of whatever types were added, the reader accepts the body and finds each of them at
\* the index that add_channel returned.
THEOREM WrittenIsAlwaysRead == Spec => []WrittenIsRead
  <1>1. Init => Told
    BY DEF Init, Told
  <1>2. Told /\ [Next]_vars => Told'
    BY ToldStep
  <1>3. Told => WrittenIsRead
    <2>. SUFFICES ASSUME Told, json # NoBody, NEW draft \in Drafts,
                         json = build_metablock_json(draft)
                  PROVE  /\ phase = "open"
                         /\ meta.creator = draft.creator /\ meta.latitude = draft.latitude
                         /\ meta.channels = [i \in DOMAIN draft.channels |->
                                LET c == draft.channels[i]
                                IN  [index |-> i - 1, name |-> c.name,
                                     channel_type |-> c.channel_type, data_type |-> c.data_type,
                                     size_of_length_value |-> c.size_of_length_value,
                                     time_increment_ns |-> c.time_increment_ns,
                                     spectrum_type |-> c.spectrum_type]]
      BY DEF WrittenIsRead
    <2>1. JsonError(json) = "none"
      BY DraftIsSound
    <2>2. phase = "open" /\ meta = parse_metablock_json(json)
      BY <2>1 DEF Told
    <2>. QED  BY <2>2, DraftIsSound
  <1>. QED  BY <1>1, <1>2, <1>3, PTL DEF Spec

---------------------------------------------------------------------------
(* What an XML body says is in the metablock. *)

Attrs == {tag.attrs : tag \in Tags} \cup {NoFields}

EventType ==
    {e \in [ev : {"Start", "Empty", "End"}, name : Names, attrs : Attrs, path : Seq(Names)] :
        e.ev # "End" => \E tag \in Tags : e.name = tag.name /\ e.attrs = tag.attrs}

\* What one event adds to what the elements of a name say.
Says(name, e) ==
    IF e.ev # "End" /\ e.name = name /\ e.path = Place(name) THEN <<e.attrs>> ELSE <<>>

\* What is open behind an event.
Behind(e) ==
    CASE e.ev = "Start" -> Append(e.path, e.name)
      [] e.ev = "End"   -> Front(e.path)
      [] e.ev = "Empty" -> e.path

\* ProperXml of an event at a place.
Fits(e, i) ==
    /\ e.path = <<>> <=> i = 1
    /\ e.ev # "End" /\ Len(e.path) > 1 =>
          IF e.path[2] \in {"channels", "infos"}
          THEN e.name \notin Known \/ e.path = Place(e.name)
          ELSE e.name # e.path[2]

\* The events are those of a document that is proper so far.
ProperSoFar ==
    /\ events # <<>> => events[1].ev = "Start"
    /\ \A i \in DOMAIN events : Fits(events[i], i)

\* A state of the parser is where the open elements say.
Tracks(open, p) ==
    /\ open = <<>> => p.state = "TopLevel"
    /\ open # <<>> => open[1] = "optimeas"
    /\ Len(open) = 1 => p.state = "InOptimeas"
    /\ Len(open) > 1 =>
          /\ open[2] = "channels" => p.state = "InChannels"
          /\ open[2] = "infos" => p.state = "InInfos"
          /\ open[2] \notin {"channels", "infos"} => p.state = "Skipping" /\ p.skipped = open[2]
          /\ \A k \in 3..Len(open) :
                IF open[2] \in {"channels", "infos"}
                THEN open[k] \notin {"optimeas", "channels", "infos"}
                ELSE open[k] # open[2]

Follows == Tracks(Open, parser)

CopiesFile(m, f) == m.creator = f.creator /\ m.latitude = Coordinate(f)

CopiesChannels(m, channels) ==
    /\ m.channels = [k \in DOMAIN channels |-> ChannelOf(channels[k])]
    /\ \A k \in DOMAIN channels : ChannelError(channels[k]) = "none"

CopiesInfos(m, infos) ==
    /\ m.infos = [k \in DOMAIN infos |-> InfoOf(infos[k])]
    /\ \A k \in DOMAIN infos : InfoError(infos[k]) = "none"

\* The metablock is what the elements say, and none of them is refused.
Copied ==
    /\ events # <<>> => CopiesFile(meta, events[1].attrs)
    /\ CopiesChannels(meta, Placed("channel"))
    /\ CopiesInfos(meta, Placed("info"))

XmlInv ==
    /\ events \in Seq(EventType)
    /\ phase \notin {"Osf4", "open", "failed"} => events = <<>> /\ In("TopLevel") /\ meta = NoMeta
    /\ phase = "Osf5" => header.version = "Osf5"
    /\ phase = "Osf4" /\ ProperSoFar => Follows /\ Copied
    /\ phase = "open" /\ header.version = "Osf4" /\ ProperSoFar => Copied

LEMMA AppendIs ==
    ASSUME NEW X, NEW s \in Seq(X), NEW f \in X, NEW n \in Nat, DOMAIN s = 1..n, NEW t,
           t = [i \in 1..(n + 1) |-> IF i = n + 1 THEN f ELSE s[i]]
    PROVE  t = Append(s, f)
  <1>. DEFINE a == Append(s, f)
  <1>1. Len(s) = n
    OBVIOUS
  <1>2. /\ a \in Seq(X) /\ DOMAIN a = 1..(n + 1)
        /\ a[n + 1] = f /\ \A i \in 1..n : a[i] = s[i]
    BY <1>1
  <1>3. \A i \in 1..(n + 1) : i = n + 1 \/ i \in 1..n
    OBVIOUS
  <1>4. \A i \in 1..(n + 1) : a[i] = t[i]
    <2>. HIDE DEF a
    <2>. QED  BY <1>2, <1>3
  <1>. HIDE DEF a
  <1>5. Len(a) = n + 1 /\ a \in [1..(n + 1) -> X]
    BY <1>2
  <1>6. t = [i \in 1..(n + 1) |-> a[i]]
    BY <1>4
  <1>7. a = [i \in 1..(n + 1) |-> a[i]]
    BY <1>5, Zenon
  <1>. QED  BY <1>6, <1>7 DEF a

Extends(t, s, z, f) ==
    /\ s = [k \in 1..z |-> s[k]]
    /\ t = [k \in 1..(z + 1) |-> IF k = z + 1 THEN f ELSE s[k]]

LEMMA MapGrows ==
    ASSUME NEW z \in Nat, NEW s, NEW f, NEW t, Extends(t, s, z, f)
    PROVE  t = Append(s, f)
  <1>. DEFINE Y == {s[k] : k \in 1..z} \cup {f}
  <1>1. f \in Y /\ \A k \in 1..z : s[k] \in Y
    OBVIOUS
  <1>. HIDE DEF Y
  <1>2. s \in Seq(Y) /\ DOMAIN s = 1..z
    BY <1>1 DEF Extends
  <1>. QED  BY <1>1, <1>2, AppendIs DEF Extends

LEMMA EventTypeIs ==
    ASSUME NEW e \in EventType
    PROVE  /\ e.ev \in {"Start", "Empty", "End"} /\ e.name \in Names /\ e.attrs \in Attrs
           /\ e.path \in Seq(Names)
  BY DEF EventType

LEMMA BehindType ==
    ASSUME NEW e \in EventType
    PROVE  Behind(e) \in Seq(Names)
  <1>1. /\ e.ev \in {"Start", "Empty", "End"} /\ e.name \in Names /\ e.path \in Seq(Names)
    BY EventTypeIs
  <1>2. Append(e.path, e.name) \in Seq(Names)
    BY <1>1
  <1>3. Front(e.path) \in Seq(Names)
    <2>. DEFINE N == Names
    <2>1. e.path \in Seq(N)
      BY <1>1
    <2>. HIDE DEF N
    <2>2. ASSUME e.path = <<>>
          PROVE  Front(e.path) \in Seq(N)
      BY <2>2, <2>1 DEF Front
    <2>3. ASSUME e.path # <<>>
          PROVE  Front(e.path) \in Seq(N)
      BY <2>3, <2>1 DEF Front
    <2>4. Front(e.path) \in Seq(N)
      BY <2>2, <2>3
    <2>. QED  BY <2>4 DEF N
  <1>. QED  BY <1>1, <1>2, <1>3 DEF Behind

LEMMA OpenIs ==
    ASSUME events \in Seq(EventType)
    PROVE  /\ Open = IF events = <<>> THEN <<>> ELSE Behind(events[Len(events)])
           /\ Open \in Seq(Names)
  <1>1. Open = IF events = <<>> THEN <<>> ELSE Behind(events[Len(events)])
    BY DEF Open, Behind, Last
  <1>2. events # <<>> => events[Len(events)] \in EventType
    <2>. DEFINE E == EventType
    <2>1. events \in Seq(E)
      OBVIOUS
    <2>. HIDE DEF E
    <2>2. events # <<>> => events[Len(events)] \in E
      BY <2>1
    <2>. QED  BY <2>2 DEF E
  <1>. QED  BY <1>1, <1>2, BehindType

\* What is open behind one event more.
LEMMA OpenAfter ==
    ASSUME events \in Seq(EventType), NEW e \in EventType, events' = Append(events, e)
    PROVE  /\ events' \in Seq(EventType)
           /\ Open' = Behind(e)
           /\ Len(events') = Len(events) + 1 /\ events' # <<>>
           /\ Len(events) \in Nat /\ DOMAIN events = 1..Len(events)
           /\ DOMAIN events' = 1..(Len(events) + 1)
           /\ events'[Len(events) + 1] = e
           /\ \A i \in 1..Len(events) : events'[i] = events[i]
  <1>. DEFINE E == EventType
  <1>1. events \in Seq(E) /\ e \in E
    OBVIOUS
  <1>2. E' = E
    BY DEF EventType, Names, Attrs
  <1>. HIDE DEF E
  <1>3. /\ events' \in Seq(E)
        /\ Len(events') = Len(events) + 1 /\ events' # <<>>
        /\ Len(events) \in Nat /\ DOMAIN events = 1..Len(events)
        /\ DOMAIN events' = 1..(Len(events) + 1)
        /\ events'[Len(events) + 1] = e
        /\ \A i \in 1..Len(events) : events'[i] = events[i]
    BY <1>1
  <1>4. Open' = Behind(events'[Len(events')])
    BY <1>3 DEF Open, Behind, Last
  <1>. QED  BY <1>3, <1>4 DEF E

\* A document that is proper with one event more was proper before, and the event fits.
LEMMA ProperBefore ==
    ASSUME events \in Seq(EventType), NEW e \in EventType, events' = Append(events, e),
           ProperSoFar'
    PROVE  ProperSoFar /\ Fits(e, Len(events) + 1) /\ (events = <<>> => e.ev = "Start")
  <1>. DEFINE n == Len(events)
  <1>1. /\ n \in Nat /\ DOMAIN events = 1..n /\ DOMAIN events' = 1..(n + 1)
        /\ events'[n + 1] = e /\ events' # <<>>
        /\ \A i \in 1..n : events'[i] = events[i]
    BY OpenAfter
  <1>2. \A i \in 1..(n + 1) : Fits(events'[i], i)
    BY <1>1 DEF ProperSoFar, Fits, Place
  <1>3. events'[1].ev = "Start"
    BY <1>1 DEF ProperSoFar
  <1>4. events = <<>> => n = 0
    OBVIOUS
  <1>5. events # <<>> => 1 \in 1..n
    OBVIOUS
  <1>. HIDE DEF n
  <1>6. \A i \in 1..n : Fits(events[i], i)
    <2>1. \A i \in 1..n : i \in 1..(n + 1)
      BY <1>1
    <2>. QED  BY <1>1, <1>2, <2>1
  <1>7. Fits(e, n + 1)
    <2>1. n + 1 \in 1..(n + 1)
      BY <1>1
    <2>. QED  BY <1>1, <1>2, <2>1
  <1>. QED  BY <1>1, <1>3, <1>4, <1>5, <1>6, <1>7 DEF ProperSoFar, n

LEMMA PlacedType ==
    ASSUME events \in Seq(EventType), NEW name
    PROVE  /\ Placed(name) = FlattenSeq([i \in DOMAIN events |-> Says(name, events[i])])
           /\ [i \in DOMAIN events |-> Says(name, events[i])] \in Seq(Seq(Attrs))
           /\ Placed(name) \in Seq(Attrs)
  <1>. DEFINE s == [i \in DOMAIN events |-> Says(name, events[i])]
  <1>1. Placed(name) = FlattenSeq(s)
    BY DEF Placed, Says
  <1>2. \A i \in DOMAIN events : events[i] \in EventType
    OBVIOUS
  <1>3. \A i \in DOMAIN events : Says(name, events[i]) \in Seq(Attrs)
    <2>1. <<>> \in Seq(Attrs) /\ \A a \in Attrs : <<a>> \in Seq(Attrs)
      OBVIOUS
    <2>. QED  BY <1>2, <2>1, EventTypeIs DEF Says
  <1>4. s \in Seq(Seq(Attrs))
    <2>1. Len(events) \in Nat /\ DOMAIN events = 1..Len(events)
      OBVIOUS
    <2>. QED  BY <1>3, <2>1
  <1>. HIDE DEF s
  <1>5. FlattenSeq(s) \in Seq(Attrs)
    BY <1>4, FlattenType
  <1>. QED  BY <1>1, <1>4, <1>5 DEF s

LEMMA PlacedAfter ==
    ASSUME events \in Seq(EventType), NEW e \in EventType, events' = Append(events, e), NEW name
    PROVE  Placed(name)' = Placed(name) \o Says(name, e)
  <1>. DEFINE n == Len(events)
              s == [i \in DOMAIN events |-> Says(name, events[i])]
              t == [i \in DOMAIN events' |-> Says(name, events'[i])]
  <1>1. /\ n \in Nat /\ DOMAIN events = 1..n /\ DOMAIN events' = 1..(n + 1)
        /\ events'[n + 1] = e
        /\ \A i \in 1..n : events'[i] = events[i]
    BY OpenAfter
  <1>2. Placed(name)' = FlattenSeq(t)
    BY DEF Placed, Says, Place
  <1>3. Placed(name) = FlattenSeq(s) /\ s \in Seq(Seq(Attrs))
    BY PlacedType
  <1>4. Says(name, e) \in Seq(Attrs)
    <2>1. <<>> \in Seq(Attrs) /\ \A a \in Attrs : <<a>> \in Seq(Attrs)
      OBVIOUS
    <2>. QED  BY <2>1, EventTypeIs DEF Says
  <1>5. /\ DOMAIN s = 1..n /\ \A i \in 1..n : s[i] = Says(name, events[i])
        /\ t = [i \in 1..(n + 1) |-> Says(name, events'[i])]
    BY <1>1
  <1>6. t = Append(s, Says(name, e))
    <2>. DEFINE f == Says(name, e)
    <2>1. \A i \in 1..(n + 1) : i \in 1..n \/ i = n + 1
      BY <1>1
    <2>2. t = [i \in 1..(n + 1) |-> IF i = n + 1 THEN f ELSE s[i]]
      <3>. HIDE DEF n
      <3>1. \A i \in 1..(n + 1) : Says(name, events'[i]) = IF i = n + 1 THEN f ELSE s[i]
        <4>. SUFFICES ASSUME NEW i \in 1..(n + 1)
                      PROVE  Says(name, events'[i]) = IF i = n + 1 THEN f ELSE s[i]
          OBVIOUS
        <4>1. CASE i = n + 1
          BY <4>1, <1>1
        <4>2. CASE i \in 1..n
          <5>1. i # n + 1
            BY <4>2, <1>1
          <5>. QED  BY <4>2, <5>1, <1>1, <1>5
        <4>. QED  BY <4>1, <4>2, <2>1
      <3>. HIDE DEF s, t, f
      <3>. QED  BY <1>5, <3>1
    <2>3. s = [k \in 1..n |-> s[k]]
      BY <1>5
    <2>. HIDE DEF f, s, t, n
    <2>4. Extends(t, s, n, f)
      BY <2>2, <2>3 DEF Extends
    <2>5. t = Append(s, f)
      BY <1>1, <2>4, MapGrows
    <2>. QED  BY <2>5 DEF f
  <1>. HIDE DEF s, t
  <1>. QED  BY <1>2, <1>3, <1>4, <1>6, FlattenAppend

---------------------------------------------------------------------------
(* The elements that are open and the state of the parser. *)

AtState(state) == [state |-> state, skipped |-> Missing]

LEMMA StateTells ==
    ASSUME NEW N, NEW open \in Seq(N), NEW p, Tracks(open, p)
    PROVE  /\ Len(open) \in Nat
           /\ p.state = "TopLevel" => open = <<>>
           /\ p.state = "InOptimeas" => Len(open) = 1
           /\ p.state = "InChannels" => Len(open) > 1 /\ open[2] = "channels"
           /\ p.state = "InInfos" => Len(open) > 1 /\ open[2] = "infos"
           /\ p.state = "Skipping" => Len(open) > 1 /\ open[2] \notin {"channels", "infos"}
  <1>2. Len(open) \in Nat
    OBVIOUS
  <1>3. open # <<>> => Len(open) # 0
    OBVIOUS
  <1>4. \A n \in Nat : n # 0 => n = 1 \/ n > 1
    OBVIOUS
  <1>1. Len(open) \in Nat /\ (open # <<>> => (Len(open) = 1 \/ Len(open) > 1))
    BY <1>2, <1>3, <1>4, Zenon
  <1>. QED  BY <1>1 DEF Tracks

LEMMA Pushed ==
    ASSUME NEW N, NEW open \in Seq(N), NEW name \in N
    PROVE  LET o == Append(open, name)
           IN  /\ o \in Seq(N) /\ o # <<>> /\ Len(o) = Len(open) + 1 /\ Len(open) \in Nat
               /\ o[Len(open) + 1] = name
               /\ \A k \in 1..Len(open) : o[k] = open[k]
  OBVIOUS

LEMMA Popped ==
    ASSUME NEW N, NEW open \in Seq(N), open # <<>>
    PROVE  LET o == Front(open)
           IN  /\ o \in Seq(N) /\ Len(o) = Len(open) - 1 /\ Len(open) \in Nat \ {0}
               /\ Len(open) = 1 => o = <<>>
               /\ Len(open) > 1 => o # <<>>
               /\ \A k \in 1..Len(o) : o[k] = open[k]
  <1>. DEFINE o == SubSeq(open, 1, Len(open) - 1)
  <1>1. Len(open) \in Nat \ {0}
    OBVIOUS
  <1>2. o \in Seq(N)
    BY <1>1
  <1>3. Len(o) = Len(open) - 1
    <2>. DEFINE n == Len(open)
    <2>1. n \in Nat /\ n - 1 \in Nat /\ n - 1 <= n
      BY <1>1
    <2>2. \A m \in Nat : m <= n => Len(SubSeq(open, 1, m)) = m
      OBVIOUS
    <2>. HIDE DEF n
    <2>. QED  BY <2>1, <2>2 DEF n
  <1>4. \A k \in 1..(Len(open) - 1) : o[k] = open[k]
    BY <1>1
  <1>. HIDE DEF o
  <1>5. (Len(o) = 0 => o = <<>>) /\ (Len(o) > 0 => o # <<>>)
    BY <1>2
  <1>. QED  BY <1>1, <1>2, <1>3, <1>4, <1>5 DEF Front, o

LEMMA PushRoot ==
    ASSUME NEW N, NEW open \in Seq(N), open = <<>>, "optimeas" \in N
    PROVE  Tracks(Append(open, "optimeas"), AtState("InOptimeas"))
  <1>. DEFINE o == Append(open, "optimeas")
  <1>1. o # <<>> /\ Len(o) = 1 /\ o[1] = "optimeas"
    OBVIOUS
  <1>. HIDE DEF o
  <1>. QED  BY <1>1 DEF Tracks, AtState, o

LEMMA PushSection ==
    ASSUME NEW N, NEW open \in Seq(N), NEW name \in N, NEW p, NEW q,
           Tracks(open, p), p.state = "InOptimeas",
           name = "channels" => q = AtState("InChannels"),
           name = "infos" => q = AtState("InInfos"),
           name \notin {"channels", "infos"} => q = [state |-> "Skipping", skipped |-> name]
    PROVE  Tracks(Append(open, name), q)
  <1>. DEFINE o == Append(open, name)
  <1>1. Len(open) = 1 /\ open[1] = "optimeas"
    BY StateTells DEF Tracks
  <1>2. o # <<>> /\ Len(o) = 2 /\ o[1] = "optimeas" /\ o[2] = name
    <2>1. /\ o # <<>> /\ Len(o) = Len(open) + 1
          /\ o[Len(open) + 1] = name /\ \A k \in 1..Len(open) : o[k] = open[k]
      BY Pushed
    <2>. HIDE DEF o
    <2>. QED  BY <1>1, <2>1
  <1>. HIDE DEF o
  <1>. QED  BY <1>2 DEF Tracks, AtState, o

LEMMA PushDeeper ==
    ASSUME NEW N, NEW open \in Seq(N), NEW name \in N, NEW p, Tracks(open, p), Len(open) > 1,
           IF open[2] \in {"channels", "infos"}
           THEN name \notin {"optimeas", "channels", "infos"} ELSE name # open[2]
    PROVE  Tracks(Append(open, name), p)
  <1>. DEFINE o == Append(open, name)
              n == Len(open)
  <1>1. /\ n \in Nat /\ o # <<>> /\ open # <<>> /\ Len(o) = n + 1 /\ o[n + 1] = name
        /\ \A k \in 1..n : o[k] = open[k]
    BY Pushed
  <1>2. o[1] = open[1] /\ o[2] = open[2] /\ \A k \in 3..(n + 1) : (k = n + 1 \/ (k \in 3..n /\ k \in 1..n))
    BY <1>1
  <1>. HIDE DEF o, n
  <1>3. n > 1 /\ n + 1 > 1 /\ n + 1 # 1
    BY <1>1 DEF n
  <1>4. \A k \in 3..(n + 1) :
           IF open[2] \in {"channels", "infos"}
           THEN o[k] \notin {"optimeas", "channels", "infos"} ELSE o[k] # open[2]
    <2>. SUFFICES ASSUME NEW k \in 3..(n + 1)
                  PROVE  IF open[2] \in {"channels", "infos"}
                         THEN o[k] \notin {"optimeas", "channels", "infos"} ELSE o[k] # open[2]
      OBVIOUS
    <2>1. CASE k = n + 1
      BY <2>1, <1>1
    <2>2. CASE k \in 3..n /\ k \in 1..n
      BY <2>2, <1>1 DEF Tracks, n
    <2>. QED  BY <2>1, <2>2, <1>2
  <1>. QED  BY <1>1, <1>2, <1>3, <1>4 DEF Tracks, o, n

LEMMA PopTag ==
    ASSUME NEW N, NEW open \in Seq(N), open # <<>>, NEW p, NEW q, NEW name, Tracks(open, p),
           name = open[Len(open)], p.state # "Skipping",
           name \in {"channels", "infos"} => q = AtState("InOptimeas"),
           name = "optimeas" => q = AtState("TopLevel"),
           name \notin {"channels", "infos", "optimeas"} => q = p
    PROVE  Tracks(Front(open), q)
  <1>. DEFINE o == Front(open)
              n == Len(open)
  <1>1. /\ n \in Nat \ {0} /\ Len(o) = n - 1 /\ (n = 1 => o = <<>>) /\ (n > 1 => o # <<>>)
        /\ \A k \in 1..(n - 1) : o[k] = open[k]
    BY Popped
  <1>2. n > 1 => o[1] = open[1] /\ open[1] = "optimeas"
    BY <1>1 DEF Tracks
  <1>3. n > 2 => o[2] = open[2]
    BY <1>1
  <1>. HIDE DEF o
  <1>4. CASE n = 1
    BY <1>4, <1>1 DEF Tracks, AtState, o
  <1>5. CASE n = 2
    <2>1. open[2] \in {"channels", "infos"}
      BY <1>5 DEF Tracks
    <2>. QED  BY <2>1, <1>5, <1>1, <1>2 DEF Tracks, AtState, o
  <1>6. CASE n > 2
    <2>1. open[2] \in {"channels", "infos"}
      BY <1>6, <1>1 DEF Tracks
    <2>2. open[n] \notin {"optimeas", "channels", "infos"}
      <3>1. n \in 3..n
        BY <1>6, <1>1
      <3>. QED  BY <2>1, <3>1, <1>6, <1>1 DEF Tracks
    <2>3. q = p
      BY <2>2
    <2>4. \A k \in 3..(n - 1) : o[k] = open[k] /\ k \in 3..n
      BY <1>1, <1>6
    <2>5. n - 1 > 1 /\ n - 1 # 1 /\ n > 1
      BY <1>1, <1>6
    <2>. HIDE DEF n
    <2>. QED  BY <2>1, <2>3, <2>4, <2>5, <1>1, <1>2, <1>3, <1>6 DEF Tracks, o, n
  <1>7. n = 1 \/ n = 2 \/ n > 2
    BY <1>1
  <1>. QED  BY <1>4, <1>5, <1>6, <1>7

LEMMA PopSkipped ==
    ASSUME NEW N, NEW open \in Seq(N), open # <<>>, NEW p, NEW q, NEW name, Tracks(open, p),
           name = open[Len(open)], p.state = "Skipping",
           q = IF name = p.skipped THEN AtState("InOptimeas") ELSE p
    PROVE  Tracks(Front(open), q)
  <1>. DEFINE o == Front(open)
              n == Len(open)
  <1>1. /\ n \in Nat \ {0} /\ Len(o) = n - 1 /\ (n = 1 => o = <<>>) /\ (n > 1 => o # <<>>)
        /\ \A k \in 1..(n - 1) : o[k] = open[k]
    BY Popped
  <1>2. n > 1 /\ open[2] \notin {"channels", "infos"} /\ p.skipped = open[2]
        /\ open[1] = "optimeas"
    BY StateTells DEF Tracks
  <1>3. o[1] = open[1] /\ (n > 2 => o[2] = open[2])
    BY <1>1, <1>2
  <1>. HIDE DEF o
  <1>4. CASE n = 2
    BY <1>4, <1>1, <1>2, <1>3 DEF Tracks, AtState, o
  <1>5. CASE n > 2
    <2>1. open[n] # open[2]
      <3>1. n \in 3..n
        BY <1>5, <1>1
      <3>. QED  BY <3>1, <1>1, <1>2 DEF Tracks
    <2>2. q = p
      BY <2>1, <1>2
    <2>3. \A k \in 3..(n - 1) : o[k] = open[k] /\ k \in 3..n
      BY <1>1, <1>5
    <2>4. n - 1 > 1 /\ n - 1 # 1
      BY <1>1, <1>5
    <2>. HIDE DEF n
    <2>. QED  BY <2>2, <2>3, <2>4, <1>1, <1>2, <1>3, <1>5 DEF Tracks, o, n
  <1>. QED  BY <1>1, <1>2, <1>4, <1>5

---------------------------------------------------------------------------
(* The steps of the XML parser. *)

IsOneMore(q, p, a) ==
    \E n \in Nat : /\ DOMAIN p = 1..n /\ DOMAIN q = 1..(n + 1)
                   /\ q[n + 1] = a /\ \A k \in 1..n : q[k] = p[k]
                   /\ \A k \in 1..(n + 1) : k # n + 1 => k \in 1..n

LEMMA OneMore ==
    ASSUME NEW X, NEW p \in Seq(X), NEW a \in X, NEW q, q = p \o <<a>>
    PROVE  IsOneMore(q, p, a)
  <1>1. Len(p) \in Nat /\ DOMAIN p = 1..Len(p) /\ q = Append(p, a)
    OBVIOUS
  <1>. DEFINE n == Len(p)
  <1>2. q \in Seq(X) /\ Len(q) = n + 1 /\ q[n + 1] = a /\ \A k \in 1..n : q[k] = p[k]
    BY <1>1
  <1>3. \A k \in 1..(n + 1) : k # n + 1 => k \in 1..n
    BY <1>1
  <1>. HIDE DEF n
  <1>4. DOMAIN q = 1..(n + 1)
    BY <1>2
  <1>. QED  BY <1>1, <1>2, <1>3, <1>4 DEF n, IsOneMore

LEMMA CopiesOneChannel ==
    ASSUME NEW p, NEW a, NEW q, IsOneMore(q, p, a), ChannelError(a) = "none",
           NEW m, CopiesChannels(m, p), NEW n, n.channels = Append(m.channels, ChannelOf(a))
    PROVE  CopiesChannels(n, q)
  <1>1. PICK z \in Nat : /\ DOMAIN p = 1..z /\ DOMAIN q = 1..(z + 1)
                         /\ q[z + 1] = a /\ \A k \in 1..z : q[k] = p[k]
                         /\ \A k \in 1..(z + 1) : k # z + 1 => k \in 1..z
    BY Zenon DEF IsOneMore
  <1>. DEFINE s == [k \in DOMAIN p |-> ChannelOf(p[k])]
              t == [k \in DOMAIN q |-> ChannelOf(q[k])]
              f == ChannelOf(a)
  <1>2. \A k \in 1..(z + 1) : t[k] = IF k = z + 1 THEN f ELSE s[k]
    <2>. SUFFICES ASSUME NEW k \in 1..(z + 1)
                  PROVE  t[k] = IF k = z + 1 THEN f ELSE s[k]
      OBVIOUS
    <2>1. CASE k = z + 1
      BY <2>1, <1>1
    <2>2. CASE k # z + 1
      BY <2>2, <1>1
    <2>. QED  BY <2>1, <2>2
  <1>3. t = [k \in 1..(z + 1) |-> t[k]] /\ s = [k \in 1..z |-> s[k]]
    BY <1>1
  <1>4. m.channels = s
    BY DEF CopiesChannels
  <1>5. \A k \in DOMAIN q : ChannelError(q[k]) = "none"
    BY <1>1 DEF CopiesChannels
  <1>. HIDE DEF s, t, f
  <1>6. t = [k \in 1..(z + 1) |-> IF k = z + 1 THEN f ELSE s[k]]
    BY <1>2, <1>3
  <1>7. t = Append(s, f)
    <2>1. Extends(t, s, z, f)
      BY <1>3, <1>6 DEF Extends
    <2>. QED  BY <2>1, MapGrows
  <1>8. n.channels = t
    BY <1>4, <1>7 DEF f
  <1>. QED  BY <1>5, <1>8 DEF CopiesChannels, t

LEMMA CopiesOneInfo ==
    ASSUME NEW p, NEW a, NEW q, IsOneMore(q, p, a), InfoError(a) = "none",
           NEW m, CopiesInfos(m, p), NEW n, n.infos = Append(m.infos, InfoOf(a))
    PROVE  CopiesInfos(n, q)
  <1>1. PICK z \in Nat : /\ DOMAIN p = 1..z /\ DOMAIN q = 1..(z + 1)
                         /\ q[z + 1] = a /\ \A k \in 1..z : q[k] = p[k]
                         /\ \A k \in 1..(z + 1) : k # z + 1 => k \in 1..z
    BY Zenon DEF IsOneMore
  <1>. DEFINE s == [k \in DOMAIN p |-> InfoOf(p[k])]
              t == [k \in DOMAIN q |-> InfoOf(q[k])]
              f == InfoOf(a)
  <1>2. \A k \in 1..(z + 1) : t[k] = IF k = z + 1 THEN f ELSE s[k]
    <2>. SUFFICES ASSUME NEW k \in 1..(z + 1)
                  PROVE  t[k] = IF k = z + 1 THEN f ELSE s[k]
      OBVIOUS
    <2>1. CASE k = z + 1
      BY <2>1, <1>1
    <2>2. CASE k # z + 1
      BY <2>2, <1>1
    <2>. QED  BY <2>1, <2>2
  <1>3. t = [k \in 1..(z + 1) |-> t[k]] /\ s = [k \in 1..z |-> s[k]]
    BY <1>1
  <1>4. m.infos = s
    BY DEF CopiesInfos
  <1>5. \A k \in DOMAIN q : InfoError(q[k]) = "none"
    BY <1>1 DEF CopiesInfos
  <1>. HIDE DEF s, t, f
  <1>6. t = [k \in 1..(z + 1) |-> IF k = z + 1 THEN f ELSE s[k]]
    BY <1>2, <1>3
  <1>7. t = Append(s, f)
    <2>1. Extends(t, s, z, f)
      BY <1>3, <1>6 DEF Extends
    <2>. QED  BY <2>1, MapGrows
  <1>8. n.infos = t
    BY <1>4, <1>7 DEF f
  <1>. QED  BY <1>5, <1>8 DEF CopiesInfos, t

\* The event that a step of the parser reads.
Is(e) ==
    /\ e \in EventType /\ events' = Append(events, e)
    /\ e.path = Open
    /\ phase = "Osf4" /\ UNCHANGED <<header, fields_read, json>>

LEMMA ElementIs ==
    ASSUME XmlInv, NEW tag \in Tags, NEW ev \in {"Start", "Empty"}, Element(tag, ev)
    PROVE  \E e : Is(e) /\ e.ev = ev /\ e.name = tag.name /\ e.attrs = tag.attrs
  <1>. DEFINE e == [ev |-> ev, name |-> tag.name, attrs |-> tag.attrs, path |-> Open]
  <1>1. events' = Append(events, e) /\ phase = "Osf4" /\ UNCHANGED <<header, fields_read, json>>
    BY DEF Element, Event, head
  <1>2. Open \in Seq(Names)
    BY OpenIs DEF XmlInv
  <1>3. tag.name \in Names /\ tag.attrs \in Attrs
    BY DEF Names, Attrs
  <1>4. e \in EventType
    BY <1>2, <1>3 DEF EventType
  <1>. QED  BY <1>1, <1>4 DEF Is

LEMMA ClosingIs ==
    ASSUME XmlInv, NEW name \in Names, Closing(name)
    PROVE  /\ \E e : Is(e) /\ e.ev = "End" /\ e.name = name
           /\ Open # <<>> /\ name = Open[Len(Open)]
  <1>. DEFINE e == [ev |-> "End", name |-> name, attrs |-> NoFields, path |-> Open]
  <1>1. /\ events' = Append(events, e) /\ phase = "Osf4"
        /\ UNCHANGED <<header, fields_read, json>>
        /\ Open # <<>> /\ name = Open[Len(Open)]
    BY DEF Closing, Event, head, Last
  <1>2. Open \in Seq(Names) /\ NoFields \in Attrs
    BY OpenIs DEF XmlInv, Attrs
  <1>3. e \in EventType
    BY <1>2 DEF EventType
  <1>. QED  BY <1>1, <1>3 DEF Is

\* What a step has to keep: the parser follows and the metablock copies.
Kept == phase = "Osf4" /\ ProperSoFar => Follows /\ Copied

LEMMA XmlStepKeeps ==
    ASSUME XmlInv, NEW e, Is(e), phase' \in {"Osf4", "failed"}, Kept'
    PROVE  XmlInv'
  <1>1. events' \in Seq(EventType')
    <2>1. EventType' = EventType
      BY DEF EventType, Names, Attrs
    <2>. QED  BY <2>1, OpenAfter DEF Is, XmlInv
  <1>. QED  BY <1>1 DEF XmlInv, Kept, Is

\* What is known when a step reads an event of a document that stays proper.
LEMMA StepContext ==
    ASSUME XmlInv, NEW e, Is(e), ProperSoFar'
    PROVE  /\ events \in Seq(EventType) /\ e \in EventType
           /\ ProperSoFar /\ Follows /\ Copied
           /\ Fits(e, Len(events) + 1)
           /\ Open \in Seq(Names) /\ Open' = Behind(e) /\ e.path = Open
           /\ e.name \in Names
           /\ events = <<>> => e.ev = "Start"
           /\ Open = <<>> <=> events = <<>>
  <1>1. events \in Seq(EventType) /\ e \in EventType /\ events' = Append(events, e)
        /\ phase = "Osf4" /\ e.path = Open
    BY DEF XmlInv, Is
  <1>2. ProperSoFar /\ Fits(e, Len(events) + 1) /\ (events = <<>> => e.ev = "Start")
    BY <1>1, ProperBefore
  <1>3. Follows /\ Copied
    BY <1>1, <1>2 DEF XmlInv
  <1>4. Len(events) \in Nat /\ (Len(events) + 1 = 1 => events = <<>>)
    <2>. DEFINE E == EventType
    <2>1. events \in Seq(E)
      BY <1>1
    <2>. HIDE DEF E
    <2>. QED  BY <2>1
  <1>5. Open = <<>> <=> events = <<>>
    BY <1>1, <1>2, <1>4, OpenIs DEF Fits
  <1>. QED  BY <1>1, <1>2, <1>3, <1>5, OpenIs, OpenAfter, EventTypeIs

LEMMA CopiedNext ==
    Copied' <=> /\ events' # <<>> => CopiesFile(meta', events'[1].attrs)
                /\ CopiesChannels(meta', Placed("channel")')
                /\ CopiesInfos(meta', Placed("info")')
  BY DEF Copied, CopiesFile, CopiesChannels, CopiesInfos, ChannelOf, InfoOf, ChannelError,
         InfoError, Coordinate, parse_channel_type, parse_data_type, Readable, from_wire,
         validate_size_of_length_value

\* An event that says nothing of a name.
LEMMA PlacedStays ==
    ASSUME events \in Seq(EventType), NEW e \in EventType, events' = Append(events, e),
           NEW name, Says(name, e) = <<>>
    PROVE  Placed(name)' = Placed(name)
  <1>1. Placed(name)' = Placed(name) \o <<>>
    BY PlacedAfter
  <1>2. Placed(name) \in Seq(Attrs)
    BY PlacedType
  <1>3. \A p \in Seq(Attrs) : p \o <<>> = p
    OBVIOUS
  <1>. QED  BY <1>1, <1>2, <1>3

LEMMA FirstStays ==
    ASSUME events \in Seq(EventType), NEW e \in EventType, events' = Append(events, e)
    PROVE  events'[1] = IF events = <<>> THEN e ELSE events[1]
  <1>. DEFINE E == EventType
  <1>1. events \in Seq(E) /\ e \in E
    OBVIOUS
  <1>. HIDE DEF E
  <1>. QED  BY <1>1

\* An event that says nothing leaves a metablock that copies.
LEMMA CopiedStays ==
    ASSUME events \in Seq(EventType), NEW e \in EventType, events' = Append(events, e),
           Copied, events # <<>>, meta' = meta,
           Says("channel", e) = <<>>, Says("info", e) = <<>>
    PROVE  Copied'
  <1>1. Placed("channel")' = Placed("channel") /\ Placed("info")' = Placed("info")
    BY PlacedStays
  <1>2. events'[1] = events[1]
    BY FirstStays
  <1>. QED  BY <1>1, <1>2, CopiedNext DEF Copied

LEMMA FollowsNext == Follows' <=> Tracks(Open', parser')
  BY DEF Follows, Tracks

LEMMA Places ==
    /\ Place("channel") = <<"optimeas", "channels">> /\ Place("info") = <<"optimeas", "infos">>
    /\ Place("channels") = <<"optimeas">> /\ Place("infos") = <<"optimeas">>
    /\ Place("optimeas") = <<>>
  BY DEF Place

\* What stands nowhere in <channels> or <infos> says nothing.
LEMMA SaysNothing ==
    ASSUME NEW e,
           \/ e.ev = "End"
           \/ Len(e.path) \in {0, 1}
           \/ e.path[2] \notin {"channels", "infos"}
    PROVE  Says("channel", e) = <<>> /\ Says("info", e) = <<>>
  <1>1. \A a, b : Len(<<a, b>>) = 2 /\ <<a, b>>[2] = b
    OBVIOUS
  <1>. QED  BY <1>1, Places DEF Says

\* An element in <channels> or <infos> of a proper document.
LEMMA SaysInside ==
    ASSUME NEW e, NEW i, Fits(e, i), e.ev # "End", Len(e.path) > 1
    PROVE  /\ e.path[2] = "channels" => /\ Says("info", e) = <<>>
                                        /\ Says("channel", e) = IF e.name = "channel"
                                                                THEN <<e.attrs>> ELSE <<>>
           /\ e.path[2] = "infos" => /\ Says("channel", e) = <<>>
                                     /\ Says("info", e) = IF e.name = "info"
                                                          THEN <<e.attrs>> ELSE <<>>
           /\ e.path[2] \in {"channels", "infos"} =>
                 e.name \notin {"optimeas", "channels", "infos"}
           /\ e.path[2] \notin {"channels", "infos"} => e.name # e.path[2]
  <1>1. \A a, b : Len(<<a, b>>) = 2 /\ <<a, b>>[2] = b
    OBVIOUS
  <1>2. \A a : Len(<<a>>) = 1
    OBVIOUS
  <1>3. Len(<<>>) = 0
    OBVIOUS
  <1>4. e.path[2] \in {"channels", "infos"} =>
           e.name \notin {"optimeas", "channels", "infos"}
    BY <1>2, <1>3, Places DEF Fits, Known
  <1>5. e.path[2] = "channels" /\ e.name = "channel" => e.path = Place("channel")
    BY DEF Fits, Known
  <1>6. e.path[2] = "infos" /\ e.name = "info" => e.path = Place("info")
    BY DEF Fits, Known
  <1>7. Place("channel")[2] = "channels" /\ Place("info")[2] = "infos"
    BY <1>1, Places
  <1>8. /\ e.path[2] = "channels" => e.path # Place("info")
        /\ e.path[2] = "infos" => e.path # Place("channel")
    BY <1>7
  <1>9. e.path[2] = "channels" => /\ Says("info", e) = <<>>
                                  /\ Says("channel", e) = IF e.name = "channel"
                                                          THEN <<e.attrs>> ELSE <<>>
    BY <1>5, <1>8, Zenon DEF Says
  <1>10. e.path[2] = "infos" => /\ Says("channel", e) = <<>>
                                /\ Says("info", e) = IF e.name = "info"
                                                     THEN <<e.attrs>> ELSE <<>>
    BY <1>6, <1>8, Zenon DEF Says
  <1>. QED  BY <1>4, <1>9, <1>10 DEF Fits

LEMMA RootKeeps ==
    ASSUME Typed, XmlInv, StartRoot
    PROVE  XmlInv'
  <1>1. PICK ev \in {"Start", "Empty"}, tag \in Tags :
           /\ Element(tag, ev)
           /\ IF ev = "Empty" THEN UNCHANGED <<phase, result, parser, meta>>
              ELSE IF tag.name = "optimeas" /\ FileError(tag.attrs) = "none"
              THEN /\ parser' = AtState("InOptimeas")
                   /\ meta' = [meta EXCEPT !.creator = tag.attrs.creator,
                                           !.latitude = Coordinate(tag.attrs)]
                   /\ UNCHANGED <<phase, result>>
              ELSE phase' = "failed" /\ UNCHANGED <<parser, meta>>
    BY DEF StartRoot, Becomes, Fails, AtState
  <1>2. PICK e : Is(e) /\ e.ev = ev /\ e.name = tag.name /\ e.attrs = tag.attrs
    BY <1>1, ElementIs
  <1>3. phase' \in {"Osf4", "failed"} /\ parser.state = "TopLevel"
    BY <1>1, <1>2 DEF Is, StartRoot, In
  <1>4. ASSUME phase' = "Osf4", ProperSoFar'
        PROVE  Follows' /\ Copied'
    <2>1. /\ events \in Seq(EventType) /\ e \in EventType /\ Copied /\ Follows
          /\ Open \in Seq(Names) /\ Open' = Behind(e) /\ e.path = Open /\ e.name \in Names
          /\ events = <<>> => e.ev = "Start"
          /\ Open = <<>> <=> events = <<>>
          /\ events' = Append(events, e)
      BY <1>2, <1>4, StepContext DEF Is
    <2>2. Open = <<>>
      BY <2>1, <1>3, StateTells DEF Follows
    <2>3. /\ ev = "Start" /\ tag.name = "optimeas" /\ parser' = AtState("InOptimeas")
          /\ meta' = [meta EXCEPT !.creator = tag.attrs.creator,
                                  !.latitude = Coordinate(tag.attrs)]
      BY <1>1, <1>2, <1>4, <2>1, <2>2
    <2>4. Follows'
      <3>1. Behind(e) = Append(Open, "optimeas")
        BY <1>2, <2>1, <2>3 DEF Behind
      <3>2. "optimeas" \in Names
        BY <1>2, <2>1, <2>3
      <3>. QED  BY <2>1, <2>2, <2>3, <3>1, <3>2, PushRoot, FollowsNext
    <2>5. Says("channel", e) = <<>> /\ Says("info", e) = <<>>
      BY <1>2, <2>3, Zenon DEF Says
    <2>6. Placed("channel")' = Placed("channel") /\ Placed("info")' = Placed("info")
      BY <2>1, <2>5, PlacedStays
    <2>7. events'[1].attrs = tag.attrs
      BY <1>2, <2>1, <2>2, FirstStays
    <2>8. /\ meta'.creator = tag.attrs.creator /\ meta'.latitude = Coordinate(tag.attrs)
          /\ meta'.channels = meta.channels /\ meta'.infos = meta.infos
      BY <2>3, MetaIs DEF Typed, HeadTypeOK
    <2>9. Copied'
      BY <2>1, <2>6, <2>7, <2>8, CopiedNext DEF Copied, CopiesFile, CopiesChannels, CopiesInfos
    <2>. QED  BY <2>4, <2>9
  <1>. QED  BY <1>2, <1>3, <1>4, XmlStepKeeps DEF Kept

LEMMA SectionKeeps ==
    ASSUME XmlInv, StartSection
    PROVE  XmlInv'
  <1>1. PICK ev \in {"Start", "Empty"}, tag \in Tags :
           /\ Element(tag, ev)
           /\ CASE ev = "Empty"                         -> UNCHANGED parser
                [] ev = "Start" /\ tag.name = "channels"    -> Becomes("InChannels")
                [] ev = "Start" /\ tag.name = "infos"       -> Becomes("InInfos")
                [] ev = "Start" /\ tag.name \notin {"channels", "infos"} ->
                      parser' = [state |-> "Skipping", skipped |-> tag.name]
    BY Zenon DEF StartSection
  <1>2. PICK e : Is(e) /\ e.ev = ev /\ e.name = tag.name /\ e.attrs = tag.attrs
    BY <1>1, ElementIs
  <1>3. phase' = "Osf4" /\ meta' = meta /\ parser.state = "InOptimeas"
    BY <1>2 DEF Is, StartSection, In
  <1>4. ASSUME ProperSoFar'
        PROVE  Follows' /\ Copied'
    <2>1. /\ events \in Seq(EventType) /\ e \in EventType /\ Copied /\ Follows
          /\ Open \in Seq(Names) /\ Open' = Behind(e) /\ e.path = Open /\ e.name \in Names
          /\ Open = <<>> <=> events = <<>>
          /\ events' = Append(events, e)
      BY <1>2, <1>4, StepContext DEF Is
    <2>2. Len(Open) = 1
      BY <2>1, <1>3, StateTells DEF Follows
    <2>3. Open # <<>>
      BY <2>2
    <2>4. CASE ev = "Empty"
      <3>1. Behind(e) = Open /\ parser' = parser
        BY <1>1, <1>2, <2>1, <2>4 DEF Behind
      <3>2. Follows'
        BY <2>1, <3>1, FollowsNext DEF Follows
      <3>. QED  BY <3>2, <1>3, <2>1, <2>2, <2>3, SaysNothing, CopiedStays
    <2>5. CASE ev = "Start"
      <3>1. Behind(e) = Append(Open, e.name)
        BY <1>2, <2>1, <2>5 DEF Behind
      <3>2. /\ e.name = "channels" => parser' = AtState("InChannels")
            /\ e.name = "infos" => parser' = AtState("InInfos")
            /\ e.name \notin {"channels", "infos"} =>
                  parser' = [state |-> "Skipping", skipped |-> e.name]
        BY <1>1, <1>2, <2>5 DEF Becomes, AtState
      <3>3. Tracks(Append(Open, e.name), parser')
        BY <2>1, <1>3, <3>2, PushSection DEF Follows
      <3>4. Follows'
        BY <2>1, <3>1, <3>3, FollowsNext
      <3>. QED  BY <3>4, <1>3, <2>1, <2>2, <2>3, SaysNothing, CopiedStays
    <2>. QED  BY <2>4, <2>5
  <1>. QED  BY <1>2, <1>3, <1>4, XmlStepKeeps DEF Kept

\* An element in <channels> or <infos> leaves the parser where it is.
LEMMA InsideFollows ==
    ASSUME XmlInv, NEW e, Is(e), ProperSoFar', e.ev \in {"Start", "Empty"},
           parser.state \in {"InChannels", "InInfos"}, parser' = parser
    PROVE  Follows'
  <1>1. /\ Follows /\ Open \in Seq(Names) /\ Open' = Behind(e) /\ e.path = Open /\ e.name \in Names
        /\ Fits(e, Len(events) + 1)
    BY StepContext
  <1>2. Len(Open) > 1 /\ Open[2] \in {"channels", "infos"}
    BY <1>1, StateTells DEF Follows
  <1>3. CASE e.ev = "Empty"
    <2>1. Behind(e) = Open
      BY <1>1, <1>3 DEF Behind
    <2>. QED  BY <1>1, <2>1, FollowsNext DEF Follows
  <1>4. CASE e.ev = "Start"
    <2>1. Behind(e) = Append(Open, e.name)
      BY <1>1, <1>4 DEF Behind
    <2>2. e.name \notin {"optimeas", "channels", "infos"}
      BY <1>1, <1>2, <1>4, SaysInside
    <2>3. Tracks(Append(Open, e.name), parser)
      BY <1>1, <1>2, <2>2, PushDeeper DEF Follows
    <2>. QED  BY <1>1, <2>1, <2>3, FollowsNext
  <1>. QED  BY <1>3, <1>4

LEMMA ChannelKeeps ==
    ASSUME Typed, XmlInv, StartChannel
    PROVE  XmlInv'
  <1>1. PICK ev \in {"Start", "Empty"}, tag \in Tags :
           /\ Element(tag, ev)
           /\ IF tag.name # "channel" THEN UNCHANGED <<phase, result, meta>>
              ELSE IF XmlChannelError(tag.attrs) = "none"
              THEN /\ meta' = [meta EXCEPT !.channels = Append(@, ChannelOf(tag.attrs))]
                   /\ UNCHANGED <<phase, result>>
              ELSE phase' = "failed" /\ UNCHANGED meta
    BY DEF StartChannel, Fails
  <1>2. PICK e : Is(e) /\ e.ev = ev /\ e.name = tag.name /\ e.attrs = tag.attrs
    BY <1>1, ElementIs
  <1>3. phase' \in {"Osf4", "failed"} /\ parser.state = "InChannels" /\ parser' = parser
    BY <1>1, <1>2 DEF Is, StartChannel, In
  <1>4. ASSUME phase' = "Osf4", ProperSoFar'
        PROVE  Follows' /\ Copied'
    <2>1. /\ events \in Seq(EventType) /\ e \in EventType /\ Copied /\ Follows
          /\ Open \in Seq(Names) /\ e.path = Open
          /\ Fits(e, Len(events) + 1)
          /\ Open = <<>> <=> events = <<>>
          /\ events' = Append(events, e)
      BY <1>2, <1>4, StepContext DEF Is
    <2>2. Len(Open) > 1 /\ Open[2] = "channels"
      BY <2>1, <1>3, StateTells DEF Follows
    <2>3. events # <<>>
      <3>1. Open # <<>>
        BY <2>2
      <3>. QED  BY <2>1, <3>1
    <2>4. /\ Says("info", e) = <<>>
          /\ Says("channel", e) = IF e.name = "channel" THEN <<e.attrs>> ELSE <<>>
      BY <1>2, <2>1, <2>2, SaysInside
    <2>5. Follows'
      BY <1>2, <1>3, <1>4, InsideFollows
    <2>6. CASE tag.name # "channel"
      <3>1. meta' = meta /\ Says("channel", e) = <<>>
        BY <1>1, <1>2, <2>4, <2>6
      <3>. QED  BY <2>1, <2>3, <2>4, <2>5, <3>1, CopiedStays
    <2>7. CASE tag.name = "channel"
      <3>1. /\ XmlChannelError(tag.attrs) = "none"
            /\ meta' = [meta EXCEPT !.channels = Append(@, ChannelOf(tag.attrs))]
        BY <1>1, <1>4, <2>7
      <3>2. /\ meta'.creator = meta.creator /\ meta'.latitude = meta.latitude
            /\ meta'.channels = Append(meta.channels, ChannelOf(tag.attrs))
            /\ meta'.infos = meta.infos
        BY <3>1, MetaIs DEF Typed, HeadTypeOK
      <3>3. ChannelError(tag.attrs) = "none"
        BY <3>1, XmlErrorIs
      <3>4. Placed("channel")' = Placed("channel") \o <<tag.attrs>>
        <4>1. Says("channel", e) = <<tag.attrs>>
          BY <1>2, <2>4, <2>7
        <4>. QED  BY <2>1, <4>1, PlacedAfter
      <3>5. Placed("channel") \in Seq(Attrs) /\ tag.attrs \in Attrs
        BY <2>1, PlacedType DEF Attrs
      <3>6. CopiesChannels(meta', Placed("channel")')
        <4>1. CopiesChannels(meta, Placed("channel"))
          BY <2>1 DEF Copied
        <4>2. IsOneMore(Placed("channel")', Placed("channel"), tag.attrs)
          BY <3>4, <3>5, OneMore
        <4>. QED  BY <3>2, <3>3, <4>1, <4>2, CopiesOneChannel
      <3>7. Placed("info")' = Placed("info")
        BY <2>1, <2>4, PlacedStays
      <3>8. events'[1] = events[1]
        BY <2>1, <2>3, FirstStays
      <3>9. Copied'
        BY <2>1, <2>3, <3>2, <3>6, <3>7, <3>8, CopiedNext DEF Copied, CopiesFile, CopiesInfos
      <3>. QED  BY <2>5, <3>9
    <2>. QED  BY <2>6, <2>7
  <1>. QED  BY <1>2, <1>3, <1>4, XmlStepKeeps DEF Kept

LEMMA InfoKeeps ==
    ASSUME Typed, XmlInv, StartInfo
    PROVE  XmlInv'
  <1>1. PICK ev \in {"Start", "Empty"}, tag \in Tags :
           /\ Element(tag, ev)
           /\ IF tag.name # "info" THEN UNCHANGED <<phase, result, meta>>
              ELSE IF InfoError(tag.attrs) = "none"
              THEN /\ meta' = [meta EXCEPT !.infos = Append(@, InfoOf(tag.attrs))]
                   /\ UNCHANGED <<phase, result>>
              ELSE phase' = "failed" /\ UNCHANGED meta
    BY DEF StartInfo, Fails
  <1>2. PICK e : Is(e) /\ e.ev = ev /\ e.name = tag.name /\ e.attrs = tag.attrs
    BY <1>1, ElementIs
  <1>3. phase' \in {"Osf4", "failed"} /\ parser.state = "InInfos" /\ parser' = parser
    BY <1>1, <1>2 DEF Is, StartInfo, In
  <1>4. ASSUME phase' = "Osf4", ProperSoFar'
        PROVE  Follows' /\ Copied'
    <2>1. /\ events \in Seq(EventType) /\ e \in EventType /\ Copied /\ Follows
          /\ Open \in Seq(Names) /\ e.path = Open
          /\ Fits(e, Len(events) + 1)
          /\ Open = <<>> <=> events = <<>>
          /\ events' = Append(events, e)
      BY <1>2, <1>4, StepContext DEF Is
    <2>2. Len(Open) > 1 /\ Open[2] = "infos"
      BY <2>1, <1>3, StateTells DEF Follows
    <2>3. events # <<>>
      <3>1. Open # <<>>
        BY <2>2
      <3>. QED  BY <2>1, <3>1
    <2>4. /\ Says("channel", e) = <<>>
          /\ Says("info", e) = IF e.name = "info" THEN <<e.attrs>> ELSE <<>>
      BY <1>2, <2>1, <2>2, SaysInside
    <2>5. Follows'
      BY <1>2, <1>3, <1>4, InsideFollows
    <2>6. CASE tag.name # "info"
      <3>1. meta' = meta /\ Says("info", e) = <<>>
        BY <1>1, <1>2, <2>4, <2>6
      <3>. QED  BY <2>1, <2>3, <2>4, <2>5, <3>1, CopiedStays
    <2>7. CASE tag.name = "info"
      <3>1. /\ InfoError(tag.attrs) = "none"
            /\ meta' = [meta EXCEPT !.infos = Append(@, InfoOf(tag.attrs))]
        BY <1>1, <1>4, <2>7
      <3>2. /\ meta'.creator = meta.creator /\ meta'.latitude = meta.latitude
            /\ meta'.channels = meta.channels
            /\ meta'.infos = Append(meta.infos, InfoOf(tag.attrs))
        BY <3>1, MetaIs DEF Typed, HeadTypeOK
      <3>4. Placed("info")' = Placed("info") \o <<tag.attrs>>
        <4>1. Says("info", e) = <<tag.attrs>>
          BY <1>2, <2>4, <2>7
        <4>. QED  BY <2>1, <4>1, PlacedAfter
      <3>5. Placed("info") \in Seq(Attrs) /\ tag.attrs \in Attrs
        BY <2>1, PlacedType DEF Attrs
      <3>6. CopiesInfos(meta', Placed("info")')
        <4>1. CopiesInfos(meta, Placed("info")) /\ InfoError(tag.attrs) = "none"
          BY <2>1, <3>1 DEF Copied
        <4>2. IsOneMore(Placed("info")', Placed("info"), tag.attrs)
          BY <3>4, <3>5, OneMore
        <4>. QED  BY <3>2, <4>1, <4>2, CopiesOneInfo
      <3>7. Placed("channel")' = Placed("channel")
        BY <2>1, <2>4, PlacedStays
      <3>8. events'[1] = events[1]
        BY <2>1, <2>3, FirstStays
      <3>9. Copied'
        BY <2>1, <2>3, <3>2, <3>6, <3>7, <3>8, CopiedNext DEF Copied, CopiesFile, CopiesChannels
      <3>. QED  BY <2>5, <3>9
    <2>. QED  BY <2>6, <2>7
  <1>. QED  BY <1>2, <1>3, <1>4, XmlStepKeeps DEF Kept

LEMMA EndTagKeeps ==
    ASSUME XmlInv, EndTag
    PROVE  XmlInv'
  <1>1. PICK name \in Names :
           /\ Closing(name)
           /\ CASE name \in {"channels", "infos"} -> Becomes("InOptimeas")
                [] name = "optimeas"              -> Becomes("TopLevel")
                [] OTHER                          -> UNCHANGED parser
    BY Zenon DEF EndTag
  <1>2. PICK e : Is(e) /\ e.ev = "End" /\ e.name = name
    BY <1>1, ClosingIs
  <1>3. /\ phase' = "Osf4" /\ meta' = meta /\ parser.state # "Skipping"
        /\ Open # <<>> /\ name = Open[Len(Open)]
    BY <1>1, <1>2, ClosingIs DEF Is, EndTag, In
  <1>4. ASSUME ProperSoFar'
        PROVE  Follows' /\ Copied'
    <2>1. /\ events \in Seq(EventType) /\ e \in EventType /\ Copied /\ Follows
          /\ Open \in Seq(Names) /\ Open' = Behind(e) /\ e.path = Open
          /\ Open = <<>> <=> events = <<>>
          /\ events' = Append(events, e)
      BY <1>2, <1>4, StepContext DEF Is
    <2>2. Behind(e) = Front(Open)
      BY <1>2, <2>1 DEF Behind
    <2>3. /\ name \in {"channels", "infos"} => parser' = AtState("InOptimeas")
          /\ name = "optimeas" => parser' = AtState("TopLevel")
          /\ name \notin {"channels", "infos", "optimeas"} => parser' = parser
      BY <1>1 DEF Becomes, AtState
    <2>4. Tracks(Front(Open), parser')
      BY <1>3, <2>1, <2>3, PopTag DEF Follows
    <2>5. Follows'
      BY <2>1, <2>2, <2>4, FollowsNext
    <2>. QED  BY <1>2, <1>3, <2>1, <2>5, SaysNothing, CopiedStays
  <1>. QED  BY <1>2, <1>3, <1>4, XmlStepKeeps DEF Kept

LEMMA SkipTagKeeps ==
    ASSUME XmlInv, SkipTag
    PROVE  XmlInv'
  <1>1. phase' = phase /\ meta' = meta /\ parser.state = "Skipping"
    BY DEF SkipTag, In
  <1>2. ASSUME NEW ev \in {"Start", "Empty"}, NEW tag \in Tags, Element(tag, ev), UNCHANGED parser
        PROVE  XmlInv'
    <2>1. PICK e : Is(e) /\ e.ev = ev /\ e.name = tag.name /\ e.attrs = tag.attrs
      BY <1>2, ElementIs
    <2>2. ASSUME ProperSoFar'
          PROVE  Follows' /\ Copied'
      <3>1. /\ events \in Seq(EventType) /\ e \in EventType /\ Copied /\ Follows
            /\ Open \in Seq(Names) /\ Open' = Behind(e) /\ e.path = Open /\ e.name \in Names
            /\ Fits(e, Len(events) + 1)
            /\ Open = <<>> <=> events = <<>>
            /\ events' = Append(events, e)
        BY <2>1, <2>2, StepContext DEF Is
      <3>2. Len(Open) > 1 /\ Open[2] \notin {"channels", "infos"}
        BY <1>1, <3>1, StateTells DEF Follows
      <3>3. Open # <<>>
        BY <3>2
      <3>4. Copied'
        BY <1>1, <3>1, <3>2, <3>3, SaysNothing, CopiedStays
      <3>5. CASE ev = "Empty"
        <4>1. Behind(e) = Open
          BY <2>1, <3>1, <3>5 DEF Behind
        <4>. QED  BY <1>2, <3>1, <3>4, <4>1, FollowsNext DEF Follows
      <3>6. CASE ev = "Start"
        <4>1. Behind(e) = Append(Open, e.name)
          BY <2>1, <3>1, <3>6 DEF Behind
        <4>2. e.name # Open[2]
          BY <2>1, <3>1, <3>2, <3>6, SaysInside
        <4>3. Tracks(Append(Open, e.name), parser)
          BY <3>1, <3>2, <4>2, PushDeeper DEF Follows
        <4>. QED  BY <1>2, <3>1, <3>4, <4>1, <4>3, FollowsNext
      <3>. QED  BY <3>5, <3>6
    <2>. QED  BY <1>1, <2>1, <2>2, XmlStepKeeps DEF Kept, Is
  <1>3. ASSUME NEW name \in Names, Closing(name),
               parser' = IF name = parser.skipped THEN AtState("InOptimeas") ELSE parser
        PROVE  XmlInv'
    <2>1. PICK e : Is(e) /\ e.ev = "End" /\ e.name = name
      BY <1>3, ClosingIs
    <2>2. Open # <<>> /\ name = Open[Len(Open)]
      BY <1>3, ClosingIs
    <2>3. ASSUME ProperSoFar'
          PROVE  Follows' /\ Copied'
      <3>1. /\ events \in Seq(EventType) /\ e \in EventType /\ Copied /\ Follows
            /\ Open \in Seq(Names) /\ Open' = Behind(e) /\ e.path = Open
            /\ Open = <<>> <=> events = <<>>
            /\ events' = Append(events, e)
        BY <2>1, <2>3, StepContext DEF Is
      <3>2. Behind(e) = Front(Open)
        BY <2>1, <3>1 DEF Behind
      <3>3. Tracks(Front(Open), parser')
        BY <1>1, <1>3, <2>2, <3>1, PopSkipped DEF Follows
      <3>4. Follows'
        BY <3>1, <3>2, <3>3, FollowsNext
      <3>. QED  BY <1>1, <2>1, <2>2, <3>1, <3>4, SaysNothing, CopiedStays
    <2>. QED  BY <1>1, <2>1, <2>3, XmlStepKeeps DEF Kept, Is
  <1>. QED  BY <1>2, <1>3 DEF SkipTag, Becomes, AtState

\* The end of the body, a step of another parser and the steps before the body.
LEMMA EofKeeps ==
    ASSUME Typed, XmlInv, EndOfXml
    PROVE  XmlInv'
  <1>1. phase = "Osf4" /\ UNCHANGED <<header, events, parser>>
    BY DEF EndOfXml, head
  <1>2. EventType' = EventType
    BY DEF EventType, Names, Attrs
  <1>3. CASE phase' = "failed"
    BY <1>1, <1>2, <1>3 DEF XmlInv
  <1>4. CASE phase' # "failed"
    <2>1. phase' = "open" /\ meta' = [meta EXCEPT !.version = 4]
      BY <1>4 DEF EndOfXml, Goes, Fails
    <2>2. /\ meta'.creator = meta.creator /\ meta'.latitude = meta.latitude
          /\ meta'.channels = meta.channels /\ meta'.infos = meta.infos
      BY <2>1, MetaIs DEF Typed, HeadTypeOK
    <2>3. /\ Placed("channel")' = Placed("channel") /\ Placed("info")' = Placed("info")
          /\ ProperSoFar' => ProperSoFar
      BY <1>1 DEF Placed, Place, ProperSoFar, Fits
    <2>4. ProperSoFar' => Copied'
      BY <1>1, <2>2, <2>3, CopiedNext DEF XmlInv, Copied, CopiesFile, CopiesChannels, CopiesInfos
    <2>. QED  BY <1>1, <1>2, <2>1, <2>4 DEF XmlInv
  <1>. QED  BY <1>3, <1>4

LEMMA EmptyDocument ==
    ASSUME events = <<>>, In("TopLevel"), meta = NoMeta
    PROVE  Follows /\ Copied
  <1>1. Open = <<>>
    BY DEF Open
  <1>2. Follows
    <2>1. Len(<<>>) = 0
      OBVIOUS
    <2>. QED  BY <1>1, <2>1 DEF Follows, Tracks, In
  <1>3. Placed("channel") = <<>> /\ Placed("info") = <<>>
    <2>1. \A name : Placed(name) = FlattenSeq([i \in DOMAIN events |-> Says(name, events[i])])
      BY DEF Placed, Says
    <2>2. \A name : [i \in DOMAIN events |-> Says(name, events[i])] = <<>>
      OBVIOUS
    <2>. QED  BY <2>1, <2>2, FlattenNothing
  <1>4. meta.channels = <<>> /\ meta.infos = <<>>
    BY DEF NoMeta
  <1>5. Copied
    BY <1>3, <1>4 DEF Copied, CopiesChannels, CopiesInfos
  <1>. QED  BY <1>2, <1>5

LEMMA OtherKeeps ==
    ASSUME Typed, XmlInv, [Next]_vars, ~ParseXml
    PROVE  XmlInv'
  <1>1. EventType' = EventType
    BY DEF EventType, Names, Attrs
  <1>2. CASE ParseJson
    BY <1>1, <1>2 DEF ParseJson, Goes, Fails, head, XmlInv
  <1>3. CASE BrokenXml
    BY <1>1, <1>3 DEF BrokenXml, Fails, body, XmlInv
  <1>4. CASE UNCHANGED vars
    <2>1. /\ UNCHANGED <<phase, header, events, parser, meta>>
          /\ ProperSoFar' = ProperSoFar /\ Follows' = Follows /\ Copied' = Copied
          /\ In("TopLevel")' = In("TopLevel")
      BY <1>4 DEF vars, head, body, ProperSoFar, Fits, Place, Follows, Tracks, Open, Copied,
                  CopiesFile, CopiesChannels, CopiesInfos, Placed, In
    <2>. QED  BY <1>1, <2>1 DEF XmlInv, NoMeta
  <1>5. CASE \/ detect_and_wrap \/ IoFails \/ read_first_line \/ parse_magic_header
             \/ parse_token \/ end_of_header \/ read_body \/ verify_metablock_crc
    <2>1. /\ phase \notin {"Osf4", "Osf5", "open", "failed"} /\ UNCHANGED <<events, parser, meta>>
          /\ phase' # "open"
          /\ phase' = "Osf5" => header'.version = "Osf5"
      <3>1. CASE verify_metablock_crc
        BY <3>1 DEF verify_metablock_crc, Goes, Fails, head, body, Typed, HeadTypeOK, Versions
      <3>2. CASE \/ detect_and_wrap \/ IoFails \/ read_first_line \/ parse_magic_header
                 \/ parse_token \/ end_of_header \/ read_body
        BY <3>2 DEF detect_and_wrap, IoFails, read_first_line, parse_magic_header, parse_token,
                    end_of_header, read_body, Goes, Fails, body
      <3>. QED  BY <1>5, <3>1, <3>2
    <2>2. events' = <<>> /\ In("TopLevel")' /\ meta' = NoMeta'
      BY <2>1 DEF XmlInv, In, NoMeta
    <2>3. Follows' /\ Copied'
      <3>1. Follows /\ Copied
        BY <2>1, EmptyDocument DEF XmlInv
      <3>2. Follows' = Follows /\ Copied' = Copied
        BY <2>1 DEF Follows, Tracks, Open, Copied, CopiesFile, CopiesChannels, CopiesInfos, Placed, In
      <3>. QED  BY <3>1, <3>2
    <2>. QED  BY <1>1, <2>1, <2>2, <2>3 DEF XmlInv
  <1>. QED  BY <1>2, <1>3, <1>4, <1>5 DEF Next, Reading

LEMMA XmlStep ==
    ASSUME Typed, XmlInv, [Next]_vars
    PROVE  XmlInv'
  BY RootKeeps, SectionKeeps, ChannelKeeps, InfoKeeps, EndTagKeeps, SkipTagKeeps, EofKeeps,
     OtherKeeps DEF ParseXml

LEMMA SymmetricByInv ==
    ASSUME Typed, XmlInv
    PROVE  Symmetric
  <1>. SUFFICES ASSUME phase = "open", header.version = "Osf4", ProperXml
                PROVE  LET channels == Placed("channel")
                           infos    == Placed("info")
                           twin == [parsable |-> TRUE, osf |-> TRUE, file_kind |-> "object",
                                    channels_kind |-> "array", infos_kind |-> "array",
                                    file |-> events[1].attrs,
                                    channels |-> channels, infos |-> infos]
                       IN  /\ JsonError(twin) = "none"
                           /\ parse_metablock_json(twin) = [meta EXCEPT !.version = 5]
    BY DEF Symmetric
  <1>. DEFINE channels == Placed("channel")
              infos    == Placed("info")
              twin == [parsable |-> TRUE, osf |-> TRUE, file_kind |-> "object",
                       channels_kind |-> "array", infos_kind |-> "array",
                       file |-> events[1].attrs, channels |-> channels, infos |-> infos]
  <1>1. events # <<>> /\ Copied
    <2>1. ProperSoFar /\ events # <<>>
      BY DEF ProperXml, ProperSoFar, Fits
    <2>. QED  BY <2>1 DEF XmlInv
  <1>2. /\ CopiesFile(meta, events[1].attrs) /\ CopiesChannels(meta, channels)
        /\ CopiesInfos(meta, infos)
    BY <1>1 DEF Copied
  <1>3. /\ \E n \in Nat : DOMAIN channels = 1..n
        /\ \E n \in Nat : DOMAIN infos = 1..n
    <2>1. channels \in Seq(Attrs) /\ infos \in Seq(Attrs)
      BY PlacedType DEF XmlInv
    <2>. HIDE DEF channels, infos
    <2>2. Len(channels) \in Nat /\ DOMAIN channels = 1..Len(channels)
      BY <2>1
    <2>3. Len(infos) \in Nat /\ DOMAIN infos = 1..Len(infos)
      BY <2>1
    <2>. QED  BY <2>2, <2>3
  <1>. HIDE DEF channels, infos
  <1>4. /\ twin.parsable = TRUE /\ twin.osf = TRUE /\ twin.file_kind = "object"
        /\ twin.channels_kind = "array" /\ twin.infos_kind = "array"
        /\ twin.file = events[1].attrs /\ twin.channels = channels /\ twin.infos = infos
    OBVIOUS
  <1>. HIDE DEF twin
  <1>5. Sound(twin)
    BY <1>2, <1>4 DEF Sound, Wrong, CopiesChannels, CopiesInfos
  <1>6. JsonError(twin) = "none"
    BY <1>3, <1>4, <1>5, JsonErrorIs
  <1>7. parse_metablock_json(twin) =
           [version |-> 5, creator |-> meta.creator, latitude |-> meta.latitude,
            channels |-> meta.channels, infos |-> meta.infos]
    BY <1>2, <1>4 DEF parse_metablock_json, CopiesFile, CopiesChannels, CopiesInfos
  <1>8. [meta EXCEPT !.version = 5] =
           [version |-> 5, creator |-> meta.creator, latitude |-> meta.latitude,
            channels |-> meta.channels, infos |-> meta.infos]
    <2>1. meta \in [version : {0, 4, 5}, creator : Text, latitude : Text,
                   channels : Seq(ChannelMeta), infos : Seq(InfoMeta)]
      BY MetaIs DEF Typed, HeadTypeOK
    <2>. QED  BY <2>1
  <1>. QED  BY <1>6, <1>7, <1>8 DEF twin, channels, infos

\* The parser of OSF4 keeps four states and no stack, and still it takes from every
\* proper document, however long and however deep, each child of <channels> and of
\* <infos> and nothing else: what it makes of them is what the parser of OSF5 makes of
\* the same fields.
THEOREM AlwaysSymmetric == Spec => []Symmetric
  <1>1. Init => XmlInv
    <2>. SUFFICES ASSUME Init
                  PROVE  XmlInv
      OBVIOUS
    <2>1. <<>> \in Seq(EventType)
      OBVIOUS
    <2>. QED  BY <2>1 DEF Init, XmlInv, In
  <1>2. Typed /\ XmlInv /\ [Next]_vars => XmlInv'
    BY XmlStep
  <1>3. Typed /\ XmlInv => Symmetric
    BY SymmetricByInv
  <1>. QED  BY <1>1, <1>2, <1>3, TypedAlways, PTL DEF Spec
=============================================================================
