------------------------------- MODULE ScipData -------------------------------
(***************************************************************************)
(* The data part of an answer: sendScipData and sendScipDataInt (scip2.c)  *)
(* write each word in enc characters of six bits, most significant first,  *)
(* and send what they wrote in blocks of BlockLen characters with a        *)
(* checksum.  A blank line ends the answer, so no block may be empty.      *)
(* A host takes the lines whose checksums are right, and reads word after  *)
(* word of the widths it asked for.                                        *)
(***************************************************************************)
EXTENDS Integers, Sequences, SequencesExt

CONSTANTS Inputs,     \* the answers: sequences of words, records of value and enc
          BlockLen    \* characters in a block, at least one

Base == 64
Zero == 48

VARIABLES
    input,      \* the words to be sent
    data,       \* those not yet encoded
    encorded,   \* what is left of the word being written
    buf,        \* the block being filled
    sent,       \* the lines sent
    done,
    taken,      \* the lines the host took
    rest,       \* what is left of the last of them
    partial, digit,     \* the word being read, and how many characters of it were
    read        \* the words read

sender == <<input, data, encorded, buf, sent, done>>
receiver == <<taken, rest, partial, digit, read>>
vars == <<sender, receiver>>

Init ==
    /\ input \in Inputs /\ data = input
    /\ encorded = <<>> /\ buf = <<>> /\ sent = <<>> /\ done = FALSE
    /\ taken = 0 /\ rest = <<>> /\ partial = 0 /\ digit = 0 /\ read = <<>>

\* A value that does not fit is sent as the largest one.  Slip: it is cut.
LimitedNot(word) == word.value
enc_mask == <<63, 4095, 262143, 16777215>>
Limited(word) ==
    IF word.value > enc_mask[word.enc] THEN enc_mask[word.enc] ELSE word.value

\* A word shifted right until its k-th character is the last.
Shifted(word, k) == Limited(word) \div <<1, 64, 4096, 262144>>[word.enc - k + 1]
Character(word, k) == Zero + (Shifted(word, k) % Base)
Characters(word) == [k \in 1..word.enc |-> Character(word, k)]

Sum(line) == FoldSeq(LAMBDA c, total : total + c, 0, line)

\* sendScipResponse.
Response(line) == Append(line, Zero + (Sum(line) % Base))

Encode ==
    /\ encorded = <<>> /\ data # <<>>
    /\ encorded' = Characters(Head(data)) /\ data' = Tail(data)
    /\ UNCHANGED <<input, buf, sent, done, receiver>>

\* The test of pbuf - buf.
Full(line) == Len(line) >= BlockLen

Put ==
    /\ encorded # <<>>
    /\ encorded' = Tail(encorded)
    /\ LET line == Append(buf, Head(encorded)) IN
       IF Full(line) THEN sent' = Append(sent, Response(line)) /\ buf' = <<>>
                     ELSE buf' = line /\ UNCHANGED sent
    /\ UNCHANGED <<input, data, done, receiver>>

\* Whether the end sends a block.  Slip: always.
RemainsAlways(line) == TRUE
Remains(line) == line # <<>>

Finish ==
    /\ encorded = <<>> /\ data = <<>> /\ ~done
    /\ done' = TRUE
    /\ IF Remains(buf) THEN sent' = Append(sent, Response(buf)) /\ buf' = <<>>
                       ELSE UNCHANGED <<sent, buf>>
    /\ UNCHANGED <<input, data, encorded, receiver>>

-----------------------------------------------------------------------------
(* How a host reads the lines.                                             *)

Payload(line) == SubSeq(line, 1, Len(line) - 1)
Checked(line) == Response(Payload(line)) = line

TakeLine ==
    /\ rest = <<>> /\ taken < Len(sent) /\ Checked(sent[taken + 1])
    /\ rest' = Payload(sent[taken + 1]) /\ taken' = taken + 1
    /\ UNCHANGED <<sender, partial, digit, read>>

TakeCharacter ==
    /\ rest # <<>> /\ Len(read) < Len(input)
    /\ rest' = Tail(rest)
    /\ LET number == partial * Base + (Head(rest) - Zero) IN
       IF digit + 1 = input[Len(read) + 1].enc
         THEN read' = Append(read, number) /\ partial' = 0 /\ digit' = 0
         ELSE partial' = number /\ digit' = digit + 1 /\ UNCHANGED read
    /\ UNCHANGED <<sender, taken>>

Next == Encode \/ Put \/ Finish \/ TakeLine \/ TakeCharacter

Spec == Init /\ [][Next]_vars

-----------------------------------------------------------------------------
\* No line of the data is blank before its checksum, and all but the last are full: the host
\* takes the blank line that ends the answer for nothing else.
BlocksWhole ==
    \A k \in DOMAIN sent :
        Len(sent[k]) > 1 /\ (k < Len(sent) \/ ~done => Len(sent[k]) = BlockLen + 1)

\* The largest number in words of some characters of six bits.
Largest(width) == CASE width = 1 -> 63 [] width = 2 -> 4095 [] width = 3 -> 262143 [] width = 4 -> 16777215

AllTaken == done /\ taken = Len(sent) /\ (rest = <<>> \/ Len(read) = Len(input))

\* A host that checks the checksums and joins the lines reads every word as it was, or as the
\* largest number of its width when it was larger, also a word that was split by two lines; and
\* the words are all there is.
RoundTrip ==
    /\ \A k \in DOMAIN sent : Checked(sent[k])
    /\ \A n \in DOMAIN read :
          read[n] = IF input[n].value <= Largest(input[n].enc) THEN input[n].value
                                                               ELSE Largest(input[n].enc)
    /\ AllTaken => Len(read) = Len(input) /\ rest = <<>>
=============================================================================
