------------------------------- MODULE Utf8Buffer -------------------------------
(***************************************************************************)
(* Incremental assembly of text from the bytes of tokens: a push returns   *)
(* what is complete and holds an incomplete tail back, the finish drains   *)
(* it. A byte is its class: ASCII, the lead of a character of two, three   *)
(* or four bytes (E0, whose second byte is restricted, apart), a           *)
(* continuation below A0 or from it on, or a byte of no character.         *)
(***************************************************************************)
EXTENDS Naturals, Sequences, SequencesExt

CONSTANTS Bytes,        \* the classes that occur
          MaxBytes      \* bound on the bytes of a stream

Continuation == {"Low", "High"}
ByteClasses == {"Ascii", "Lead2", "E0", "Lead3", "Lead4", "Invalid"} \cup Continuation

ASSUME ByteAssumption == Bytes \subseteq ByteClasses /\ MaxBytes \in Nat

VARIABLES
  pending,      \* the bytes held back
  text,         \* the characters returned, each with the bytes it stands for
  fed,          \* every byte pushed
  ended         \* whether the stream has ended

bufferVars == <<pending, text, fed, ended>>

BufferInit == pending = <<>> /\ text = <<>> /\ fed = <<>> /\ ended = FALSE

(* What may follow a lead.                                                 *)
Follow(lead) ==
  CASE lead = "Lead2" -> <<Continuation>>
    [] lead = "Lead3" -> <<Continuation, Continuation>>
    [] lead = "E0" -> <<{"High"}, Continuation>>
    [] lead = "Lead4" -> <<Continuation, Continuation, Continuation>>
    [] OTHER -> <<>>

(* from_utf8, at the first character: the bytes of it that match,          *)
(* valid_up_to if all do, error_len if one is in the way.                  *)
Matching(s) ==
  LET follow == Follow(s[1])
      ok == {k \in 0 .. Len(follow) :
               k < Len(s) /\ \A i \in 1 .. k : s[i + 1] \in follow[i]}
  IN 1 + CHOOSE k \in ok : \A l \in ok : l <= k
Valid(s, n) == s[1] \notin Continuation \cup {"Invalid"} /\ n = 1 + Len(Follow(s[1]))

(* Mutant: a tail that ends the chunk is taken to be broken.               *)
NeverIncomplete(s, n) == FALSE

(* error_len is None: the input ends before anything is in the way.        *)
Incomplete(s, n) == ~Valid(s, n) /\ n = Len(s) /\ Follow(s[1]) # <<>>

Char(bytes, ok) == [bytes |-> bytes, ok |-> ok]

(* The loop of push: characters, a replacement for each broken sequence,   *)
(* and the tail.                                                           *)
Assembled[s \in Seq(ByteClasses)] ==
  IF s = <<>> THEN [text |-> <<>>, rest |-> <<>>]
  ELSE LET n == Matching(s) IN
       IF Incomplete(s, n) THEN [text |-> <<>>, rest |-> s]
       ELSE LET after == Assembled[SubSeq(s, n + 1, Len(s))] IN
            [text |-> <<Char(SubSeq(s, 1, n), Valid(s, n))>> \o after.text, rest |-> after.rest]

Push(bytes) ==
  /\ ~ended /\ Len(fed) + Len(bytes) <= MaxBytes
  /\ LET new == Assembled[pending \o bytes] IN
       /\ text' = text \o new.text
       /\ pending' = new.rest
  /\ fed' = fed \o bytes
  /\ UNCHANGED ended

(* finish: the tail is one replacement character.                          *)
FinishStream ==
  /\ ~ended /\ ended' = TRUE
  /\ text' = IF pending = <<>> THEN text ELSE Append(text, Char(pending, FALSE))
  /\ pending' = <<>>
  /\ UNCHANGED fed

(* A token has one byte or two.                                            *)
BufferNext ==
  \/ \E b \in Bytes : Push(<<b>>) \/ \E c \in Bytes : Push(<<b, c>>)
  \/ FinishStream

BufferSpec == BufferInit /\ [][BufferNext]_bufferVars

-------------------------------------------------------------------------------
(* UTF-8, by its table of well-formed sequences.                           *)
WellFormed ==
  {<<"Ascii">>} \cup ({"Lead2"} \X Continuation) \cup ({"E0"} \X {"High"} \X Continuation)
    \cup ({"Lead3"} \X Continuation \X Continuation)
    \cup ({"Lead4"} \X Continuation \X Continuation \X Continuation)

Beginnings == UNION {{SubSeq(c, 1, k) : k \in 1 .. Len(c) - 1} : c \in WellFormed}

BytesOf(t) == FlattenSeq([i \in DOMAIN t |-> t[i].bytes])

(* The text is the decoding of the bytes, however they were cut into       *)
(* tokens: no byte is lost, moved or doubled; what is returned as a        *)
(* character is one; what is replaced could not have been completed by the *)
(* byte that came next; and what is held back is a beginning, so at most   *)
(* three bytes (utf8.rs, push and finish).                                 *)
TextExact ==
  /\ BytesOf(text) \o pending = fed
  /\ pending = <<>> \/ pending \in Beginnings
  /\ \A i \in DOMAIN text :
       IF text[i].ok THEN text[i].bytes \in WellFormed
       ELSE LET here == Len(BytesOf(SubSeq(text, 1, i))) IN
              /\ text[i].bytes \in Beginnings \/ Len(text[i].bytes) = 1
              /\ text[i].bytes \notin WellFormed
              /\ here = Len(fed) \/
                 Append(text[i].bytes, fed[here + 1]) \notin Beginnings \cup WellFormed
              /\ here = Len(fed) /\ text[i].bytes \in Beginnings => ended
===============================================================================
