------------------------------ MODULE ReadPath ------------------------------
(***************************************************************************)
(* From the bytes of one connection to its commands: the receiving half of *)
(* Server::receiveData, Client::extractCommandFromBuffer and Parser.       *)
(*                                                                         *)
(* TCP delivers a stream in chunks of any size; the read buffer must turn  *)
(* it into the same commands however it was cut.  Module Server abstracts  *)
(* this to batches of commands; what the handlers of Commands rely on in a *)
(* parsed command (ParsedCommand there) is ParserFits here.                *)
(***************************************************************************)
EXTENDS Naturals, SequencesExt

CONSTANTS
  Letters,        \* the bytes with no role in framing or parsing
  toupper,        \* what toupper() makes of each of them
  KnownCommands,  \* the command words Parser::setCommand accepts
  MaxChunk,       \* the most bytes one recv() returns, MAXLINE - 1
  MaxStream       \* bound: the bytes that arrive on the connection

LF == "\n"
CR == "\r"
SP == " "
COLON == ":"
NUL == "NUL"
Bytes == Letters \cup {LF, CR, SP, COLON, NUL}

ASSUME ReadPathAssumption ==
  /\ Letters \cap {LF, CR, SP, COLON, NUL} = {}
  /\ toupper \in [Letters -> Letters]
  /\ KnownCommands \subseteq Seq(Letters) \ {<<>>}
  /\ \A word \in KnownCommands : \A k \in DOMAIN word : toupper[word[k]] = word[k]
  /\ MaxChunk \in Nat \ {0}

VARIABLES
  readBuffer,  \* Client::_readBuffer
  pc,          \* "recv", or "commands" inside the while of receiveData
  stream,      \* history: every byte that reached the buffer
  executed     \* history: the parsed commands, as they were run

vars == <<readBuffer, pc, stream, executed>>

-----------------------------------------------------------------------------
(***************************************************************************)
(* Parser.                                                                 *)
(***************************************************************************)

\* Where byte b first occurs in s, 0 if it does not.
find(s, b) == SelectInSeq(s, LAMBDA x : x = b)

from(s, k) == SubSeq(s, k, Len(s))

\* The numbers in S in increasing order: the n-th has n - 1 below it.
ascending(S) ==
  [n \in 1..Cardinality(S) |-> CHOOSE k \in S : Cardinality({j \in S : j < k}) = n - 1]

stripLineEnding(line) ==
  CASE IsSuffix(<<CR, LF>>, line) -> SubSeq(line, 1, Len(line) - 2)
    [] IsSuffix(<<LF>>, line) /\ ~IsSuffix(<<CR, LF>>, line) -> Front(line)
    [] OTHER -> line

\* The message after the prefix, which the server never looks at.
skipPrefix(message) ==
  IF ~IsPrefix(<<COLON>>, message) THEN message
  ELSE IF find(message, SP) = 0 THEN <<>>
  ELSE from(message, find(message, SP) + 1)

\* The trailing parameter starts behind the first of these places.
trailingPositions(message) ==
  {k \in 1..(Len(message) - 1) : message[k] = SP /\ message[k + 1] = COLON}

\* Mutant: words are kept when they are empty.
wordsAndGaps(text) ==
  LET starts == {1} \cup {k + 1 : k \in {j \in DOMAIN text : text[j] = SP}}
      order == ascending(starts)
      word(k) == LET tail == from(text, k)
                 IN IF find(tail, SP) = 0 THEN tail
                    ELSE SubSeq(tail, 1, find(tail, SP) - 1)
  IN [n \in DOMAIN order |-> word(order[n])]

\* The non-empty words between the spaces of text, in order.
words(text) ==
  LET starts == {k \in DOMAIN text : text[k] # SP /\ (k > 1 => text[k - 1] = SP)}
      order == ascending(starts)
      word(k) == LET tail == from(text, k)
                 IN IF find(tail, SP) = 0 THEN tail
                    ELSE SubSeq(tail, 1, find(tail, SP) - 1)
  IN [n \in DOMAIN order |-> word(order[n])]

UNKNOWN == <<"UNKNOWN">>

setCommand(word) ==
  LET upper == [k \in DOMAIN word |-> IF word[k] \in Letters THEN toupper[word[k]]
                                      ELSE word[k]]
  IN IF upper \in KnownCommands THEN upper ELSE UNKNOWN

\* Mutant: the trailing parameter keeps its colon.
ParserKeepsColon(line) ==
  LET message == skipPrefix(stripLineEnding(line))
      colons == trailingPositions(message)
      ws == words(IF colons = {} THEN message
                  ELSE SubSeq(message, 1, Min(colons) - 1))
  IN [command |-> IF ws = <<>> THEN <<>> ELSE setCommand(Head(ws)),
      params |-> (IF ws = <<>> THEN <<>> ELSE Tail(ws))
                 \o (IF colons = {} THEN <<>>
                     ELSE <<from(message, Min(colons) + 1)>>)]

Parser(line) ==
  LET message == skipPrefix(stripLineEnding(line))
      colons == trailingPositions(message)
      ws == words(IF colons = {} THEN message
                  ELSE SubSeq(message, 1, Min(colons) - 1))
  IN [command |-> IF ws = <<>> THEN <<>> ELSE setCommand(Head(ws)),
      params |-> (IF ws = <<>> THEN <<>> ELSE Tail(ws))
                 \o (IF colons = {} THEN <<>>
                     ELSE <<from(message, Min(colons) + 2)>>)]

-----------------------------------------------------------------------------
(***************************************************************************)
(* The read buffer.                                                        *)
(***************************************************************************)

\* Mutant: the chunk is appended with its length.
wholeChunk(chunk) == chunk

\* The chunk is appended as a C string: it ends at its first NUL.
asCString(chunk) ==
  IF find(chunk, NUL) = 0 THEN chunk ELSE SubSeq(chunk, 1, find(chunk, NUL) - 1)

hasCompleteCommand == find(readBuffer, LF) # 0

\* The first line of the buffer without its line ending.
firstCommand ==
  LET pos == find(readBuffer, LF)
      end == IF pos > 1 /\ readBuffer[pos - 1] = CR THEN pos - 2 ELSE pos - 1
  IN SubSeq(readBuffer, 1, end)

\* Mutant: the buffer is cleared behind the first command.
nothingAfterFirstCommand == <<>>

afterFirstCommand == from(readBuffer, find(readBuffer, LF) + 1)

Init ==
  /\ readBuffer = <<>>
  /\ pc = "recv"
  /\ stream = <<>>
  /\ executed = <<>>

recvData(chunk) ==
  /\ pc = "recv"
  /\ readBuffer' = readBuffer \o asCString(chunk)
  /\ stream' = stream \o asCString(chunk)
  /\ pc' = "commands"
  /\ UNCHANGED executed

extractCommandFromBuffer ==
  /\ pc = "commands"
  /\ hasCompleteCommand
  /\ executed' = Append(executed, Parser(firstCommand))
  /\ readBuffer' = afterFirstCommand
  /\ UNCHANGED <<pc, stream>>

commandsDone ==
  /\ pc = "commands"
  /\ ~hasCompleteCommand
  /\ pc' = "recv"
  /\ UNCHANGED <<readBuffer, stream, executed>>

Chunks == UNION {[1..n -> Bytes] : n \in 1..MaxChunk}

Next ==
  \/ \E chunk \in Chunks :
       Len(stream) + Len(chunk) <= MaxStream /\ recvData(chunk)
  \/ extractCommandFromBuffer
  \/ commandsDone

Spec == Init /\ [][Next]_vars

-----------------------------------------------------------------------------
(***************************************************************************)
(* Properties.                                                             *)
(***************************************************************************)

\* Every variable has its type.
TypeOK ==
  /\ readBuffer \in Seq(Bytes \ {NUL})
  /\ pc \in {"recv", "commands"}
  /\ stream \in Seq(Bytes \ {NUL})
  /\ \A k \in DOMAIN executed :
       /\ executed[k].command \in KnownCommands \cup {UNKNOWN, <<>>}
       /\ executed[k].params \in Seq(Seq(Bytes \ {LF, NUL}))

\* The lines of a byte sequence: the n-th runs from behind the line feed
\* number n - 1 to the n-th, and loses one carriage return at its end.
LineEnds(s) == ascending({k \in DOMAIN s : s[k] = LF})
Line(s, n) ==
  LET ends == LineEnds(s)
      line == SubSeq(s, IF n = 1 THEN 1 ELSE ends[n - 1] + 1, ends[n] - 1)
  IN IF line # <<>> /\ Last(line) = CR THEN Front(line) ELSE line
Rest(s) ==
  IF LineEnds(s) = <<>> THEN s ELSE SubSeq(s, Last(LineEnds(s)) + 1, Len(s))

\* However recv cuts the stream, between CR and LF too, the commands run are
\* the stream's lines, each once and in order; after the while loop all of
\* them have run and the buffer holds exactly the unfinished line.
ChunksDoNotMatter ==
  /\ Len(executed) <= Len(LineEnds(stream))
  /\ \A n \in DOMAIN executed : executed[n] = Parser(Line(stream, n))
  /\ pc = "recv" =>
       /\ Len(executed) = Len(LineEnds(stream))
       /\ readBuffer = Rest(stream)

\* The lines that wait in the buffer; each is parsed when it is run.
Pending == [n \in DOMAIN LineEnds(readBuffer) |-> Line(readBuffer, n)]

Inbox == INSTANCE Inbox WITH
  Command <- Seq(Bytes \ {LF, NUL}), pending <- Pending

\* The bytes keep the promise of Inbox: a chunk completes commands only behind
\* what it finds in the buffer, and running one leaves the others as they were.
InboxSpec == Inbox!Spec

\* What the handlers rely on: no parameter but the last is empty, holds a
\* space, or starts with the colon of a trailing parameter.
ParserFits ==
  \A n \in DOMAIN executed :
    LET params == executed[n].params
    IN \A k \in 1..(Len(params) - 1) :
         params[k] # <<>> /\ params[k][1] # COLON /\ find(params[k], SP) = 0

\* A parsed command in the form the protocol writes it: the words separated by
\* one space, the last parameter behind " :".
Format(cmd) ==
  LET n == Len(cmd.params)
      part(k) == IF k = n THEN <<SP, COLON>> \o cmd.params[k]
                 ELSE <<SP>> \o cmd.params[k]
      text[k \in 0..n] == IF k = 0 THEN cmd.command ELSE text[k - 1] \o part(k)
  IN text[n]

\* Parsing loses nothing a handler looks at: a known command, written out from
\* its parsed form, parses to the same command and parameters.
ParseFormat ==
  \A n \in DOMAIN executed :
    executed[n].command \in KnownCommands =>
      Parser(Format(executed[n])) = executed[n]
=============================================================================
