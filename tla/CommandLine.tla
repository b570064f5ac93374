------------------------------ MODULE CommandLine ------------------------------
(****************************************************************************)
(* server/src/cli: what a command line session does with one read.          *)
(*                                                                          *)
(* A read returns whatever part of the stream has arrived, and the parser   *)
(* takes a newline for a blank, so one read is one command: the first line  *)
(* of several, with the words of the next ones after its own, or a line cut *)
(* short.  There is no state; the sessions are in ServerSessions.           *)
(****************************************************************************)
EXTENDS Naturals, Sequences

\* Words as the parser tells them apart.  An address, read as a number, gives
\* its first digits and leaves the rest as a word of its own.
Words == {"CONFIG_IP", "REBOOT", "quit", "name", "number", "address"}

\* What a read may hold.
Reads == UNION {[1 .. n -> Words] : n \in 0 .. 5}

--------------------------------------------------------------------------------
Word(words, i) == IF i \in DOMAIN words THEN words[i] ELSE ""

\* Extraction stops at the first word that is missing or not a number where
\* one is wanted; what was read before it stays in the command.
ParseSensorCommand(read) ==
    LET second == Word(read, 2)
        words  == CASE second = "number" \/ read = <<>> -> read
                    [] second = "address" -> <<read[1], "number", "name">>
                                             \o SubSeq(read, 3, Len(read))
                    [] OTHER              -> SubSeq(read, 1, 1)
    IN  [cmd   |-> Word(words, 1),
         value |-> Word(words, 4),
         valid |-> Len(words) = 4]

\* The handler runs whether or not the command is valid.  CONFIG_IP draws an id
\* and inserts the row: the cast of the value to INET stops anything that is not
\* an address, with an exception that ends the session.
Execute(command) ==
    IF command.cmd # "CONFIG_IP" THEN "text"
    ELSE IF command.value = "address" THEN "order" ELSE "refused"

Obey(read) == LET command == ParseSensorCommand(read)
              IN  IF ~command.valid /\ command.cmd = "quit"
                  THEN "quit" ELSE Execute(command)

\* What a session can come to do for a read.
CliEffects == {Obey(read) : read \in Reads}
================================================================================
