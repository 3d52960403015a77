------------------------------- MODULE BleuIo -------------------------------
(***************************************************************************)
(* The BleuIO client (src/examples/bleuio/protocol.rs) over a byte stream  *)
(* of the class drivers, and the application loop that owns it             *)
(* (src/examples/bleuio/app.rs). A symbol stands for a word of an answer,  *)
(* for a carriage return or for a line feed, and bears the number of the   *)
(* command it answers: packets cut answers anywhere between symbols.       *)
(***************************************************************************)
EXTENDS ByteStream

CONSTANTS
    RxBytes,            \* BLEUIO_RX_BUFFER_BYTES
    MaxResponse,        \* MAX_AT_RESPONSE_BYTES
    MaxLine,            \* MAX_SCAN_LINE_BYTES
    Responses,          \* what the device may answer to a command, in lines
    MaxCommands         \* bound: commands of a client that is not the application's

ASSUME BleuIoAssumption ==
    /\ RxBytes \in Nat \ {0} /\ {MaxResponse, MaxLine, MaxCommands} \subseteq Nat
    /\ DOMAIN Responses = {"basic", "scan"}
    /\ \A c \in DOMAIN Responses : Responses[c] \subseteq Seq(Words)
    /\ {"ERROR", "cr", "lf"} \subseteq Words

(* The words of the lines that end an answer, by the kind of command.      *)
EndWords == [basic |-> {"OK", "ERROR"}, scan |-> {"COMPLETE"}]
TerminalWords == {"OK", "ERROR", "COMPLETE"}

(* A line that ends the answer to a command of kind c is over at place k.  *)
EndsAt(words, c, k) ==
    /\ k \in 3..Len(words)
    /\ words[k - 2] \in EndWords[c] /\ words[k - 1] = "cr" /\ words[k] = "lf"

(* What a device still says after the line that ends its answer, no parser *)
(* takes for the end of the next one.                                      *)
ASSUME TerminalAssumption ==
    \A c \in DOMAIN Responses : \A words \in Responses[c] :
        \A k, j \in DOMAIN words :
            EndsAt(words, c, k) /\ k < j => words[j] \notin TerminalWords

VARIABLES
    caller,     \* "app": the application; "any": any user of BleuIo
    phase,      \* of the application loop; "session" for any other caller
    leased,     \* addresses that enumeration took and nobody gave back
    own,        \* the address of the enumerated device, 0 if there is none
    command,    \* the one at work, "none" between two
    pc,         \* of the command: "idle", "writing", "reading"
    number,     \* commands so far
    parser,     \* AtResponseAccumulator or ScanAccumulator
    kept,       \* rx[rx_start..rx_end]
    garbled,    \* the device holds a part of a command
    result,     \* of the last command
    upset       \* a command has ended before its terminal line was consumed

clientVars == <<command, pc, number, parser, kept, garbled, result, upset>>
vars == <<streamVars, caller, phase, leased, own, clientVars>>

(***************************************************************************)
(* The parsers, one symbol at a time. used counts what is consumed.        *)
(***************************************************************************)
Word(symbols) == [i \in DOMAIN symbols |-> symbols[i].word]

AtResponse == [len |-> 0, line |-> <<>>, end |-> "Pending", of |-> 0, used |-> 0]
ScanResponse ==
    [line |-> <<>>, end |-> "Pending", of |-> 0, used |-> 0, scanning |-> FALSE, device |-> FALSE]

(* Mutated form: a terminal line needs no carriage return.                 *)
AtStepLoose(p, symbol) ==
    LET line == Append(p.line, symbol.word)
        next == [p EXCEPT !.len = @ + 1, !.used = @ + 1, !.of = symbol.of]
    IN  IF p.end # "Pending" THEN p
        ELSE IF p.len = MaxResponse THEN [p EXCEPT !.end = "Overflow"]
        ELSE IF line \in {<<"OK", "cr", "lf">>, <<"OK", "lf">>} THEN [next EXCEPT !.end = "Ok"]
        ELSE IF line = <<"ERROR", "cr", "lf">> THEN [next EXCEPT !.end = "Error"]
        ELSE [next EXCEPT !.line = IF symbol.word = "lf" THEN <<>> ELSE line]

(* push_with_consumed of AtResponseAccumulator. A line ends at every line  *)
(* feed; it is terminal if a carriage return stands before that.           *)
AtStep(p, symbol) ==
    LET line == Append(p.line, symbol.word)
        next == [p EXCEPT !.len = @ + 1, !.used = @ + 1, !.of = symbol.of]
    IN  IF p.end # "Pending" THEN p
        ELSE IF p.len = MaxResponse THEN [p EXCEPT !.end = "Overflow"]
        ELSE IF line = <<"OK", "cr", "lf">> THEN [next EXCEPT !.end = "Ok"]
        ELSE IF line = <<"ERROR", "cr", "lf">> THEN [next EXCEPT !.end = "Error"]
        ELSE [next EXCEPT !.line = IF symbol.word = "lf" THEN <<>> ELSE line]

(* classify_scan_line                                                      *)
ScanLine(line) ==
    CASE line = <<"SCANNING">> -> "Scanning"
      [] line = <<"COMPLETE">> -> "Complete"
      [] line = <<"ERROR">>    -> "Error"
      [] line = <<"DEVICE">>   -> "Device"
      [] line = <<"BAD">>      -> "Malformed"
      [] OTHER                 -> "Ignore"

(* push_with_consumed of ScanAccumulator. Only a line feed right after a   *)
(* carriage return ends a line.                                            *)
ScanStep(p, symbol) ==
    LET ends == symbol.word = "lf" /\ p.line # <<>> /\ p.line[Len(p.line)] = "cr"
        line == ScanLine(SubSeq(p.line, 1, Len(p.line) - 1))
        next == [p EXCEPT !.used = @ + 1, !.of = symbol.of]
        read == [next EXCEPT !.line = <<>>]
        Ends(error) == [next EXCEPT !.end = error]
    IN  IF p.end # "Pending" THEN p
        ELSE IF ~ends
        THEN IF Len(p.line) = MaxLine THEN Ends("LineOverflow")
             ELSE [next EXCEPT !.line = Append(p.line, symbol.word)]
        ELSE CASE line = "Ignore"    -> read
               [] line = "Scanning"  -> [read EXCEPT !.scanning = TRUE]
               [] line = "Malformed" -> Ends("MalformedDeviceLine")
               [] line = "Error"     -> Ends("DeviceError")
               [] line = "Device"    -> IF p.scanning THEN [read EXCEPT !.device = TRUE]
                                        ELSE Ends("UnexpectedDevice")
               [] line = "Complete"  -> IF ~p.scanning    THEN Ends("UnexpectedComplete")
                                        ELSE IF ~p.device THEN Ends("NoDevice")
                                        ELSE [read EXCEPT !.end = "Complete"]

Step(p, symbol) == IF command = "scan" THEN ScanStep(p, symbol) ELSE AtStep(p, symbol)

(* The parser after i symbols of what is kept, and after all of them       *)
After[i \in 0..Len(kept)] ==
    IF i = 0 THEN [parser EXCEPT !.used = 0] ELSE Step(After[i - 1], kept[i])

Parsed == After[Len(kept)]

(* The ends a parser reports as progress; the others are its errors.       *)
Terminal == {"Ok", "Error", "Complete"}

(***************************************************************************)
(* The device (external): it answers every command it hears with one of    *)
(* the responses, and a command that follows a part of another with an     *)
(* error.                                                                  *)
(***************************************************************************)
Symbols(lines, n) ==
    [i \in DOMAIN lines |-> [word |-> lines[i], of |-> n]]

Error == <<"ERROR", "cr", "lf">>

Hears(n) ==
    \E response \in IF garbled THEN {Error} ELSE Responses[command] :
        wire' = wire \o Symbols(response, n)

(***************************************************************************)
(* BleuIo. Idle commands leave the stream to its other calls.              *)
(***************************************************************************)
ClientInit ==
    /\ command = "none" /\ pc = "idle" /\ number = 0 /\ parser = AtResponse /\ kept = <<>>
    /\ garbled = FALSE /\ result = [end |-> "none", of |-> 0] /\ upset = FALSE

Finish(end, of) ==
    /\ command' = "none" /\ pc' = "idle" /\ parser' = AtResponse
    /\ result' = [end |-> end, of |-> of]
    /\ UNCHANGED number

(* attention, set_central ("basic") and gap_scan                           *)
Command(c) ==
    /\ pc = "idle"
    /\ command' = c /\ pc' = "writing" /\ number' = number + 1
    /\ parser' = IF c = "scan" THEN ScanResponse ELSE AtResponse
    /\ UNCHANGED <<streamVars, kept, garbled, result, upset>>

(* write_command: the streams write all or fail.                           *)
Write ==
    /\ pc = "writing"
    /\ pc' = "reading"
    /\ Hears(number) /\ garbled' = FALSE
    /\ UNCHANGED <<driver, rx_packet, rx_start, rx_end, reading, reply>>
    /\ UNCHANGED <<command, number, parser, kept, result, upset>>

(* The write fails or its caller drops it: the device has heard all of the *)
(* command, a part, or nothing.                                            *)
WriteBroken(how) ==
    /\ pc = "writing"
    /\ Finish(how, 0) /\ upset' = TRUE
    /\ \/ Hears(number) /\ garbled' = FALSE
       \/ UNCHANGED wire /\ garbled' = TRUE
       \/ UNCHANGED <<wire, garbled>>
    /\ UNCHANGED <<driver, rx_packet, rx_start, rx_end, reading, reply, kept>>

(* read_response, the read. The buffer is empty then, so there is room.    *)
KeepReply ==
    /\ pc = "reading" /\ kept = <<>>
    /\ kept' = IF reading' = 0 THEN reply'.bytes ELSE kept
    /\ UNCHANGED <<command, pc, number, parser, garbled, result, upset>>

StartRead == ReadCall(RxBytes) /\ KeepReply

Read == Receive /\ KeepReply

ReadBroken(how) ==
    /\ pc = "reading" /\ kept = <<>> /\ Broken(how)
    /\ Finish(how, 0) /\ upset' = TRUE
    /\ UNCHANGED <<kept, garbled>>

(* read_response, the parser on what is buffered. Its error leaves by `?`, *)
(* before consume_buffered.                                                *)
Parse ==
    /\ pc = "reading" /\ kept # <<>>
    /\ LET p == Parsed
       IN  IF p.end = "Pending"
           THEN kept' = From(kept, p.used) /\ parser' = p
                /\ UNCHANGED <<command, pc, number, result, upset>>
           ELSE /\ Finish(p.end, p.of)
                /\ IF p.end \in Terminal
                   THEN kept' = From(kept, p.used) /\ UNCHANGED upset
                   ELSE UNCHANGED kept /\ upset' = TRUE
    /\ UNCHANGED <<streamVars, garbled>>

ClientStep ==
    Write \/ WriteBroken("failed") \/ StartRead \/ Read \/ ReadBroken("failed") \/ Parse

(***************************************************************************)
(* Any caller: commands in any order, dropped at any await, and into_inner *)
(* with or without calls of the stream, and a new client.                  *)
(***************************************************************************)
Rewrap ==
    /\ pc = "idle" /\ kept' = <<>>
    /\ ResetDataToggles \/ Purge \/ PurgeBroken \/ UNCHANGED streamVars
    /\ UNCHANGED <<command, pc, number, parser, garbled, result, upset>>

AnyCaller ==
    /\ caller = "any"
    /\ \/ number < MaxCommands /\ \E c \in {"basic", "scan"} : Command(c)
       \/ ClientStep \/ WriteBroken("dropped") \/ ReadBroken("dropped") \/ Rewrap
    /\ UNCHANGED <<caller, phase, leased, own>>

(***************************************************************************)
(* The application: run and wait_for_root_removal                          *)
(***************************************************************************)
Free == 1..2            \* bound: the addresses of the bus

Script == <<"basic", "basic", "scan">>

(* A connection at full speed; one at another speed is ignored.            *)
Connect ==
    /\ caller = "app" /\ phase = "waiting" /\ phase' = "enumerating"
    /\ UNCHANGED <<streamVars, caller, leased, own, clientVars>>

(* enumerate takes an address; an error of it may leave the address taken. *)
Enumerate ==
    /\ caller = "app" /\ phase = "enumerating"
    /\ \E address \in Free \ leased :
          \/ phase' \in {"session", "served"} /\ leased' = leased \cup {address} /\ own' = address
          \/ phase' = "unknown" /\ leased' \in {leased, leased \cup {address}} /\ own' = 0
    /\ UNCHANGED <<streamVars, caller, clientVars>>

(* The session ends with its first error, after SESSION_TIMEOUT, or with   *)
(* the last answer.                                                        *)
Lost == upset \/ result.end = "Error"

NextCommand == number < 3 /\ ~Lost /\ Command(Script[number + 1])

Session ==
    /\ caller = "app" /\ phase = "session"
    /\ NextCommand \/ ClientStep
    /\ UNCHANGED <<caller, phase, leased, own>>

Leave ==
    /\ caller = "app" /\ phase = "session"
    /\ pc = "idle" /\ (number = 3 \/ Lost)
    /\ phase' = "served"
    /\ UNCHANGED <<streamVars, caller, leased, own, clientVars>>

(* Mutated form: the timeout covers the writes only.                       *)
TimeoutOfWrites ==
    /\ caller = "app" /\ phase = "session" /\ pc # "idle"
    /\ WriteBroken("dropped")
    /\ phase' = "served"
    /\ UNCHANGED <<caller, leased, own>>

Timeout ==
    /\ caller = "app" /\ phase = "session" /\ pc # "idle"
    /\ WriteBroken("dropped") \/ ReadBroken("dropped")
    /\ phase' = "served"
    /\ UNCHANGED <<caller, leased, own>>

(* Mutated form: a failed enumeration gives no address back.               *)
StillLeasedSome == leased \ {own}

(* What is not given back once the device has left and every pipe is       *)
(* dropped: after a failed enumeration every address is, and otherwise the *)
(* device's own.                                                           *)
StillLeased == IF phase = "unknown" THEN {} ELSE leased \ {own}

(* The device leaves, and everything of the session is dropped.            *)
Removal ==
    /\ caller = "app" /\ phase \in {"served", "unknown"}
    /\ phase' = "waiting" /\ leased' = StillLeased /\ own' = 0
    /\ rx_packet' = <<>> /\ rx_start' = 0 /\ rx_end' = 0 /\ reading' = 0 /\ wire' = <<>>
    /\ reply' = [call |-> "cleared", bytes |-> <<>>]
    /\ command' = "none" /\ pc' = "idle" /\ number' = 0 /\ parser' = AtResponse /\ kept' = <<>>
    /\ garbled' = FALSE /\ result' = [end |-> "none", of |-> 0] /\ upset' = FALSE
    /\ UNCHANGED <<driver, caller>>

Init ==
    /\ StreamInit /\ ClientInit /\ leased = {} /\ own = 0
    /\ \/ caller = "any" /\ phase = "session"
       \/ caller = "app" /\ phase = "waiting" /\ driver = "cdc"

Next == AnyCaller \/ Connect \/ Enumerate \/ Session \/ Leave \/ Timeout \/ Removal

(* The executor polls the session: it takes its own steps, and its timer   *)
(* fires. The device need not answer, and no call need fail.               *)
Polled == Session /\ (NextCommand \/ StartRead \/ Parse)

Fairness == WF_vars(Polled) /\ WF_vars(Timeout) /\ WF_vars(Leave)

Spec == Init /\ [][Next]_vars /\ Fairness

(***************************************************************************)
(* Properties                                                              *)
(***************************************************************************)
AtEnds == {"Pending", "Ok", "Error", "Overflow"}
ScanEnds ==
    {"Pending", "Complete", "LineOverflow", "MalformedDeviceLine", "DeviceError",
     "UnexpectedDevice", "UnexpectedComplete", "NoDevice"}

(* The parsers hold no more than their buffers do.                         *)
AtAccumulator ==
    [len : 0..MaxResponse, line : Seq(AnyWord), end : AtEnds, of : Nat, used : Nat]
ScanAccumulator ==
    [line : {line \in Seq(AnyWord) : Len(line) <= MaxLine}, end : ScanEnds, of : Nat,
     used : Nat, scanning : BOOLEAN, device : BOOLEAN]
Accumulator == IF command = "scan" THEN ScanAccumulator ELSE AtAccumulator

TypeOK ==
    /\ StreamOK /\ caller \in {"app", "any"}
    /\ phase \in {"waiting", "enumerating", "session", "served", "unknown"}
    /\ leased \subseteq Free /\ own \in Free \cup {0}
    /\ command \in {"none"} \cup DOMAIN Responses /\ pc \in {"idle", "writing", "reading"}
    /\ (command = "none" <=> pc = "idle")
    /\ reading \in {0, RxBytes} /\ (reading # 0 => kept = <<>>)
    /\ kept \in Seq(Byte) /\ Len(kept) <= RxBytes /\ number \in 0..(MaxCommands + 3)
    /\ garbled \in BOOLEAN /\ upset \in BOOLEAN /\ parser \in Accumulator
    /\ result \in [end : AtEnds \cup ScanEnds \cup {"none", "failed", "dropped"}, of : Nat]

(* Between read and the parser no byte is lost, repeated or reordered,     *)
(* whatever the sizes of packets and buffers: the stream is a ByteChannel. *)
ImplementsChannel == Channel!Spec

(* As long as every command has got its terminal line, a command ends with *)
(* a line of its own answer, however the packets cut the answers.          *)
AnswersMatch ==
    [][pc = "reading" /\ pc' = "idle" /\ result'.end \in Terminal /\ ~upset
       => result'.of = number]_vars

(* "Parsers consume bytes as they inspect them": when a command begins,    *)
(* the terminal line of the one before is not left for it to read.         *)
NothingLeftBehind ==
    [][pc = "idle" /\ pc' = "writing" /\ result.end \in Terminal \cup {"NoDevice", "DeviceError"}
       => \A i \in DOMAIN kept : kept[i].of = number => kept[i].word \notin {"ERROR", "COMPLETE"}]_vars

(* Every enumeration finds all addresses free, and while a device is       *)
(* served its own is the only one taken: the two ways of giving addresses  *)
(* back leave none behind between them.                                    *)
AddressesReturn ==
    caller = "app" =>
        /\ phase \in {"waiting", "enumerating"} => leased = {}
        /\ phase \in {"session", "served"} => leased = {own}

(* A parser consumes no more than there is, and all of it if it is not at  *)
(* an end: read_response never returns ContractViolation for it.           *)
ParsersConsume ==
    pc = "reading" =>
        /\ Parsed.used \in 0..Len(kept)
        /\ Parsed.end = "Pending" => Parsed.used = Len(kept)

(* What is ahead of the parser: buffered by the client, by the driver, or  *)
(* still to be sent.                                                       *)
Ahead == kept \o (Unread \o wire)

Quiet(symbols) == \A i \in DOMAIN symbols : symbols[i].word \notin TerminalWords

(* The symbols are those of an answer from its place n + 1 on, after those *)
(* of the answer before it that stand at places below 1.                   *)
Follows(symbols, words, n) ==
    \A i \in DOMAIN symbols :
        IF n + i >= 1 THEN symbols[i] = [word |-> words[n + i], of |-> number]
        ELSE symbols[i].word \notin TerminalWords

(* The line ends with place n of an answer.                                *)
Traced(line, words, n) ==
    \A i \in DOMAIN line :
        LET place == n - Len(line) + i
        IN  IF place >= 1 THEN line[i] = words[place] ELSE line[i] \notin TerminalWords

(* All of the answer that the parser has not read is ahead.                *)
Arrives(words) ==
    LET n == Len(words) - Len(Ahead)
    IN  Follows(Ahead, words, n) /\ Traced(parser.line, words, n)

(* Between two commands nothing is ahead that ends an answer; and while    *)
(* one is at work, its own answer is ahead.                                *)
AnswersInTurn ==
    ~upset =>
        /\ ~garbled
        /\ pc # "reading" => Quiet(Ahead)
        /\ pc # "idle" => parser.end = "Pending"
        /\ pc = "writing" => parser.line = <<>>
        /\ pc = "reading" => \E words \in Responses[command] : Arrives(words)

(* Every variable has its type, the driver's buffer is empty when it is    *)
(* read out, parsers consume what there is, answers come in turn, and an   *)
(* enumeration always finds an address.                                    *)
ApplicationInv == TypeOK /\ ParsersConsume /\ AnswersInTurn /\ AddressesReturn

(* Every session ends once its device is gone or its work is done.         *)
SessionsEnd == phase = "session" /\ caller = "app" ~> phase = "served"
=============================================================================
