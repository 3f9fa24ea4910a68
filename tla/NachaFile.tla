------------------------------- MODULE NachaFile -------------------------------
(***************************************************************************)
(* ParseFile of the NACHA package, one step per line of the file, and      *)
(* GenerateReturnFile, whose files the simulator parses back.  A line is a *)
(* record of the fields the parser takes from it; the properties compare   *)
(* the loop with a definition of what a file says that has no loop.        *)
(***************************************************************************)
EXTENDS Naturals, Sequences, FiniteSets

CONSTANTS
  Traces,        \* trace numbers
  Codes,         \* return codes
  Cents,         \* amounts
  AmountLimit,   \* 10 ^ 10: the amounts the ten digits of the field can say
  MaxLines       \* bound: lines of a file that is not a given one

NoRCode   == "no code"
NoEntry   == << >>
Malformed == "malformed"

ASSUME LimitAssumption ==
  /\ AmountLimit \in Nat \ {0}
  /\ Cents \subseteq Nat
  /\ Malformed \notin Codes

(***************************************************************************)
(* The lines, by the character in position 1: a file header with its       *)
(* priority code right or wrong, an entry with its amount (and whether it  *)
(* is a number), an addenda with its code (Malformed if its type is not 99 *)
(* or its code not 3 long), and lines that are skipped (blank, short) or   *)
(* of no known type.                                                       *)
(***************************************************************************)
Header(priority)     == [type |-> "1", priority |-> priority]
Entry(trace, amount) ==
  [type |-> "6", trace |-> trace, amount |-> amount, number |-> TRUE]
Addenda(code)        == [type |-> "7", code |-> code]
Plain(type)          == [type |-> type]

BatchHeader  == Plain("5")
BatchControl == Plain("8")
FileControl  == Plain("9")

\* padLeft: a number too long for the field loses its leading digits.
AmountField(amount) == amount % AmountLimit

Lines ==
  { Header("01"), Header(Malformed) }
  \cup { [Entry(t, AmountField(a)) EXCEPT !.number = n] :
           t \in Traces, a \in Cents, n \in BOOLEAN }
  \cup { Addenda(c) : c \in Codes \cup {Malformed} }
  \cup { Plain(type) : type \in { "5", "8", "9", "short", "unknown" } }

\* Mutant: the addenda precedes its entry.
MutAddendaFirst(trace, amount, code) ==
  << Header("01"), BatchHeader, Addenda(code), Entry(trace, AmountField(amount)),
     BatchControl, FileControl >>

GenerateReturnFile(trace, amount, code) ==
  << Header("01"), BatchHeader, Entry(trace, AmountField(amount)),
     Addenda(code), BatchControl, FileControl >>

VARIABLES
  given,     \* AnyFile, or the file that is parsed
  file,      \* the lines read so far
  entries,   \* the entries found
  pending,   \* the entry that waits for its addenda
  result     \* "parsing", "ok" or "error"

parser == << given, file, entries, pending, result >>

AnyFile == << >>

Calls == [trace : Traces, amount : Cents, code : Codes]

Generated(call) == GenerateReturnFile(call.trace, call.amount, call.code)

NInit ==
  /\ given \in {AnyFile} \cup { Generated(call) : call \in Calls }
  /\ file = << >>
  /\ entries = << >>
  /\ pending = NoEntry
  /\ result = "parsing"

\* ParseFile is called with f.
ParseFile(f) ==
  /\ given' = f
  /\ file' = << >>
  /\ entries' = << >>
  /\ pending' = NoEntry
  /\ result' = "parsing"

\* The lines of the file that is read: of the given one, or any.
InFile(line) ==
  IF given = AnyFile
    THEN Len(file) < MaxLines
    ELSE Len(file) < Len(given) /\ line = given[Len(file) + 1]

Read(line) ==
  /\ result = "parsing"
  /\ InFile(line)
  /\ file' = Append(file, line)
  /\ UNCHANGED given

\* return nil, err: what was found before is not returned either.
Refuse ==
  /\ result' = "error"
  /\ entries' = << >>
  /\ UNCHANGED pending

Skip(line) ==
  /\ line.type = "short"
  /\ Read(line)
  /\ UNCHANGED << entries, pending, result >>

FileHeader(line) ==
  /\ line.type = "1"
  /\ Read(line)
  /\ IF line.priority = "01" THEN UNCHANGED << entries, pending, result >>
                             ELSE Refuse

\* Mutant: a type-6 record replaces a pending entry.
MutDropPending(line) ==
  /\ line.type = "6"
  /\ Read(line)
  /\ IF ~ line.number THEN Refuse
     ELSE /\ pending' = << [trace |-> line.trace, amount |-> line.amount,
                            code |-> NoRCode] >>
          /\ UNCHANGED << entries, result >>

\* Type 6: the entry before it had no addenda and is kept as it is.
EntryDetail(line) ==
  /\ line.type = "6"
  /\ Read(line)
  /\ IF ~ line.number THEN Refuse
     ELSE /\ entries' = entries \o pending
          /\ pending' = << [trace |-> line.trace, amount |-> line.amount,
                            code |-> NoRCode] >>
          /\ UNCHANGED result

\* Type 7: only after an entry that has no addenda yet.
AddendaRecord(line) ==
  /\ line.type = "7"
  /\ Read(line)
  /\ IF pending = NoEntry \/ line.code = Malformed THEN Refuse
     ELSE /\ entries' = Append(entries, [pending[1] EXCEPT !.code = line.code])
          /\ pending' = NoEntry
          /\ UNCHANGED result

\* Types 5, 8 and 9: the pending entry is kept without a code.
Flush(line) ==
  /\ line.type \in {"5", "8", "9"}
  /\ Read(line)
  /\ entries' = entries \o pending
  /\ pending' = NoEntry
  /\ UNCHANGED result

UnknownType(line) ==
  /\ line.type = "unknown"
  /\ Read(line)
  /\ Refuse

EndOfFile ==
  /\ result = "parsing"
  /\ given # AnyFile => \A line \in Lines : ~ InFile(line)
  /\ entries' = entries \o pending
  /\ pending' = NoEntry
  /\ result' = "ok"
  /\ UNCHANGED << given, file >>

NNext ==
  \/ \E line \in Lines :
       \/ Skip(line)
       \/ FileHeader(line)
       \/ EntryDetail(line)
       \/ AddendaRecord(line)
       \/ Flush(line)
       \/ UnknownType(line)
  \/ EndOfFile

NSpec == NInit /\ [][NNext]_parser

-----------------------------------------------------------------------------

IsEntry(line) == line.type = "6"

\* The records that end an entry.
Closes(line) == line.type \in {"5", "6", "7", "8", "9"}

\* The position of the record that closes the entry at i, or 0.
ClosedBy(i) ==
  LET after == { j \in i + 1 .. Len(file) : Closes(file[j]) }
  IN  IF after = {} THEN 0 ELSE CHOOSE j \in after : \A k \in after : j <= k

\* What the entry at position i says.
Said(i) ==
  LET j == ClosedBy(i)
  IN  [trace |-> file[i].trace, amount |-> file[i].amount,
       code |-> IF j # 0 /\ file[j].type = "7" THEN file[j].code ELSE NoRCode]

\* A line that makes the file unreadable where it stands.
Bad(i) ==
  \/ file[i].type = "unknown"
  \/ file[i] = Header(Malformed)
  \/ IsEntry(file[i]) /\ ~ file[i].number
  \/ /\ file[i].type = "7"
     /\ \/ file[i].code = Malformed
        \/ ~ \E k \in 1 .. i - 1 : IsEntry(file[k]) /\ ClosedBy(k) = i

\* parser.go 36-125: a file that is read to its end gives each of its entries
\* once, in their order, with the code of its own addenda or none; a bad line
\* anywhere gives nothing at all.
ParsedAsSaid ==
  LET at == { i \in DOMAIN file : IsEntry(file[i]) }
  IN  /\ result = "ok" =>
           /\ Len(entries) = Cardinality(at)
           /\ \A i \in at :
                entries[Cardinality({ k \in at : k <= i })] = Said(i)
      /\ (\E i \in DOMAIN file : Bad(i)) <=> result = "error"
      /\ result = "error" => entries = << >>

\* generator.go 13-118, return_simulator.go 56-70: a generated file is always
\* readable, has one entry with its trace and code, and gives the amount back
\* exactly if it fits the field, so that the simulator's comparison finds
\* every amount the field has cut.
RoundTrip ==
  \A call \in Calls :
    given = Generated(call) /\ result # "parsing" =>
      /\ result = "ok"
      /\ Len(entries) = 1
      /\ entries[1].trace = call.trace
      /\ entries[1].code = call.code
      /\ entries[1].amount = call.amount <=> call.amount < AmountLimit
===============================================================================
