---- MODULE ChannelRecord ----
(***************************************************************************)
(* One channel of a server that reports itself as an EPICS record: its     *)
(* ChannelData (caproto/_data.py), the pvproperty machinery around it      *)
(* (PvpropertyData in caproto/server/server.py) and the fields of the      *)
(* record (caproto/server/records), with the clients that put and get VAL  *)
(* and the fields, the alarm they acknowledge, and the periodic scan.      *)
(*                                                                         *)
(* Under asyncio everything a write does runs without a break, except the  *)
(* putter the user gave VAL: a write of VAL, and of the fields that write  *)
(* VAL (PROC, RVAL, the state strings), is suspended in that putter while  *)
(* others run, and resumes with whatever the putter decided.               *)
(*                                                                         *)
(* A value is a number, a text, or bytes that nothing has decoded.  The    *)
(* limits, the precision, the deadbands and the description are attributes *)
(* of the channel; DISP, ASG, INP and the like are just stored.            *)
(* Timestamps, units and display limits, which no field shows, are left    *)
(* out, and the puts to fields are those of native types, which carry no   *)
(* metadata.                                                               *)
(***************************************************************************)
EXTENDS RecordFields

CONSTANTS
  None,         \* no suspended write, no cached alarm
  RecordTypes,  \* the record types explored
  Written,      \* those of them whose VAL is written
  PutsTo,       \* PutsTo[r]: the fields of record type r that clients put to
  Writers,      \* the coroutines that may be inside a write of VAL
  Values,       \* the numbers put to VAL
  FieldValues,  \* the numbers put to fields
  Strings,      \* the texts put to fields
  Metadata,     \* what the DBR types of the puts to VAL carry beside the value
  MaxWrites,    \* bound on the writes of VAL
  MaxPuts       \* MaxPuts[r]: bound on the puts to the fields of a record of type r

ASSUME RecordAssumption ==
  /\ RecordTypes \subseteq DOMAIN records
  /\ Written \subseteq RecordTypes
  /\ \A r \in RecordTypes : PutsTo[r] \subseteq FieldsOf[r]

VARIABLES
  record,        \* reported_record_type, fixed
  value,         \* _data['value']
  attributes,    \* the limits, precision and deadbands, and __doc__
  enum_strings,  \* _data['enum_strings'] of an enum channel
  alarm,         \* its ChannelAlarm
  cached,        \* _status and _severity, found by verify_value, not yet written
  stored,        \* the values of the fields, where they are not what they were at first
  alarmFields,   \* what STAT, SEVR, ACKS and ACKT were last written with
  fieldAlarm,    \* the status of the ChannelAlarm that all the fields share
  scan_rate,     \* _scan_rate_sec: 0, or 1 for a periodic rate
  writing,       \* the write each coroutine is suspended in
  writes, puts   \* how many there were

vars == <<record, value, attributes, enum_strings, alarm, cached, stored, alarmFields, fieldAlarm,
          scan_rate, writing, writes, puts>>

----------------------------------------------------------------------------
(* Values and channels *)

Num(n) == [kind |-> "number", n |-> n, s |-> ""]
Str(s) == [kind |-> "text", n |-> 0, s |-> s]

\* The strings of a DBR_GR_ENUM or DBR_CTRL_ENUM stay the bytes they arrive as: only units are decoded
\* (dbr_metadata_to_dict).  Python's str() of bytes is a text, but not the one they encode.
Bytes(s) == [kind |-> "bytes", n |-> 0, s |-> s]
AsText(v) == IF v.kind = "bytes" THEN [kind |-> "repr", n |-> 0, s |-> v.s] ELSE v

\* A record whose data type the user chooses is taken to hold floating point numbers.
Numeric(r) == records[r].dtype \in {"DOUBLE", "LONG", "ANY"}
Enum(r) == records[r].dtype = "ENUM"

NumericAttributes ==
  {"upper_alarm_limit", "lower_alarm_limit", "upper_warning_limit", "lower_warning_limit",
   "upper_ctrl_limit", "lower_ctrl_limit", "value_atol", "log_atol"}

\* ChannelNumeric, ChannelDouble and the others: what a channel of the record's type has.
AttributesOf(r) ==
  {"__doc__"} \cup (IF Numeric(r) THEN NumericAttributes ELSE {})
              \cup (IF records[r].dtype \in {"DOUBLE", "ANY"} THEN {"precision"} ELSE {})

\* The severity fields and their defaults.
DefaultSeverity == [HHSV |-> 2, HSV |-> 1, LLSV |-> 2, LSV |-> 1]

\* AlarmStatus.  A channel comes to a few of them by itself, a client may give it any.
Statuses ==
  {"NO_ALARM", "READ", "WRITE", "HIHI", "HIGH", "LOLO", "LOW", "STATE", "COS", "COMM", "TIMEOUT",
   "HWLIMIT", "CALC", "SCAN", "LINK", "SOFT", "BAD_SUB", "UDF", "DISABLE", "SIMM", "READ_ACCESS",
   "WRITE_ACCESS"}
Severities == 0 .. 3

\* The metadata of a native type, and of every write that does not come from a client.
NoMetadata == [attributes |-> <<>>, status |-> None, severity |-> None, enum_strings |-> None]

\* What the proofs take from the values, and from the tables of RecordFields.
ASSUME ValueAssumption ==
  /\ Values \subseteq Int /\ FieldValues \subseteq Int
  /\ None \notin [status : Statuses, severity : Int] /\ None \notin Statuses /\ None \notin Int
  /\ None \notin [kind : {"number", "text", "bytes", "repr"}, n : Int, s : Strings \cup {"", "a", "b"}]
ASSUME MetadataAssumption ==
  \A md \in Metadata :
    /\ \A a \in DOMAIN md.attributes : md.attributes[a].n \in Int /\ md.attributes[a] = Num(md.attributes[a].n)
    /\ md.status \in Statuses \cup {None}
    /\ md.severity \in Severities \cup {None}
    /\ md.enum_strings # None => md.enum_strings \in Seq({Bytes(s) : s \in Strings})
ASSUME TableAssumption ==
  \A r \in RecordTypes : \A f \in DOMAIN StateStrings[r] :
    /\ Enum(r) /\ StateStrings[r][f] \in Nat
    /\ f \notin {"RVAL"} \cup DOMAIN DefaultSeverity \cup DOMAIN ParentLinks[r]

NO_ALARM == "NO_ALARM"
MAJOR_ALARM == 2

\* Mutant: the severity to acknowledge follows every change of the severity.
AlarmWrite_Follows(a, status, severity) ==
  [a EXCEPT !.status = IF status = None THEN @ ELSE status,
            !.severity = IF severity = None THEN @ ELSE severity,
            !.acks = IF severity # None /\ (~a.ackt \/ a.acks # severity) THEN severity ELSE @]

\* ChannelAlarm.write with a status and a severity, or either alone.
AlarmWrite(a, status, severity) ==
  [a EXCEPT !.status = IF status = None THEN @ ELSE status,
            !.severity = IF severity = None THEN @ ELSE severity,
            !.acks = IF severity # None /\ (~a.ackt \/ a.acks < severity) THEN severity ELSE @]

\* RecordFieldGroup.publish, called whenever the alarm publishes: the fields are written with it.
Shown(a) == [STAT |-> a.status, SEVR |-> a.severity, ACKS |-> a.acks, ACKT |-> a.ackt]

Init ==
  /\ record \in RecordTypes
  /\ value = IF Enum(record) THEN Str("a") ELSE IF Numeric(record) THEN Num(1) ELSE Str("")
  /\ attributes = [a \in AttributesOf(record) |-> IF a = "__doc__" THEN Str("") ELSE Num(0)]
  /\ enum_strings = IF Enum(record) THEN <<Str("a"), Str("b")>> ELSE <<>>
  /\ alarm = [status |-> NO_ALARM, severity |-> 0, ackt |-> TRUE, acks |-> 0]
  /\ cached = None
  /\ stored = <<>>
  /\ alarmFields = Shown(alarm)
  /\ fieldAlarm = NO_ALARM
  /\ scan_rate = 0
  /\ writing = [w \in Writers |-> None]
  /\ writes = 0 /\ puts = 0

----------------------------------------------------------------------------
(* ChannelData.write *)

\* The value of a field is kept only where it differs from the one the field starts with.
Default(f) ==
  IF f \in DOMAIN DefaultSeverity THEN Num(DefaultSeverity[f])
  ELSE IF f \in records[record].text THEN Str("") ELSE Num(0)

Stored(f) == IF f \in DOMAIN stored THEN stored[f] ELSE Default(f)

Store(fields, f, v) ==
  IF v = Default(f) THEN [g \in DOMAIN fields \ {f} |-> fields[g]]
  ELSE [g \in DOMAIN fields \cup {f} |-> IF g = f THEN v ELSE fields[g]]

\* limit_checker: where a value lies between two limits, which count only if they differ.
Beyond(v, lower, upper) ==
  LET lo == attributes[lower].n
      hi == attributes[upper].n
  IN CASE lo # hi /\ v <= lo -> "low"
       [] lo # hi /\ v > lo /\ hi <= v -> "high"
       [] OTHER -> "inside"

\* ChannelNumeric.verify_value: the alarm limits first, then the warning limits.
LimitAlarm(v) ==
  LET a == Beyond(v, "lower_alarm_limit", "upper_alarm_limit")
      w == Beyond(v, "lower_warning_limit", "upper_warning_limit")
      as(status, field) == [status |-> status, severity |-> Stored(field).n]
  IN CASE a = "low" -> as("LOLO", "LLSV")
       [] a = "high" -> as("HIHI", "HHSV")
       [] a = "inside" /\ w = "low" -> as("LOW", "LSV")
       [] a = "inside" /\ w = "high" -> as("HIGH", "HSV")
       [] OTHER -> [status |-> NO_ALARM, severity |-> 0]

\* CannotExceedLimits: the control limits, which count only if they differ.
ExceedsLimits(v) ==
  LET lo == attributes["lower_ctrl_limit"].n
      hi == attributes["upper_ctrl_limit"].n
  IN lo # hi /\ ~(lo <= v /\ v <= hi)

\* ChannelEnum.verify_value: an index becomes the string of that state.
EnumValue(v, strings) ==
  IF v.kind = "number" /\ v.n + 1 \in DOMAIN strings THEN strings[v.n + 1] ELSE v

\* ChannelEnum.get_raw_value: the index of a string, -1 for None.
RawValue(v, strings) ==
  LET at == {i \in DOMAIN strings : v = strings[i]}
  IN IF at = {} THEN -1 ELSE (CHOOSE i \in at : \A j \in at : i <= j) - 1

\* The write of a field once its putter is done.  Numeric fields evaluate their own (zero) limits and
\* so clear the alarm that the fields share; the others leave it.
FieldStored(f, v) ==
  /\ stored' = Store(stored, f, v)
  /\ fieldAlarm' = IF f \in records[record].number THEN NO_ALARM ELSE fieldAlarm

\* Mutant: the failure is not published.
WriteFails_Quietly(via) ==
  /\ alarm' = AlarmWrite(alarm, "WRITE", MAJOR_ALARM)
  /\ cached' = None
  /\ fieldAlarm' = IF via = "VAL" THEN fieldAlarm ELSE "WRITE"
  /\ UNCHANGED alarmFields

\* A write of VAL that raises: the alarm says so, and so does that of the field that asked for it.
WriteFails(via) ==
  /\ alarm' = AlarmWrite(alarm, "WRITE", MAJOR_ALARM)
  /\ alarmFields' = Shown(alarm')
  /\ cached' = None
  /\ fieldAlarm' = IF via = "VAL" THEN fieldAlarm ELSE "WRITE"

\* Any other write that begins or ends, or changes what a write has read, overlaps the suspended ones.
Overlapped(pending) ==
  [w \in Writers |-> IF pending[w] = None THEN None ELSE [pending[w] EXCEPT !.alone = FALSE]]

\* The write of VAL up to the user's putter: preprocess_value and verify_value.  It was asked for by
\* a put of `put` to the field `via`; a client's put to VAL itself brings the metadata md.
BeginWrite(w, v, via, put, strings, md) ==
  /\ writing[w] = None
  /\ writes < MaxWrites
  /\ writes' = writes + 1
  /\ IF Numeric(record) /\ ExceedsLimits(v.n)
       THEN /\ WriteFails(via)
            /\ writing' = Overlapped(writing)
       ELSE /\ cached' = IF Numeric(record) THEN LimitAlarm(v.n) ELSE cached
            /\ writing' = [Overlapped(writing) EXCEPT ![w] =
                 [val |-> v, new |-> EnumValue(v, strings), via |-> via, put |-> put, md |-> md,
                  alone |-> \A u \in Writers : writing[u] = None]]
            /\ UNCHANGED <<alarm, alarmFields, fieldAlarm>>

\* Mutant: the severities are compared instead of the status.
Collected_BySeverity == IF cached # None /\ cached.severity # alarm.severity THEN cached ELSE None

\* _collect_alarm: the cached alarm, if its status is not the one the channel already has.
Collected == IF cached # None /\ cached.status # alarm.status THEN cached ELSE None

\* Mutant: index 0 is taken for no index.
RawStored_Truthy(fields, modified) ==
  IF Enum(record) /\ RawValue(modified, enum_strings) > 0
    THEN Store(fields, "RVAL", Num(RawValue(modified, enum_strings))) ELSE fields

\* value_write_hook: the enum records keep RVAL with VAL, if the value is one of the states.
RawStored(fields, modified) ==
  IF Enum(record) /\ RawValue(modified, enum_strings) # -1
    THEN Store(fields, "RVAL", Num(RawValue(modified, enum_strings))) ELSE fields

\* The field whose put asked for the write is written last.
ViaStored(fields, p) == IF p.via = "VAL" THEN fields ELSE Store(fields, p.via, p.put)
ViaAlarm(p) == IF p.via \in records[record].number THEN NO_ALARM ELSE fieldAlarm

\* The rest of a write of VAL whose putter accepted it: the value becomes the one that the putter
\* returned, or that was put when it returned None.  The hook runs before the metadata is written; an
\* alarm found for the value that was put overrides the one the client gave.
FinishWrite(w, returned) ==
  LET p == writing[w]
      given == p.md.attributes
      status == IF Collected = None THEN p.md.status ELSE Collected.status
      severity == IF Collected = None THEN p.md.severity ELSE Collected.severity
  IN /\ value' = IF returned = None THEN p.val ELSE returned
     /\ stored' = ViaStored(RawStored(stored, returned), p)
     /\ fieldAlarm' = ViaAlarm(p)
     /\ cached' = None
     /\ attributes' = [a \in DOMAIN attributes |-> IF a \in DOMAIN given THEN given[a] ELSE attributes[a]]
     /\ enum_strings' = IF p.md.enum_strings = None THEN enum_strings ELSE p.md.enum_strings
     /\ IF status = None /\ severity = None
          THEN UNCHANGED <<alarm, alarmFields>>
          ELSE /\ alarm' = AlarmWrite(alarm, status, severity)
               /\ alarmFields' = Shown(alarm')

\* A putter that skips the write (SkipWrite): the field that asked for it is written all the same.
SkipTheWrite(w) ==
  /\ stored' = ViaStored(stored, writing[w])
  /\ fieldAlarm' = ViaAlarm(writing[w])
  /\ cached' = None
  /\ UNCHANGED <<value, attributes, enum_strings, alarm, alarmFields>>

Ended(w) ==
  /\ writing[w] # None
  /\ writing' = [Overlapped(writing) EXCEPT ![w] = None]
  /\ UNCHANGED <<record, scan_rate, writes, puts>>

\* What the user's putter may return: the value it was given, or another for a channel of this type.
Returnable(w) ==
  {writing[w].new} \cup
    IF Numeric(record) THEN {Num(n) : n \in Values}
    ELSE {enum_strings[i] : i \in DOMAIN enum_strings} \cup {Str(s) : s \in Strings}

PutterReturns(w) == Ended(w) /\ \E returned \in Returnable(w) : FinishWrite(w, returned)
PutterReturnsNone(w) == Ended(w) /\ FinishWrite(w, None)
PutterSkips(w) == Ended(w) /\ SkipTheWrite(w)
PutterFails(w) ==
  Ended(w) /\ WriteFails(writing[w].via) /\ UNCHANGED <<value, attributes, enum_strings, stored>>

----------------------------------------------------------------------------
(* The clients *)

\* Only the record types of Written have their VAL, alarm and scan explored.
Explored == record \in Written

\* write_from_dbr: a put to VAL with the metadata of its DBR type.  The conversion from the wire
\* refuses an ENUM where there are no states, and an index that names none; any other number is taken.
PutVal(w, n, md) ==
  /\ Explored
  /\ md.enum_strings # None => Enum(record) /\ n + 1 \in DOMAIN enum_strings
  /\ BeginWrite(w, Num(n), "VAL", Num(n), enum_strings, md)
  /\ UNCHANGED <<record, value, attributes, enum_strings, stored, scan_rate, puts>>

\* check_access: the fields a client may put to, and the ones of them explored.
MayPut(f) ==
  /\ f \in PutsTo[record] \ records[record].ro
  /\ puts < MaxPuts[record]
  /\ puts' = puts + 1

\* The values a client can put to a field; a menu refuses an index it does not have.
PutValues(f) ==
  CASE f \in records[record].text -> {Str(s) : s \in Strings}
    [] f \in records[record].menu -> {Num(n) : n \in FieldValues \cap Severities}
    [] OTHER -> {Num(n) : n \in FieldValues}

\* The fields with a putter of their own, which are actions of their own.
Special == {"PROC", "SCAN"} \cup DOMAIN StateStrings[record] \cup IF Enum(record) THEN {"RVAL"} ELSE {}

\* link_parent_attribute: the putter hands the value to write_metadata or setattr, which ignore an
\* attribute the channel does not have.
LinkedWrite(f, v) ==
  IF f \in DOMAIN ParentLinks[record] /\ ParentLinks[record][f] \in DOMAIN attributes
    THEN attributes' = [attributes EXCEPT ![ParentLinks[record][f]] = v]
    ELSE UNCHANGED attributes

\* A put to a field that stores it, and hands it on if the field is linked.
PutField(f, v) ==
  /\ MayPut(f) /\ f \notin Special
  /\ LinkedWrite(f, v)
  /\ FieldStored(f, v)
  /\ writing' = Overlapped(writing)
  /\ UNCHANGED <<record, value, enum_strings, alarm, cached, alarmFields, scan_rate, writes>>

\* A put of more elements than the field holds: preprocess_value raises, and the alarm that all the
\* fields share says so.
PutTooLong(f) ==
  /\ MayPut(f)
  /\ fieldAlarm' = "WRITE"
  /\ UNCHANGED <<record, value, attributes, enum_strings, alarm, cached, stored, alarmFields,
                 scan_rate, writing, writes>>

\* What a client that reads a field is given.
Visible(f) ==
  IF f \in DOMAIN ParentLinks[record]
    THEN IF ParentLinks[record][f] \in DOMAIN attributes THEN attributes[ParentLinks[record][f]] ELSE Num(0)
    ELSE IF f \in DOMAIN StateStrings[record]
      THEN IF StateStrings[record][f] + 1 \in DOMAIN enum_strings
             THEN enum_strings[StateStrings[record][f] + 1] ELSE Str("")
      ELSE Stored(f)

\* A get of a linked field: the getter's value is written back to the field, putter included.
GetField(f) ==
  /\ f \in PutsTo[record] \cap DOMAIN ParentLinks[record]
  /\ LinkedWrite(f, Visible(f))
  /\ FieldStored(f, Visible(f))
  /\ UNCHANGED <<record, value, enum_strings, alarm, cached, alarmFields, scan_rate, writing, writes, puts>>

\* process_record: a put to PROC writes VAL with its own value.
PutProc(w) ==
  /\ Explored /\ MayPut("PROC")
  /\ BeginWrite(w, value, "PROC", Num(1), enum_strings, NoMetadata)
  /\ UNCHANGED <<record, value, attributes, enum_strings, stored, scan_rate>>

\* raw_value: a put to the RVAL of an enum record is a write of VAL, whatever the number.
PutRaw(w, n) ==
  /\ Explored /\ Enum(record) /\ MayPut("RVAL")
  /\ BeginWrite(w, Num(n), "RVAL", Num(n), enum_strings, NoMetadata)
  /\ UNCHANGED <<record, value, attributes, enum_strings, stored, scan_rate>>

\* link_enum_strings: the string replaces that of the state, which is made up if it is missing, and
\* a channel in that state is written with its index.
SetState(w, f, v) ==
  LET i == StateStrings[record][f] + 1
      padded == [j \in 1 .. (IF i > Len(enum_strings) THEN i ELSE Len(enum_strings)) |->
                  IF j \in DOMAIN enum_strings THEN enum_strings[j] ELSE Str("")]
      strings == [padded EXCEPT ![i] = AsText(v)]
  IN /\ enum_strings' = strings
     /\ IF value \in {padded[i], Num(i - 1)}
          THEN /\ BeginWrite(w, Num(i - 1), f, v, strings, NoMetadata)
               /\ UNCHANGED stored
          ELSE /\ FieldStored(f, v)
               /\ writing' = Overlapped(writing)
               /\ UNCHANGED <<cached, alarm, alarmFields, writes>>
     /\ UNCHANGED <<record, value, attributes, scan_rate>>

PutState(w, f, s) == Explored /\ MayPut(f) /\ SetState(w, f, Str(s))

\* A get of a state string writes it back, too: reading the string of the current state writes VAL.
GetState(w, f) ==
  /\ Explored /\ f \in PutsTo[record]
  /\ SetState(w, f, Visible(f))
  /\ UNCHANGED puts

\* PUT_ACKS and PUT_ACKT: a client acknowledges, or sets whether transient alarms need it.
PutAcks(severity) ==
  /\ Explored
  /\ alarm' = IF severity >= alarm.severity THEN [alarm EXCEPT !.acks = 0] ELSE alarm
  /\ alarmFields' = Shown(alarm')
  /\ UNCHANGED <<record, value, attributes, enum_strings, cached, stored, fieldAlarm, scan_rate,
                 writing, writes, puts>>

PutAckt(must) ==
  /\ Explored
  /\ alarm' = [alarm EXCEPT !.ackt = must,
                            !.acks = IF ~must /\ @ > alarm.severity THEN alarm.severity ELSE @]
  /\ alarmFields' = Shown(alarm')
  /\ UNCHANGED <<record, value, attributes, enum_strings, cached, stored, fieldAlarm, scan_rate,
                 writing, writes, puts>>

----------------------------------------------------------------------------
(* The scan *)

\* A put to SCAN: a periodic rate, or one that is not.
PutScan(rate) ==
  /\ Explored /\ MayPut("SCAN")
  /\ scan_rate' = rate
  /\ FieldStored("SCAN", Num(rate))
  /\ UNCHANGED <<record, value, attributes, enum_strings, alarm, cached, alarmFields, writing, writes>>

\* call_scan_function: the user's function fails, or does not (and then may end an earlier failure).
Scanned(a) ==
  /\ scan_rate > 0
  /\ alarm' = a
  /\ alarmFields' = Shown(alarm')
  /\ UNCHANGED <<record, value, attributes, enum_strings, cached, stored, fieldAlarm, scan_rate,
                 writing, writes, puts>>

ScanFails == Scanned(AlarmWrite(alarm, "SCAN", MAJOR_ALARM))

ScanSucceeds ==
  /\ alarm.status = "SCAN" /\ alarm.severity = MAJOR_ALARM
  /\ Scanned(AlarmWrite(alarm, NO_ALARM, 0))

----------------------------------------------------------------------------

Next ==
  \/ \E f \in PutsTo[record] : \E v \in PutValues(f) : PutField(f, v)
  \/ \E f \in PutsTo[record] : PutTooLong(f) \/ GetField(f)
  \/ \E w \in Writers :
       \/ \E n \in Values, md \in Metadata : PutVal(w, n, md)
       \/ \E n \in Values : PutRaw(w, n)
       \/ PutProc(w)
       \/ \E f \in DOMAIN StateStrings[record] : GetState(w, f) \/ \E s \in Strings : PutState(w, f, s)
       \/ PutterReturns(w) \/ PutterReturnsNone(w) \/ PutterSkips(w) \/ PutterFails(w)
  \/ \E severity \in Severities : PutAcks(severity)
  \/ \E must \in BOOLEAN : PutAckt(must)
  \/ \E rate \in {0, 1} : PutScan(rate)
  \/ ScanFails \/ ScanSucceeds

Spec == Init /\ [][Next]_vars

----------------------------------------------------------------------------
(* Properties *)

\* STAT, SEVR, ACKS and ACKT always say what the alarm of the channel says, whoever changed it: a
\* write, a failed putter, the scan or an acknowledgement (RecordFieldGroup.publish).
FieldsFollowAlarm == alarmFields = Shown(alarm)

\* A write of a numeric channel that no other write and no change of a field overlapped leaves the
\* alarm of the value that was put: what was found before the putter ran is what the alarm says after
\* it, whatever the putter returned and whatever limits come with the value.  Only where that is the
\* status the channel had already does the status that the client itself gave count (verify_value,
\* _collect_alarm, write).
AlarmFitsValue ==
  [][\A w \in Writers :
       (PutterReturns(w) \/ PutterReturnsNone(w)) /\ writing[w].alone /\ Numeric(record) =>
         LET found == LimitAlarm(writing[w].val.n)
             given == writing[w].md.status
         IN IF found.status # alarm.status
              THEN alarm'.status = found.status /\ alarm'.severity = found.severity
              ELSE alarm'.status = IF given = None THEN found.status ELSE given]_vars

\* What a client reads of a linked field changes only with a put to that very field, which is then
\* what the field itself was written with, or with the end of a write of VAL whose metadata gave the
\* attribute, and is then what the metadata said.  Two fields never share an attribute, and reading a
\* field moves no other.
FieldsAreIndependent ==
  [][\A f \in DOMAIN ParentLinks[record] :
       Visible(f)' # Visible(f) =>
         \/ PutField(f, Visible(f)')
         \/ \E w \in Writers :
              /\ writing[w] # None /\ writing'[w] = None
              /\ ParentLinks[record][f] \in DOMAIN writing[w].md.attributes
              /\ Visible(f)' = writing[w].md.attributes[ParentLinks[record][f]]]_vars

\* While transient alarms must be acknowledged, the severity to acknowledge goes down only when a
\* client acknowledges: no write, scan or recovery clears it (ChannelAlarm.write).
TransientIsKept ==
  [][alarm'.ackt /\ alarm'.acks < alarm.acks => \E severity \in Severities : PutAcks(severity)]_vars

\* A write of an enum record that no other overlapped leaves RVAL naming the state that VAL then has,
\* if the putter returned a value and it is a state at all; a putter asked for by a put to RVAL must
\* return the value it was given, since RVAL is then written with what was put (value_write_hook,
\* raw_value).  The states are those before the write: its metadata may bring others, too late for RVAL.
RawNamesValue ==
  [][\A w \in Writers :
       /\ PutterReturns(w) /\ writing[w].alone /\ Enum(record)
       /\ writing[w].via = "RVAL" => value' = writing[w].new
       /\ RawValue(value', enum_strings) # -1
       => LET raw == Stored("RVAL")'.n
          IN raw + 1 \in DOMAIN enum_strings /\ value' = enum_strings[raw + 1]]_vars

====
