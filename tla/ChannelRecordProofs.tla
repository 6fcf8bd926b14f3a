------------------------ MODULE ChannelRecordProofs ------------------------
(***************************************************************************)
(* Proofs about the channel of a server that reports itself as a record:   *)
(* for any record types, values, fields and coroutines, what TLC checks in *)
(* the run channel_record.  From the tables of RecordFields the proofs use *)
(* the links, and what TableAssumption says (TLC evaluates it for all the  *)
(* record types).                                                          *)
(***************************************************************************)
EXTENDS ChannelRecord, WellFoundedInduction, TLAPS

\* The order of the natural numbers as a relation.
Below == {p \in Nat \X Nat : p[1] < p[2]}

\* A set of natural numbers has a smallest element.
LEMMA Smallest ==
  ASSUME NEW S \in SUBSET Nat, S # {}
  PROVE  \E x \in S : \A y \in S : x <= y
<1>1. IsWellFoundedOn(Below, Nat)
  BY NatLessThanWellFounded DEF OpToRel, Below
<1>2. PICK x \in S : \A y \in S : ~(<<y, x>> \in Below)
  BY <1>1, WFMin
<1>3. \A y \in S : x <= y
  <2>. SUFFICES ASSUME NEW y \in S, y < x PROVE FALSE
    OBVIOUS
  <2>1. <<y, x>> \in Below
    BY DEF Below
  <2>. QED  BY <1>2, <2>1
<1>. QED  BY <1>3

Texts   == Strings \cup {"", "a", "b"}
Val     == [kind : {"number", "text", "bytes", "repr"}, n : Int, s : Texts]

\* What names a state: never a number.
Names   == [kind : {"text", "bytes", "repr"}, n : Int, s : Texts]
Alarms  == [status : Statuses, severity : Int, ackt : BOOLEAN, acks : Int]
Found   == [status : Statuses, severity : Int]

\* The fields whose puts write VAL.
Vias    == {"VAL", "PROC", "RVAL"} \cup DOMAIN StateStrings[record]
Pending == [val : Val, new : Val, via : Vias, put : Val,
            md : Metadata \cup {NoMetadata}, alone : BOOLEAN]

TypeOK ==
  /\ record \in RecordTypes
  /\ value \in Val
  /\ attributes \in [AttributesOf(record) -> Val]
  /\ enum_strings \in Seq(Names)
  /\ alarm \in Alarms /\ cached \in Found \cup {None}
  /\ stored \in [DOMAIN stored -> Val]
  /\ writing \in [Writers -> Pending \cup {None}]

\* What a write found before its putter ran is still so, if nothing has
\* overlapped it.
AloneIsCurrent ==
  \A w \in Writers : writing[w] # None /\ writing[w].alone =>
    /\ Numeric(record) => cached = LimitAlarm(writing[w].val.n)
    /\ writing[w].new = EnumValue(writing[w].val, enum_strings)
    /\ writing[w].via = "RVAL" => writing[w].put = writing[w].val /\ writing[w].val.kind = "number"
---------------------------------------------------------------------------
(***************************************************************************)
(* Values.                                                                 *)
(***************************************************************************)
LEMMA NumType == ASSUME NEW n \in Int PROVE Num(n) \in Val
  BY DEF Num, Val, Texts

LEMMA StrType == ASSUME NEW s \in Texts PROVE Str(s) \in Val /\ Str(s) \in Names
  BY DEF Str, Val, Names

LEMMA NamesType == Names \subseteq Val /\ \A v \in Names : v.kind # "number" /\ AsText(v) \in Names
  BY DEF Names, Val, AsText

\* What comes with a put is of the type of what it replaces.
LEMMA MetadataType ==
  ASSUME NEW md \in Metadata \cup {NoMetadata}
  PROVE  /\ \A a \in DOMAIN md.attributes : md.attributes[a] \in Val
         /\ md.status \in Statuses \cup {None} /\ md.severity \in Int \cup {None}
         /\ md.enum_strings # None => md.enum_strings \in Seq(Names)
<1>1. CASE md = NoMetadata
  <2>1. /\ md.attributes = <<>> /\ md.status = None /\ md.severity = None /\ md.enum_strings = None
    BY <1>1 DEF NoMetadata
  <2>2. DOMAIN md.attributes = {}
    BY <2>1
  <2>. QED  BY <2>1, <2>2
<1>2. CASE md \in Metadata
  <2>1. /\ \A a \in DOMAIN md.attributes :
             md.attributes[a].n \in Int /\ md.attributes[a] = Num(md.attributes[a].n)
        /\ md.status \in Statuses \cup {None} /\ md.severity \in Severities \cup {None}
        /\ md.enum_strings # None => md.enum_strings \in Seq({Bytes(s) : s \in Strings})
    BY <1>2, MetadataAssumption
  <2>2. \A a \in DOMAIN md.attributes : md.attributes[a] \in Val
    BY <2>1, NumType
  <2>3. ASSUME NEW s \in Strings PROVE Bytes(s) \in Names
    <3>1. s \in Texts
      BY DEF Texts
    <3>. QED  BY <3>1 DEF Bytes, Names
  <2>4. Seq({Bytes(s) : s \in Strings}) \subseteq Seq(Names)
    <3>. DEFINE S == {Bytes(s) : s \in Strings}
    <3>1. S \subseteq Names
      BY <2>3
    <3>. HIDE DEF S
    <3>. SUFFICES ASSUME NEW q \in Seq(S) PROVE q \in Seq(Names)
      BY DEF S
    <3>2. q \in [1 .. Len(q) -> Names] /\ Len(q) \in Nat
      BY <3>1
    <3>. QED  BY <3>2
  <2>. QED  BY <2>1, <2>2, <2>4 DEF Severities
<1>. QED  BY <1>1, <1>2

LEMMA DefaultType == ASSUME NEW f PROVE Default(f) \in Val
<1>1. f \in DOMAIN DefaultSeverity => DefaultSeverity[f] \in Int
  BY DEF DefaultSeverity
<1>2. "" \in Texts
  BY DEF Texts
<1>3. CASE f \in DOMAIN DefaultSeverity
  <2>1. Default(f) = Num(DefaultSeverity[f])
    BY <1>3 DEF Default
  <2>. QED  BY <1>1, <1>3, <2>1, NumType
<1>4. CASE f \notin DOMAIN DefaultSeverity
  <2>1. Default(f) = Str("") \/ Default(f) = Num(0)
    BY <1>4 DEF Default
  <2>2. Num(0) \in Val
    BY NumType
  <2>3. Str("") \in Val
    BY <1>2, StrType
  <2>. QED  BY <2>1, <2>2, <2>3
<1>. QED  BY <1>3, <1>4

LEMMA StoredType == ASSUME TypeOK, NEW f PROVE Stored(f) \in Val
  BY DefaultType DEF Stored, TypeOK

\* What is read back after a write of a field.
ReadBack(fields, f) == IF f \in DOMAIN fields THEN fields[f] ELSE Default(f)

LEMMA StoreType ==
  ASSUME NEW fields, fields \in [DOMAIN fields -> Val], NEW f, NEW v \in Val
  PROVE  /\ Store(fields, f, v) \in [DOMAIN Store(fields, f, v) -> Val]
         /\ ReadBack(Store(fields, f, v), f) = v
         /\ \A g : g # f => ReadBack(Store(fields, f, v), g) = ReadBack(fields, g)
<1>1. CASE v = Default(f)
  <2>. DEFINE r == [g \in DOMAIN fields \ {f} |-> fields[g]]
  <2>1. Store(fields, f, v) = r
    BY <1>1 DEF Store
  <2>2. /\ r \in [DOMAIN r -> Val] /\ DOMAIN r = DOMAIN fields \ {f}
        /\ \A g \in DOMAIN r : r[g] = fields[g]
    OBVIOUS
  <2>. HIDE DEF r
  <2>. QED  BY <1>1, <2>1, <2>2 DEF ReadBack
<1>2. CASE v # Default(f)
  <2>. DEFINE r == [g \in DOMAIN fields \cup {f} |-> IF g = f THEN v ELSE fields[g]]
  <2>1. Store(fields, f, v) = r
    BY <1>2 DEF Store
  <2>2. /\ r \in [DOMAIN r -> Val] /\ DOMAIN r = DOMAIN fields \cup {f}
        /\ \A g \in DOMAIN r : r[g] = IF g = f THEN v ELSE fields[g]
    OBVIOUS
  <2>. HIDE DEF r
  <2>. QED  BY <1>2, <2>1, <2>2 DEF ReadBack
<1>. QED  BY <1>1, <1>2

LEMMA LimitType == ASSUME TypeOK, NEW n PROVE LimitAlarm(n) \in Found
<1>1. \A f : Stored(f).n \in Int
  BY StoredType DEF Val
<1>. DEFINE a == Beyond(n, "lower_alarm_limit", "upper_alarm_limit")
            w == Beyond(n, "lower_warning_limit", "upper_warning_limit")
<1>2. a \in {"low", "high", "inside"}
  BY DEF Beyond
<1>. HIDE DEF a, w
<1>. QED  BY <1>1, <1>2 DEF LimitAlarm, Found, Statuses, NO_ALARM, a, w

LEMMA EnumType ==
  ASSUME NEW v \in Val, NEW strings \in Seq(Names)
  PROVE  EnumValue(v, strings) \in Val
<1>1. v.n + 1 \in DOMAIN strings => strings[v.n + 1] \in Names
  OBVIOUS
<1>. QED  BY <1>1, NamesType DEF EnumValue

\* get_raw_value is the index of a state of that name.
LEMMA RawFacts ==
  ASSUME NEW v, NEW strings \in Seq(Names)
  PROVE  /\ RawValue(v, strings) \in Int
         /\ RawValue(v, strings) # -1 =>
              /\ RawValue(v, strings) + 1 \in DOMAIN strings
              /\ v = strings[RawValue(v, strings) + 1]
<1>. DEFINE at == {i \in DOMAIN strings : v = strings[i]}
            least == CHOOSE i \in at : \A j \in at : i <= j
<1>1. CASE at = {}
  BY <1>1 DEF RawValue
<1>2. CASE at # {}
  <2>1. at \subseteq Nat
    OBVIOUS
  <2>2. \E i \in at : \A j \in at : i <= j
    BY <1>2, <2>1, Smallest
  <2>3. least \in at /\ least \in Nat
    BY <2>1, <2>2
  <2>4. RawValue(v, strings) = least - 1
    BY <1>2 DEF RawValue
  <2>. HIDE DEF least
  <2>. QED  BY <2>3, <2>4
<1>. QED  BY <1>1, <1>2
---------------------------------------------------------------------------
(***************************************************************************)
(* The tables.                                                             *)
(***************************************************************************)

\* No two fields of a record are linked to the same attribute.
LEMMA LinkFacts ==
  ASSUME NEW r \in DOMAIN records, NEW f \in DOMAIN ParentLinks[r]
  PROVE  /\ f \in {"DESC", "PREC", "ADEL", "MDEL", "HIHI", "LOLO", "HIGH", "LOW", "HOPR", "LOPR"}
         /\ (ParentLinks[r][f] = "__doc__") <=> (f = "DESC")
         /\ \A g \in DOMAIN ParentLinks[r] : ParentLinks[r][f] = ParentLinks[r][g] => f = g
<1>. DEFINE attr(g) ==
       IF g \in DOMAIN LimitLinks THEN LimitLinks[g]
       ELSE [DESC |-> "__doc__", PREC |-> "precision", ADEL |-> "log_atol", MDEL |-> "value_atol"][g]
     fields == {"DESC", "PREC", "ADEL", "MDEL", "HIHI", "LOLO", "HIGH", "LOW", "HOPR", "LOPR"}
<1>1. DOMAIN LimitLinks = {"HIHI", "LOLO", "HIGH", "LOW", "HOPR", "LOPR"}
  BY DEF LimitLinks
<1>2. ASSUME NEW g \in DOMAIN ParentLinks[r] PROVE g \in fields /\ ParentLinks[r][g] = attr(g)
  BY <1>1 DEF ParentLinks
<1>3. /\ attr("DESC") = "__doc__" /\ attr("PREC") = "precision" /\ attr("ADEL") = "log_atol"
      /\ attr("MDEL") = "value_atol" /\ attr("HIHI") = "upper_alarm_limit"
      /\ attr("LOLO") = "lower_alarm_limit" /\ attr("HIGH") = "upper_warning_limit"
      /\ attr("LOW") = "lower_warning_limit" /\ attr("HOPR") = "upper_ctrl_limit"
      /\ attr("LOPR") = "lower_ctrl_limit"
  BY DEF LimitLinks
<1>. HIDE DEF attr
<1>4. \A g, h \in fields : attr(g) = attr(h) => g = h
  BY <1>3
<1>5. \A g \in fields : attr(g) = "__doc__" <=> g = "DESC"
  BY <1>3
<1>. QED  BY <1>2, <1>4, <1>5
---------------------------------------------------------------------------
(***************************************************************************)
(* Types.                                                                  *)
(***************************************************************************)
LEMMA VisibleType ==
  ASSUME TypeOK, NEW f \in DOMAIN ParentLinks[record]
  PROVE  Visible(f) \in Val
  BY NumType DEF Visible, TypeOK

LEMMA AlarmType ==
  ASSUME NEW a \in Alarms, NEW status \in Statuses \cup {None}, NEW severity \in Int \cup {None}
  PROVE  /\ AlarmWrite(a, status, severity) \in Alarms
         /\ AlarmWrite(a, status, severity).status = IF status = None THEN a.status ELSE status
         /\ AlarmWrite(a, status, severity).severity = IF severity = None THEN a.severity ELSE severity
         /\ AlarmWrite(a, status, severity).ackt = a.ackt
         /\ a.ackt => AlarmWrite(a, status, severity).acks >= a.acks
<1>. DEFINE st == IF status = None THEN a.status ELSE status
            sv == IF severity = None THEN a.severity ELSE severity
            acks == IF severity # None /\ (~a.ackt \/ a.acks < severity) THEN severity ELSE a.acks
            r == [status |-> st, severity |-> sv, ackt |-> a.ackt, acks |-> acks]
<1>2. st \in Statuses /\ sv \in Int /\ acks \in Int /\ (a.ackt => acks >= a.acks) /\ a.ackt \in BOOLEAN
  BY DEF Alarms
<1>3. AlarmWrite(a, status, severity) = [a EXCEPT !.status = st, !.severity = sv, !.acks = acks]
  BY DEF AlarmWrite
<1>. HIDE DEF acks, st, sv
<1>4. ASSUME NEW q, q = [a EXCEPT !.status = st, !.severity = sv, !.acks = acks]
      PROVE  q = r
  BY <1>4 DEF Alarms
<1>1. AlarmWrite(a, status, severity) = r
  BY <1>3, <1>4
<1>5. r \in Alarms /\ r.status = st /\ r.severity = sv /\ r.ackt = a.ackt /\ r.acks = acks
  BY <1>2 DEF Alarms
<1>. QED  BY <1>1, <1>2, <1>5 DEF st, sv

LEMMA OverlappedType ==
  ASSUME TypeOK
  PROVE  /\ Overlapped(writing) \in [Writers -> Pending \cup {None}]
         /\ \A w \in Writers : Overlapped(writing)[w] # None => ~Overlapped(writing)[w].alone
<1>. SUFFICES ASSUME NEW w \in Writers, writing[w] # None
              PROVE  /\ [writing[w] EXCEPT !.alone = FALSE] \in Pending
                     /\ ~[writing[w] EXCEPT !.alone = FALSE].alone
  BY DEF Overlapped
<1>. DEFINE p == writing[w]
            r == [val |-> p.val, new |-> p.new, via |-> p.via, put |-> p.put, md |-> p.md,
                  alone |-> FALSE]
<1>1. p \in Pending
  BY DEF TypeOK
<1>2. ASSUME NEW q, q = [p EXCEPT !.alone = FALSE] PROVE q = r
  BY <1>1, <1>2 DEF Pending
<1>3. r \in Pending /\ ~r.alone
  BY <1>1 DEF Pending
<1>4. [p EXCEPT !.alone = FALSE] = r
  BY <1>2
<1>. HIDE DEF r
<1>. QED  BY <1>3, <1>4

\* The beginning of a write of VAL.
LEMMA BeginFacts ==
  ASSUME TypeOK, NEW w \in Writers, NEW v \in Val, NEW via \in Vias, NEW put \in Val,
         NEW strings \in Seq(Names), NEW md \in Metadata \cup {NoMetadata},
         BeginWrite(w, v, via, put, strings, md)
  PROVE  /\ alarm' \in Alarms /\ cached' \in Found \cup {None}
         /\ writing' \in [Writers -> Pending \cup {None}]
         /\ \A u \in Writers : writing'[u] # None /\ writing'[u].alone =>
              /\ u = w /\ writing'[w] = [val |-> v, new |-> EnumValue(v, strings), via |-> via,
                                         put |-> put, md |-> md, alone |-> TRUE]
              /\ Numeric(record) => cached' = LimitAlarm(v.n)
<1>1. CASE Numeric(record) /\ ExceedsLimits(v.n)
  <2>1. WriteFails(via) /\ writing' = Overlapped(writing)
    BY <1>1 DEF BeginWrite
  <2>2. alarm' \in Alarms /\ cached' = None
    BY <2>1, AlarmType DEF WriteFails, TypeOK, MAJOR_ALARM, Statuses
  <2>. QED  BY <2>1, <2>2, OverlappedType
<1>2. CASE ~(Numeric(record) /\ ExceedsLimits(v.n))
  <2>. DEFINE alone == \A u \in Writers : writing[u] = None
              r == [val |-> v, new |-> EnumValue(v, strings), via |-> via, put |-> put,
                    md |-> md, alone |-> alone]
  <2>1. /\ cached' = IF Numeric(record) THEN LimitAlarm(v.n) ELSE cached
        /\ writing' = [Overlapped(writing) EXCEPT ![w] = r]
        /\ UNCHANGED alarm
    BY <1>2 DEF BeginWrite
  <2>2. r \in Pending
    BY EnumType DEF Pending
  <2>3. cached' \in Found \cup {None}
    BY <2>1, LimitType DEF TypeOK
  <2>4. r.alone => r = [val |-> v, new |-> EnumValue(v, strings), via |-> via, put |-> put,
                         md |-> md, alone |-> TRUE]
    OBVIOUS
  <2>. HIDE DEF r
  <2>. QED  BY <2>1, <2>2, <2>3, <2>4, OverlappedType DEF TypeOK
<1>. QED  BY <1>1, <1>2

\* Its end.
LEMMA ViaType ==
  ASSUME TypeOK, NEW w \in Writers, writing[w] # None, NEW fields, fields \in [DOMAIN fields -> Val]
  PROVE  ViaStored(fields, writing[w]) \in [DOMAIN ViaStored(fields, writing[w]) -> Val]
<1>1. writing[w].put \in Val
  BY DEF TypeOK, Pending
<1>. QED  BY <1>1, StoreType DEF ViaStored

LEMMA EndedFacts ==
  ASSUME TypeOK, NEW w \in Writers, Ended(w)
  PROVE  /\ writing[w] \in Pending
         /\ writing' \in [Writers -> Pending \cup {None}]
         /\ \A u \in Writers : writing'[u] # None => ~writing'[u].alone
         /\ record' = record
<1>1. writing' = [Overlapped(writing) EXCEPT ![w] = None]
  BY DEF Ended
<1>. QED  BY <1>1, OverlappedType DEF Ended, TypeOK

LEMMA InitType == Init => TypeOK
<1>. SUFFICES ASSUME Init PROVE TypeOK
  OBVIOUS
<1>1. "" \in Texts /\ "a" \in Texts /\ "b" \in Texts
  BY DEF Texts
<1>2. /\ Num(0) \in Val /\ Num(1) \in Val
      /\ Str("") \in Val /\ Str("a") \in Val
  <2>1. Num(0) \in Val /\ Num(1) \in Val
    BY NumType
  <2>2. Str("") \in Val /\ Str("a") \in Val
    BY <1>1, StrType
  <2>. QED  BY <2>1, <2>2
<1>3. value \in Val
  BY <1>2 DEF Init
<1>4. attributes \in [AttributesOf(record) -> Val]
  BY <1>2 DEF Init
<1>5. enum_strings \in Seq(Names)
  <2>1. \A x, y \in Names : <<x, y>> \in Seq(Names)
    OBVIOUS
  <2>2. <<Str("a"), Str("b")>> \in Seq(Names)
    <3>1. Str("a") \in Names /\ Str("b") \in Names
      BY <1>1, StrType
    <3>. QED  BY <2>1, <3>1
  <2>3. <<>> \in Seq(Names)
    OBVIOUS
  <2>. QED  BY <2>2, <2>3 DEF Init
<1>6. alarm \in Alarms
  <2>1. alarm = [status |-> "NO_ALARM", severity |-> 0, ackt |-> TRUE, acks |-> 0]
    BY DEF Init, NO_ALARM
  <2>. QED  BY <2>1 DEF Alarms, Statuses
<1>7. stored \in [DOMAIN stored -> Val]
  <2>1. stored = <<>>
    BY DEF Init
  <2>. QED  BY <2>1
<1>. QED  BY <1>3, <1>4, <1>5, <1>6, <1>7 DEF Init, TypeOK

\* A step keeps the types if it keeps each of them.
LEMMA TypeStep ==
  ASSUME TypeOK, record' = record, value' \in Val, attributes' \in [AttributesOf(record) -> Val],
         enum_strings' \in Seq(Names),
         alarm' \in Alarms, cached' \in Found \cup {None}, stored' \in [DOMAIN stored' -> Val],
         writing' \in [Writers -> Pending \cup {None}]
  PROVE  TypeOK'
<1>1. Pending' = Pending /\ AttributesOf(record)' = AttributesOf(record)
  BY DEF Pending, Vias, AttributesOf, Numeric
<1>. QED  BY <1>1 DEF TypeOK, Enum

LEMMA PutType ==
  ASSUME TypeOK, NEW f, NEW v \in PutValues(f)
  PROVE  v \in Val
<1>1. \A s \in Strings : Str(s) \in Val
  BY StrType DEF Texts
<1>2. \A n \in FieldValues : Num(n) \in Val
  BY NumType, ValueAssumption
<1>. QED  BY <1>1, <1>2 DEF PutValues

\* What is read of the fields after one of them was written.
LEMMA StoredAfter ==
  ASSUME TypeOK, record' = record, NEW g, NEW v \in Val, stored' = Store(stored, g, v)
  PROVE  /\ stored' \in [DOMAIN stored' -> Val]
         /\ Stored(g)' = v
         /\ \A f : f # g => Stored(f)' = Stored(f)
<1>1. \A f : Default(f)' = Default(f)
  BY DEF Default
<1>2. \A f : Stored(f) = ReadBack(stored, f) /\ Stored(f)' = ReadBack(stored', f)
  BY <1>1 DEF Stored, ReadBack
<1>. QED  BY <1>2, StoreType DEF TypeOK

\* A linked attribute and its field are written together.
LEMMA LinkedAfter ==
  ASSUME TypeOK, NEW f, NEW v \in Val, LinkedWrite(f, v)
  PROVE  /\ attributes' \in [AttributesOf(record) -> Val]
         /\ f \notin DOMAIN ParentLinks[record] => attributes' = attributes
         /\ \A a \in DOMAIN attributes :
              attributes'[a] = IF f \in DOMAIN ParentLinks[record] /\ ParentLinks[record][f] = a
                               THEN v ELSE attributes[a]
  BY DEF LinkedWrite, TypeOK

LEMMA LimitKept ==
  ASSUME UNCHANGED <<record, attributes>>,
         \A f \in DOMAIN DefaultSeverity : Stored(f)' = Stored(f), NEW n
  PROVE  LimitAlarm(n)' = LimitAlarm(n)
<1>1. /\ Stored("LLSV")' = Stored("LLSV") /\ Stored("HHSV")' = Stored("HHSV")
      /\ Stored("LSV")' = Stored("LSV") /\ Stored("HSV")' = Stored("HSV")
  BY DEF DefaultSeverity
<1>. QED  BY <1>1 DEF LimitAlarm, Beyond

\* Steps that leave the suspended writes, and what they have read, alone.
LEMMA AloneKept ==
  ASSUME AloneIsCurrent, UNCHANGED <<record, attributes, enum_strings, cached, writing>>,
         \A f \in DOMAIN DefaultSeverity : Stored(f)' = Stored(f)
  PROVE  AloneIsCurrent'
<1>1. \A w \in Writers : LimitAlarm(writing[w].val.n)' = LimitAlarm(writing[w].val.n)
  <2>. SUFFICES ASSUME NEW w \in Writers
                PROVE  LimitAlarm(writing[w].val.n)' = LimitAlarm(writing[w].val.n)
    OBVIOUS
  <2>. DEFINE n == writing[w].val.n
  <2>1. n' = n
    OBVIOUS
  <2>. QED  BY <2>1, LimitKept
<1>. QED  BY <1>1 DEF AloneIsCurrent, Numeric, EnumValue

\* Steps that overlap every suspended write.
LEMMA AloneOverlapped ==
  ASSUME \A w \in Writers : writing'[w] # None => ~writing'[w].alone
  PROVE  AloneIsCurrent'
  BY DEF AloneIsCurrent

IInv == TypeOK /\ AloneIsCurrent

---------------------------------------------------------------------------
(***************************************************************************)
(* The steps.                                                              *)
(***************************************************************************)

\* A write of VAL begins.
LEMMA BeginStep ==
  ASSUME IInv, NEW w \in Writers, NEW v \in Val, NEW via \in Vias, NEW put \in Val,
         NEW md \in Metadata \cup {NoMetadata}, BeginWrite(w, v, via, put, enum_strings', md),
         enum_strings' \in Seq(Names),
         via = "RVAL" => put = v /\ v.kind = "number",
         UNCHANGED <<record, value, attributes, stored>>
  PROVE  IInv'
<1>0. TypeOK
  BY DEF IInv
<1>. DEFINE strings == enum_strings'
<1>1. \A f : Stored(f)' = Stored(f)
  BY DEF Stored, Default
<1>2. /\ alarm' \in Alarms /\ cached' \in Found \cup {None}
      /\ writing' \in [Writers -> Pending \cup {None}]
      /\ \A u \in Writers : writing'[u] # None /\ writing'[u].alone =>
           /\ u = w /\ writing'[w] = [val |-> v, new |-> EnumValue(v, strings), via |-> via,
                                      put |-> put, md |-> md, alone |-> TRUE]
           /\ Numeric(record) => cached' = LimitAlarm(v.n)
  <2>. HIDE DEF strings
  <2>1. BeginWrite(w, v, via, put, strings, md) /\ strings \in Seq(Names)
    BY DEF strings
  <2>. QED  BY <1>0, <2>1, BeginFacts
<1>3. TypeOK'
  BY <1>0, <1>2, TypeStep DEF TypeOK
<1>5. AloneIsCurrent'
  <2>. SUFFICES ASSUME NEW u \in Writers, writing'[u] # None, writing'[u].alone
                PROVE  /\ Numeric(record)' => cached' = LimitAlarm(writing[u].val.n)'
                       /\ writing'[u].new = EnumValue(writing'[u].val, enum_strings')
                       /\ writing'[u].via = "RVAL" =>
                            writing'[u].put = writing'[u].val /\ writing'[u].val.kind = "number"
    BY DEF AloneIsCurrent, EnumValue
  <2>1. /\ writing'[u].val = v /\ writing'[u].new = EnumValue(v, enum_strings')
        /\ writing'[u].via = via /\ writing'[u].put = put
        /\ Numeric(record) => cached' = LimitAlarm(v.n)
    BY <1>2
  <2>2. LimitAlarm(writing[u].val.n)' = LimitAlarm(v.n)
    BY <1>1, <2>1 DEF LimitAlarm, Beyond
  <2>3. Numeric(record)' = Numeric(record)
    BY DEF Numeric
  <2>. QED  BY <2>1, <2>2, <2>3
<1>. QED  BY <1>3, <1>5 DEF IInv

\* A field that is not linked is written, or none at all.
LEMMA FieldStep ==
  ASSUME IInv, UNCHANGED <<record, value, attributes>>, enum_strings' \in Seq(Names),
         alarm' \in Alarms, cached' \in Found \cup {None}, stored' \in [DOMAIN stored' -> Val],
         \/ /\ UNCHANGED <<enum_strings, cached, writing>>
            /\ \A f \in DOMAIN DefaultSeverity : Stored(f)' = Stored(f)
         \/ writing' = Overlapped(writing)
  PROVE  IInv'
<1>0. TypeOK /\ AloneIsCurrent
  BY DEF IInv
<1>1. writing' \in [Writers -> Pending \cup {None}]
  BY <1>0, OverlappedType DEF TypeOK
<1>2. TypeOK'
  BY <1>0, <1>1, TypeStep DEF TypeOK
<1>4. CASE /\ UNCHANGED <<enum_strings, cached, writing>>
           /\ \A f \in DOMAIN DefaultSeverity : Stored(f)' = Stored(f)
  BY <1>0, <1>2, <1>4, AloneKept DEF IInv
<1>5. CASE writing' = Overlapped(writing)
  BY <1>0, <1>2, <1>5, OverlappedType, AloneOverlapped DEF IInv
<1>. QED  BY <1>4, <1>5

\* A putter has decided.
LEMMA EndStep ==
  ASSUME IInv, NEW w \in Writers, Ended(w), value' \in Val, alarm' \in Alarms,
         attributes' \in [AttributesOf(record) -> Val], enum_strings' \in Seq(Names),
         cached' = None, stored' \in [DOMAIN stored' -> Val]
  PROVE  IInv'
<1>0. TypeOK
  BY DEF IInv
<1>1. /\ writing' \in [Writers -> Pending \cup {None}]
      /\ \A u \in Writers : writing'[u] # None => ~writing'[u].alone
      /\ record' = record
  BY <1>0, EndedFacts
<1>2. TypeOK'
  BY <1>0, <1>1, TypeStep
<1>4. AloneIsCurrent'
  BY <1>1, AloneOverlapped
<1>. QED  BY <1>2, <1>4 DEF IInv

\* The fields a write of VAL leaves behind: RVAL, and the one that asked for it.
LEMMA FinishStored ==
  ASSUME TypeOK, NEW w \in Writers, writing[w] \in Pending, record' = record, NEW returned,
         stored' = ViaStored(RawStored(stored, returned), writing[w])
  PROVE  /\ stored' \in [DOMAIN stored' -> Val]
         /\ \A f : f # "RVAL" /\ f # writing[w].via => Stored(f)' = Stored(f)
         /\ \A f : f # "VAL" /\ f = writing[w].via => Stored(f)' = writing[w].put
         /\ Enum(record) /\ RawValue(returned, enum_strings) # -1 /\ writing[w].via # "RVAL"
              => Stored("RVAL")' = Num(RawValue(returned, enum_strings))
<1>. DEFINE p == writing[w]
            raw == RawValue(returned, enum_strings)
            fields == RawStored(stored, returned)
<1>1. \A f : Default(f)' = Default(f)
  BY DEF Default
<1>2. \A f : Stored(f) = ReadBack(stored, f) /\ Stored(f)' = ReadBack(stored', f)
  BY <1>1 DEF Stored, ReadBack
<1>3. raw \in Int /\ Num(raw) \in Val /\ p.put \in Val
  BY RawFacts, NumType DEF TypeOK, Pending
<1>4. /\ fields \in [DOMAIN fields -> Val]
      /\ \A f : f # "RVAL" => ReadBack(fields, f) = ReadBack(stored, f)
      /\ Enum(record) /\ raw # -1 => ReadBack(fields, "RVAL") = Num(raw)
  <2>1. CASE Enum(record) /\ raw # -1
    <3>1. fields = Store(stored, "RVAL", Num(raw))
      BY <2>1 DEF RawStored
    <3>. HIDE DEF fields, raw
    <3>. QED  BY <1>3, <3>1, StoreType DEF TypeOK
  <2>2. CASE ~(Enum(record) /\ raw # -1)
    <3>1. fields = stored
      BY <2>2 DEF RawStored
    <3>. HIDE DEF fields, raw
    <3>. QED  BY <2>2, <3>1 DEF TypeOK
  <2>. QED  BY <2>1, <2>2
<1>. HIDE DEF fields, raw
<1>5. stored' = IF p.via = "VAL" THEN fields ELSE Store(fields, p.via, p.put)
  BY DEF ViaStored, fields
<1>6. CASE p.via = "VAL"
  <2>1. stored' = fields
    BY <1>5, <1>6
  <2>. QED  BY <1>2, <1>4, <1>6, <2>1 DEF raw
<1>7. CASE p.via # "VAL"
  <2>1. stored' = Store(fields, p.via, p.put)
    BY <1>5, <1>7
  <2>2. /\ stored' \in [DOMAIN stored' -> Val] /\ ReadBack(stored', p.via) = p.put
        /\ \A g : g # p.via => ReadBack(stored', g) = ReadBack(fields, g)
    BY <1>3, <1>4, <2>1, StoreType
  <2>3. /\ \A f : f = p.via => Stored(f)' = p.put
        /\ \A f : f # "RVAL" /\ f # p.via => Stored(f)' = Stored(f)
    BY <1>2, <1>4, <2>2
  <2>4. Enum(record) /\ raw # -1 /\ p.via # "RVAL" => Stored("RVAL")' = Num(raw)
    BY <1>2, <1>4, <2>2
  <2>. QED  BY <2>2, <2>3, <2>4 DEF raw
<1>. QED  BY <1>6, <1>7

\* What a putter returns is a value.
LEMMA ReturnableType ==
  ASSUME TypeOK, NEW w \in Writers, writing[w] \in Pending
  PROVE  Returnable(w) \subseteq Val
<1>1. \A n \in Values : Num(n) \in Val
  BY NumType, ValueAssumption
<1>2. \A s \in Strings : Str(s) \in Val
  BY StrType DEF Texts
<1>3. \A i \in DOMAIN enum_strings : enum_strings[i] \in Val
  BY NamesType DEF TypeOK
<1>4. writing[w].new \in Val
  BY DEF Pending
<1>. QED  BY <1>1, <1>2, <1>3, <1>4 DEF Returnable

\* The alarm a write of VAL leaves behind: the one found for the value, else what the client gave.
LEMMA FinishAlarm ==
  ASSUME TypeOK, NEW w \in Writers, writing[w] \in Pending, NEW returned, FinishWrite(w, returned)
  PROVE  \E status \in Statuses \cup {None}, severity \in Int \cup {None} :
           /\ alarm' \in Alarms
           /\ \/ status = None /\ severity = None /\ alarm' = alarm
              \/ alarm' = AlarmWrite(alarm, status, severity)
           /\ Collected = None => status = writing[w].md.status
           /\ Collected # None => status = Collected.status /\ severity = Collected.severity
<1>. DEFINE md == writing[w].md
            status == IF Collected = None THEN md.status ELSE Collected.status
            severity == IF Collected = None THEN md.severity ELSE Collected.severity
<1>1. md \in Metadata \cup {NoMetadata}
  BY DEF Pending
<1>. HIDE DEF md
<1>2. md.status \in Statuses \cup {None} /\ md.severity \in Int \cup {None}
  BY <1>1, MetadataType
<1>3. Collected # None => Collected.status \in Statuses /\ Collected.severity \in Int
  BY DEF Collected, TypeOK, Found
<1>4. \/ status = None /\ severity = None /\ alarm' = alarm
      \/ alarm' = AlarmWrite(alarm, status, severity)
  BY DEF FinishWrite, md
<1>5. /\ status \in Statuses \cup {None} /\ severity \in Int \cup {None}
      /\ Collected = None => status = md.status
      /\ Collected # None => status = Collected.status /\ severity = Collected.severity
  BY <1>2, <1>3
<1>. HIDE DEF status, severity
<1>6. alarm' \in Alarms
  <2>1. alarm \in Alarms
    BY DEF TypeOK
  <2>2. AlarmWrite(alarm, status, severity) \in Alarms
    BY <1>5, <2>1, AlarmType
  <2>. QED  BY <1>4, <2>1, <2>2
<1>. QED  BY <1>4, <1>5, <1>6 DEF md

\* SetState: what names the states are names.
LEMMA StateFacts ==
  ASSUME IInv, NEW w \in Writers, NEW f \in DOMAIN StateStrings[record], NEW v \in Names,
         SetState(w, f, v)
  PROVE  IInv'
<1>. DEFINE i == StateStrings[record][f] + 1
            m == IF i > Len(enum_strings) THEN i ELSE Len(enum_strings)
            padded == [j \in 1 .. m |-> IF j \in DOMAIN enum_strings THEN enum_strings[j] ELSE Str("")]
            strings == [padded EXCEPT ![i] = AsText(v)]
<1>0. TypeOK
  BY DEF IInv
<1>1. /\ Enum(record) /\ StateStrings[record][f] \in Nat /\ f \in Vias
      /\ f \notin {"RVAL"} \cup DOMAIN DefaultSeverity \cup DOMAIN ParentLinks[record]
  BY <1>0, TableAssumption DEF TypeOK, Vias
<1>2. enum_strings \in Seq(Names)
  BY <1>0 DEF TypeOK
<1>e. Str("") \in Names /\ AsText(v) \in Names /\ v \in Val
  BY StrType, NamesType DEF Texts
<1>3. strings \in Seq(Names)
  <2>1. i \in Nat \ {0} /\ m \in Nat /\ i <= m
    <3>1. StateStrings[record][f] \in Nat
      BY <1>1
    <3>2. Len(enum_strings) \in Nat
      BY <1>2
    <3>. QED  BY <3>1, <3>2
  <2>. HIDE DEF m, i
  <2>2. \A j \in DOMAIN enum_strings : enum_strings[j] \in Names
    BY <1>2
  <2>3. padded \in [1 .. m -> Names]
    BY <1>e, <2>2
  <2>4. strings \in [1 .. m -> Names]
    BY <1>e, <2>3
  <2>. HIDE DEF padded, strings
  <2>. QED  BY <2>1, <2>4
<1>4. Num(i - 1) \in Val /\ NoMetadata \in Metadata \cup {NoMetadata}
  BY <1>1, NumType
<1>5. enum_strings' = strings /\ UNCHANGED <<record, value, attributes>>
  BY DEF SetState
<1>6. CASE value \in {padded[i], Num(i - 1)}
  <2>1. BeginWrite(w, Num(i - 1), f, v, strings, NoMetadata) /\ UNCHANGED stored
    BY <1>6 DEF SetState
  <2>. HIDE DEF strings, i
  <2>. QED  BY <1>1, <1>3, <1>4, <1>5, <1>e, <2>1, BeginStep
<1>7. CASE ~(value \in {padded[i], Num(i - 1)})
  <2>1. /\ FieldStored(f, v) /\ writing' = Overlapped(writing)
        /\ UNCHANGED <<cached, alarm>>
    BY <1>7 DEF SetState
  <2>2. stored' = Store(stored, f, v)
    BY <2>1 DEF FieldStored
  <2>. HIDE DEF strings, i
  <2>3. stored' \in [DOMAIN stored' -> Val] /\ \A g : g # f => Stored(g)' = Stored(g)
    BY <1>0, <1>5, <1>e, <2>2, StoredAfter
  <2>. QED  BY <1>0, <1>1, <1>3, <1>5, <2>1, <2>3, FieldStep DEF TypeOK
<1>. QED  BY <1>6, <1>7

LEMMA NextInv == IInv /\ [Next]_vars => IInv'
<1>. SUFFICES ASSUME IInv, [Next]_vars PROVE IInv'
  OBVIOUS
<1>0. TypeOK /\ AloneIsCurrent /\ record \in DOMAIN records
  BY RecordAssumption DEF IInv, TypeOK
<1>t. /\ value \in Val /\ attributes \in [AttributesOf(record) -> Val]
      /\ enum_strings \in Seq(Names)
      /\ alarm \in Alarms /\ cached \in Found \cup {None} /\ stored \in [DOMAIN stored -> Val]
  BY <1>0 DEF TypeOK
<1>v. /\ "VAL" \in Vias /\ "PROC" \in Vias /\ "RVAL" \in Vias
      /\ NoMetadata \in Metadata \cup {NoMetadata}
  BY DEF Vias
<1>l. "SCAN" \notin DOMAIN DefaultSeverity
  BY DEF DefaultSeverity
<1>s. UNCHANGED <<record, stored>> => \A f : Stored(f)' = Stored(f)
  BY DEF Stored, Default
<1>1. CASE UNCHANGED vars
  BY <1>t, <1>1, <1>s, FieldStep DEF vars
<1>2. ASSUME NEW f, NEW v \in PutValues(f), PutField(f, v) PROVE IInv'
  <2>1. v \in Val
    BY <1>0, PutType
  <2>2. /\ LinkedWrite(f, v) /\ stored' = Store(stored, f, v) /\ writing' = Overlapped(writing)
        /\ UNCHANGED <<record, value, enum_strings, alarm, cached>>
    BY <1>2 DEF PutField, FieldStored
  <2>4. AloneIsCurrent' /\ writing' \in [Writers -> Pending \cup {None}]
    BY <1>0, <2>2, OverlappedType, AloneOverlapped
  <2>5. TypeOK'
    <3>1. attributes' \in [AttributesOf(record) -> Val]
      BY <1>0, <2>1, <2>2, LinkedAfter
    <3>2. stored' \in [DOMAIN stored' -> Val]
      BY <1>0, <2>1, <2>2, StoredAfter
    <3>. QED  BY <1>0, <1>t, <2>2, <2>4, <3>1, <3>2, TypeStep
  <2>. QED  BY <2>4, <2>5 DEF IInv
<1>3. ASSUME NEW f, PutTooLong(f) PROVE IInv'
  BY <1>t, <1>3, <1>s, FieldStep DEF PutTooLong
<1>4. ASSUME NEW f, GetField(f) PROVE IInv'
  <2>. DEFINE v == Visible(f)
  <2>1. v \in Val /\ f \in DOMAIN ParentLinks[record]
    BY <1>0, <1>4, VisibleType DEF GetField
  <2>2. /\ LinkedWrite(f, v) /\ stored' = Store(stored, f, v)
        /\ UNCHANGED <<record, value, enum_strings, alarm, cached, writing>>
    BY <1>4 DEF GetField, FieldStored
  <2>3. attributes' = attributes
    BY <1>t, <2>1, <2>2 DEF Visible, LinkedWrite
  <2>. HIDE DEF v
  <2>5. stored' \in [DOMAIN stored' -> Val] /\ \A g : g # f => Stored(g)' = Stored(g)
    BY <1>0, <2>1, <2>2, StoredAfter
  <2>6. f \notin DOMAIN DefaultSeverity
    BY <1>0, <2>1, LinkFacts DEF DefaultSeverity
  <2>7. AloneIsCurrent'
    BY <1>0, <2>2, <2>3, <2>5, <2>6, AloneKept
  <2>8. TypeOK'
    BY <1>0, <1>t, <2>2, <2>3, <2>5, TypeStep DEF TypeOK
  <2>. QED  BY <2>7, <2>8 DEF IInv
<1>5. ASSUME NEW w \in Writers, NEW n \in Values, PutRaw(w, n) \/ \E md \in Metadata : PutVal(w, n, md)
      PROVE  IInv'
  <2>1. Num(n) \in Val /\ Num(n).kind = "number"
    BY NumType, ValueAssumption DEF Num
  <2>2. PICK md \in Metadata \cup {NoMetadata}, via \in {"VAL", "RVAL"} :
             /\ BeginWrite(w, Num(n), via, Num(n), enum_strings', md)
             /\ UNCHANGED <<record, value, attributes, enum_strings, stored>>
    BY <1>5, <1>v DEF PutVal, PutRaw
  <2>. QED  BY <1>t, <1>v, <2>1, <2>2, BeginStep
<1>6. ASSUME NEW w \in Writers, PutProc(w) PROVE IInv'
  <2>1. Num(1) \in Val
    BY NumType
  <2>2. /\ BeginWrite(w, value, "PROC", Num(1), enum_strings', NoMetadata)
        /\ UNCHANGED <<record, value, attributes, enum_strings, stored>>
    BY <1>6 DEF PutProc
  <2>. QED  BY <1>t, <1>v, <2>1, <2>2, BeginStep
<1>7. ASSUME NEW w \in Writers, NEW f \in DOMAIN StateStrings[record],
             GetState(w, f) \/ \E s \in Strings : PutState(w, f, s)
      PROVE  IInv'
  <2>1. Visible(f) \in Names
    <3>1. f \notin DOMAIN ParentLinks[record]
      BY <1>0, TableAssumption DEF TypeOK
    <3>2. StateStrings[record][f] + 1 \in DOMAIN enum_strings
            => enum_strings[StateStrings[record][f] + 1] \in Names
      BY <1>t
    <3>. QED  BY <3>1, <3>2, StrType DEF Visible, Texts
  <2>2. \A s \in Strings : Str(s) \in Names
    BY StrType DEF Texts
  <2>. QED  BY <1>7, <2>1, <2>2, StateFacts DEF GetState, PutState
<1>8. ASSUME NEW w \in Writers, Ended(w) PROVE writing[w] \in Pending /\ writing[w] # None /\ record' = record
  BY <1>0, <1>8, EndedFacts DEF Ended
<1>9. ASSUME NEW w \in Writers, NEW returned \in Val \cup {None}, Ended(w), FinishWrite(w, returned)
      PROVE  IInv'
  <2>0. writing[w] \in Pending /\ writing[w].md \in Metadata \cup {NoMetadata} /\ record' = record
    BY <1>8, <1>9 DEF Pending
  <2>1. /\ value' = (IF returned = None THEN writing[w].val ELSE returned)
        /\ stored' = ViaStored(RawStored(stored, returned), writing[w])
        /\ cached' = None
    BY <1>9 DEF FinishWrite
  <2>2. value' \in Val
    BY <1>9, <2>0, <2>1 DEF Pending
  <2>3. alarm' \in Alarms
    BY <1>0, <1>9, <2>0, FinishAlarm
  <2>4. attributes' \in [AttributesOf(record) -> Val] /\ enum_strings' \in Seq(Names)
    BY <1>t, <1>9, <2>0, MetadataType DEF FinishWrite
  <2>5. stored' \in [DOMAIN stored' -> Val]
    BY <1>0, <1>9, <2>0, <2>1, FinishStored
  <2>. QED  BY <1>9, <2>1, <2>2, <2>3, <2>4, <2>5, EndStep
<1>10. ASSUME NEW w \in Writers, PutterSkips(w) PROVE IInv'
  <2>1. /\ Ended(w) /\ stored' = ViaStored(stored, writing[w])
        /\ cached' = None /\ UNCHANGED <<value, attributes, enum_strings, alarm>>
    BY <1>10 DEF PutterSkips, SkipTheWrite
  <2>2. stored' \in [DOMAIN stored' -> Val]
    BY <1>0, <1>t, <1>8, <2>1, ViaType
  <2>. QED  BY <1>t, <2>1, <2>2, EndStep
<1>11. ASSUME NEW w \in Writers, PutterFails(w) PROVE IInv'
  <2>1. Ended(w) /\ WriteFails(writing[w].via) /\ UNCHANGED <<value, attributes, enum_strings, stored>>
    BY <1>11 DEF PutterFails
  <2>2. alarm' \in Alarms /\ cached' = None
    BY <1>t, <2>1, AlarmType DEF WriteFails, MAJOR_ALARM, Statuses
  <2>. QED  BY <1>t, <2>1, <2>2, EndStep
<1>12. ASSUME NEW a \in Alarms, alarm' = a,
              UNCHANGED <<record, value, attributes, enum_strings, cached, stored, writing>>
       PROVE  IInv'
  BY <1>t, <1>s, <1>12, FieldStep
<1>13. ASSUME NEW severity \in Severities, PutAcks(severity) PROVE IInv'
  <2>1. ASSUME NEW q, q = [alarm EXCEPT !.acks = 0] PROVE q \in Alarms
    <3>1. q = [status |-> alarm.status, severity |-> alarm.severity, ackt |-> alarm.ackt, acks |-> 0]
      BY <1>t, <2>1 DEF Alarms
    <3>. QED  BY <1>t, <3>1 DEF Alarms
  <2>2. alarm' \in Alarms
    BY <1>t, <1>13, <2>1 DEF PutAcks
  <2>. QED  BY <1>12, <1>13, <2>2 DEF PutAcks
<1>14. ASSUME NEW must \in BOOLEAN, PutAckt(must) PROVE IInv'
  <2>. DEFINE n == IF ~must /\ alarm.acks > alarm.severity THEN alarm.severity ELSE alarm.acks
  <2>1. alarm' = [alarm EXCEPT !.ackt = must, !.acks = n]
    BY <1>14 DEF PutAckt
  <2>2. n \in Int
    BY <1>t DEF Alarms
  <2>. HIDE DEF n
  <2>3. alarm' = [status |-> alarm.status, severity |-> alarm.severity, ackt |-> must, acks |-> n]
    BY <1>t, <2>1 DEF Alarms
  <2>4. alarm' \in Alarms
    BY <1>t, <2>2, <2>3 DEF Alarms
  <2>. QED  BY <1>12, <1>14, <2>4 DEF PutAckt
<1>15. ASSUME NEW rate \in {0, 1}, PutScan(rate) PROVE IInv'
  <2>1. Num(rate) \in Val
    BY NumType
  <2>2. /\ stored' = Store(stored, "SCAN", Num(rate))
        /\ UNCHANGED <<record, value, attributes, enum_strings, alarm, cached, writing>>
    BY <1>15 DEF PutScan, FieldStored
  <2>3. stored' \in [DOMAIN stored' -> Val] /\ \A g : g # "SCAN" => Stored(g)' = Stored(g)
    BY <1>0, <2>1, <2>2, StoredAfter
  <2>. QED  BY <1>l, <1>t, <2>2, <2>3, FieldStep
<1>16. CASE ScanFails \/ ScanSucceeds
  <2>1. alarm' \in Alarms
    BY <1>t, <1>16, AlarmType DEF ScanFails, ScanSucceeds, Scanned, Statuses, MAJOR_ALARM, NO_ALARM
  <2>. QED  BY <1>12, <1>16, <2>1 DEF ScanFails, ScanSucceeds, Scanned
<1>17. ASSUME NEW w \in Writers, PutterReturns(w) \/ PutterReturnsNone(w) PROVE IInv'
  <2>1. Ended(w) /\ writing[w].new \in Val
    BY <1>8, <1>17 DEF PutterReturns, PutterReturnsNone, Pending
  <2>2. Returnable(w) \subseteq Val
    BY <1>0, <1>8, <2>1, ReturnableType
  <2>3. \E returned \in Val \cup {None} : FinishWrite(w, returned)
    BY <1>17, <2>2 DEF PutterReturns, PutterReturnsNone
  <2>. QED  BY <1>9, <2>1, <2>3
<1>. QED  BY <1>1, <1>2, <1>3, <1>4, <1>5, <1>6, <1>7, <1>17, <1>10, <1>11, <1>13, <1>14, <1>15, <1>16
          DEF Next

LEMMA InitInv == Init => IInv
<1>. SUFFICES ASSUME Init PROVE IInv
  OBVIOUS
<1>1. TypeOK
  BY InitType
<1>3. AloneIsCurrent
  BY DEF Init, AloneIsCurrent
<1>. QED  BY <1>1, <1>3 DEF IInv

LEMMA InvHolds == Spec => []IInv
<1>. QED  BY InitInv, NextInv, PTL DEF Spec
---------------------------------------------------------------------------
(***************************************************************************)
(* The theorems.                                                           *)
(***************************************************************************)

\* A put to a state string, or a get of it, begins a write of VAL or leaves
\* the alarm alone; it never touches the parent's attributes.
LEMMA SetStateFacts ==
  ASSUME NEW w, NEW f, NEW v, SetState(w, f, v)
  PROVE  /\ record' = record /\ attributes' = attributes
         /\ \/ alarm' = alarm /\ alarmFields' = alarmFields
            \/ \E u, put, strings, md : BeginWrite(w, u, f, put, strings, md)
<1>. DEFINE i == StateStrings[record][f] + 1
            padded == [j \in 1 .. (IF i > Len(enum_strings) THEN i ELSE Len(enum_strings)) |->
                         IF j \in DOMAIN enum_strings THEN enum_strings[j] ELSE Str("")]
            strings == [padded EXCEPT ![i] = AsText(v)]
<1>1. /\ IF value \in {padded[i], Num(i - 1)}
           THEN BeginWrite(w, Num(i - 1), f, v, strings, NoMetadata)
           ELSE UNCHANGED <<alarm, alarmFields>>
      /\ UNCHANGED <<record, attributes>>
  BY Zenon DEF SetState
<1>. HIDE DEF strings, padded, i
<1>. QED  BY <1>1

\* STAT, SEVR, ACKS and ACKT always say what the alarm of the channel says:
\* every operation that changes the alarm publishes it.
THEOREM AlarmIsPublished == Spec => []FieldsFollowAlarm
<1>1. Init => FieldsFollowAlarm
  <2>1. Init => alarmFields = Shown(alarm)
    BY Zenon DEF Init
  <2>. QED  BY <2>1 DEF FieldsFollowAlarm
<1>2. FieldsFollowAlarm /\ [Next]_vars => FieldsFollowAlarm'
  <2>. SUFFICES ASSUME FieldsFollowAlarm, [Next]_vars PROVE FieldsFollowAlarm'
    OBVIOUS
  <2>. DEFINE Same == UNCHANGED <<alarm, alarmFields>>
              Published == alarmFields' = Shown(alarm')
  <2>. SUFFICES Same \/ Published
    BY DEF FieldsFollowAlarm, Shown
  <2>1. CASE UNCHANGED vars
    BY <2>1 DEF vars
  <2>2. ASSUME NEW w, NEW v, NEW via, NEW put, NEW strings, NEW md, BeginWrite(w, v, via, put, strings, md)
        PROVE  Same \/ Published
    BY <2>2 DEF BeginWrite, WriteFails
  <2>3. ASSUME NEW f, (\E v : PutField(f, v)) \/ PutTooLong(f) \/ GetField(f) PROVE Same
    BY <2>3 DEF PutField, PutTooLong, GetField
  <2>4. ASSUME NEW w, NEW n, NEW md, PutVal(w, n, md) \/ PutRaw(w, n) \/ PutProc(w) PROVE Same \/ Published
    BY <2>2, <2>4 DEF PutVal, PutRaw, PutProc
  <2>5. ASSUME NEW w, NEW f, GetState(w, f) \/ \E s : PutState(w, f, s) PROVE Same \/ Published
    BY <2>2, <2>5, SetStateFacts DEF GetState, PutState
  <2>6. ASSUME NEW w, PutterReturns(w) \/ PutterReturnsNone(w) \/ PutterSkips(w) \/ PutterFails(w)
        PROVE  Same \/ Published
    BY <2>6 DEF PutterReturns, PutterReturnsNone, PutterSkips, PutterFails, FinishWrite,
                SkipTheWrite, WriteFails
  <2>7. ASSUME NEW severity, PutAcks(severity) \/ PutAckt(severity) PROVE Published
    BY <2>7 DEF PutAcks, PutAckt
  <2>8. ASSUME NEW rate, PutScan(rate) PROVE Same
    BY <2>8 DEF PutScan
  <2>9. CASE ScanFails \/ ScanSucceeds
    BY <2>9 DEF ScanFails, ScanSucceeds, Scanned
  <2>. HIDE DEF Same, Published
  <2>. QED  BY <2>1, <2>3, <2>4, <2>5, <2>6, <2>7, <2>8, <2>9 DEF Next, Same
<1>. QED  BY <1>1, <1>2, PTL DEF Spec

\* A write that nothing overlapped leaves the alarm of the value that was put,
\* or, where the channel had that status already, the status its client gave.
THEOREM AlarmFits == Spec => AlarmFitsValue
<1>. DEFINE Fits(w) ==
       LET found == LimitAlarm(writing[w].val.n)
           given == writing[w].md.status
       IN IF found.status # alarm.status
            THEN alarm'.status = found.status /\ alarm'.severity = found.severity
            ELSE alarm'.status = IF given = None THEN found.status ELSE given
<1>1. ASSUME IInv, NEW w \in Writers, PutterReturns(w) \/ PutterReturnsNone(w),
             writing[w].alone, Numeric(record)
      PROVE  Fits(w)
  <2>. DEFINE p == writing[w]
              found == LimitAlarm(p.val.n)
  <2>0. TypeOK /\ Ended(w) /\ writing[w] # None
    BY <1>1 DEF IInv, PutterReturns, PutterReturnsNone, Ended
  <2>1. writing[w] \in Pending
    BY <2>0, EndedFacts
  <2>2. PICK returned : FinishWrite(w, returned)
    BY <1>1 DEF PutterReturns, PutterReturnsNone
  <2>3. PICK status \in Statuses \cup {None}, severity \in Int \cup {None} :
          /\ alarm' \in Alarms
          /\ \/ status = None /\ severity = None /\ alarm' = alarm
             \/ alarm' = AlarmWrite(alarm, status, severity)
          /\ Collected = None => status = p.md.status
          /\ Collected # None => status = Collected.status /\ severity = Collected.severity
    BY <2>0, <2>1, <2>2, FinishAlarm
  <2>4. cached = found
    BY <1>1, <2>0 DEF IInv, AloneIsCurrent
  <2>5. found \in Found /\ alarm \in Alarms
    BY <2>0, LimitType DEF TypeOK
  <2>. HIDE DEF found
  <2>6. found # None /\ found.status # None /\ found.severity # None
    BY <2>5, ValueAssumption DEF Found
  <2>7. /\ alarm'.status = IF status = None THEN alarm.status ELSE status
        /\ severity # None => alarm'.severity = severity
    <3>1. /\ AlarmWrite(alarm, status, severity).status = IF status = None THEN alarm.status ELSE status
          /\ AlarmWrite(alarm, status, severity).severity =
               IF severity = None THEN alarm.severity ELSE severity
      BY <2>5, AlarmType
    <3>. QED  BY <2>3, <3>1
  <2>8. CASE found.status = alarm.status
    <3>1. Collected = None
      BY <2>4, <2>8 DEF Collected
    <3>2. alarm'.status = IF p.md.status = None THEN found.status ELSE p.md.status
      BY <2>3, <2>7, <2>8, <3>1
    <3>. QED  BY <2>8, <3>2 DEF found
  <2>9. CASE found.status # alarm.status
    <3>1. Collected = found
      BY <2>4, <2>6, <2>9 DEF Collected
    <3>2. alarm'.status = found.status /\ alarm'.severity = found.severity
      BY <2>3, <2>6, <2>7, <3>1
    <3>. QED  BY <2>9, <3>2 DEF found
  <2>. QED  BY <2>8, <2>9
<1>2. IInv /\ [Next]_vars =>
        [\A w \in Writers :
           (PutterReturns(w) \/ PutterReturnsNone(w)) /\ writing[w].alone /\ Numeric(record) =>
             Fits(w)]_vars
  <2>. HIDE DEF Fits
  <2>. QED  BY <1>1
<1>. QED  BY <1>2, InvHolds, PTL DEF Spec, AlarmFitsValue

\* What clients read of a linked field changes only with a put to that field,
\* or to what the metadata of a write of VAL gave for it.
THEOREM FieldsIndependent == Spec => FieldsAreIndependent
<1>. DEFINE Given(f) ==
       \E w \in Writers :
         /\ writing[w] # None /\ writing'[w] = None
         /\ ParentLinks[record][f] \in DOMAIN writing[w].md.attributes
         /\ Visible(f)' = writing[w].md.attributes[ParentLinks[record][f]]
<1>1. ASSUME IInv, [Next]_vars, NEW f \in DOMAIN ParentLinks[record], Visible(f)' # Visible(f)
      PROVE  PutField(f, Visible(f)') \/ Given(f)
  <2>. DEFINE a == ParentLinks[record][f]
  <2>0. TypeOK /\ record \in DOMAIN records /\ attributes \in [AttributesOf(record) -> Val]
    BY <1>1, RecordAssumption DEF IInv, TypeOK
  <2>1. ASSUME record' = record
        PROVE  /\ Visible(f) = IF a \in DOMAIN attributes THEN attributes[a] ELSE Num(0)
               /\ Visible(f)' = IF a \in DOMAIN attributes' THEN attributes'[a] ELSE Num(0)
    BY <2>1 DEF Visible
  <2>2. ASSUME UNCHANGED <<record, attributes>> PROVE FALSE
    BY <1>1, <2>1, <2>2
  <2>. HIDE DEF a
  <2>3. ASSUME NEW g, NEW v \in PutValues(g), PutField(g, v)
        PROVE  PutField(f, Visible(f)')
    <3>1. v \in Val /\ LinkedWrite(g, v) /\ record' = record
      BY <2>0, <2>3, PutType DEF PutField
    <3>2. /\ DOMAIN attributes' = DOMAIN attributes
          /\ \A b \in DOMAIN attributes :
               attributes'[b] = IF g \in DOMAIN ParentLinks[record] /\ ParentLinks[record][g] = b
                                THEN v ELSE attributes[b]
      BY <2>0, <3>1, LinkedAfter
    <3>3. a \in DOMAIN attributes /\ attributes'[a] # attributes[a] /\ Visible(f)' = attributes'[a]
      BY <1>1, <2>1, <3>1, <3>2
    <3>4. g \in DOMAIN ParentLinks[record] /\ ParentLinks[record][g] = a /\ Visible(f)' = v
      BY <3>2, <3>3
    <3>5. f = g
      BY <1>1, <2>0, <3>4, LinkFacts DEF a
    <3>. QED  BY <2>3, <3>4, <3>5
  <2>4. ASSUME NEW g, GetField(g) PROVE FALSE
    <3>1. record' = record /\ LinkedWrite(g, Visible(g)) /\ g \in DOMAIN ParentLinks[record]
      BY <2>4 DEF GetField
    <3>2. attributes' = attributes
      BY <2>0, <3>1 DEF Visible, LinkedWrite
    <3>. QED  BY <2>2, <3>1, <3>2
  <2>5. ASSUME NEW w, NEW n, NEW md, NEW g, \/ PutVal(w, n, md) \/ PutRaw(w, n) \/ PutProc(w)
                                            \/ PutTooLong(g) \/ GetState(w, g)
                                            \/ \E s : PutState(w, g, s)
        PROVE  UNCHANGED <<record, attributes>>
    BY <2>5, SetStateFacts DEF PutVal, PutRaw, PutProc, PutTooLong, GetState, PutState
  <2>6. ASSUME NEW w, PutterSkips(w) \/ PutterFails(w)
        PROVE  UNCHANGED <<record, attributes>>
    BY <2>6 DEF PutterSkips, PutterFails, SkipTheWrite, Ended
  <2>7. ASSUME NEW n, \/ PutAcks(n) \/ PutAckt(n) \/ PutScan(n) \/ ScanFails \/ ScanSucceeds
                      \/ UNCHANGED vars
        PROVE  UNCHANGED <<record, attributes>>
    BY <2>7 DEF PutAcks, PutAckt, PutScan, ScanFails, ScanSucceeds, Scanned, vars
  <2>8. ASSUME NEW w \in Writers, PutterReturns(w) \/ PutterReturnsNone(w)
        PROVE  Given(f)
    <3>. DEFINE given == writing[w].md.attributes
    <3>1. Ended(w) /\ record' = record
      BY <2>8 DEF PutterReturns, PutterReturnsNone, Ended
    <3>2. writing[w] # None /\ writing'[w] = None
      BY <2>0, <3>1, OverlappedType DEF Ended
    <3>3. PICK returned : FinishWrite(w, returned)
      BY <2>8 DEF PutterReturns, PutterReturnsNone
    <3>4. attributes' = [b \in DOMAIN attributes |-> IF b \in DOMAIN given THEN given[b] ELSE attributes[b]]
      BY <3>3 DEF FinishWrite
    <3>. HIDE DEF given
    <3>5. a \in DOMAIN given /\ Visible(f)' = given[a]
      BY <1>1, <2>1, <3>1, <3>4
    <3>. QED  BY <3>2, <3>5 DEF given, a
  <2>. HIDE DEF Given
  <2>. QED  BY <1>1, <2>2, <2>3, <2>4, <2>5, <2>6, <2>7, <2>8 DEF Next
<1>2. IInv /\ [Next]_vars =>
        [\A f \in DOMAIN ParentLinks[record] :
           Visible(f)' # Visible(f) =>
             \/ PutField(f, Visible(f)')
             \/ \E w \in Writers :
                  /\ writing[w] # None /\ writing'[w] = None
                  /\ ParentLinks[record][f] \in DOMAIN writing[w].md.attributes
                  /\ Visible(f)' = writing[w].md.attributes[ParentLinks[record][f]]]_vars
  BY <1>1
<1>. QED  BY <1>2, InvHolds, PTL DEF Spec, FieldsAreIndependent

\* While transient alarms must be acknowledged, only an acknowledgement lowers
\* the severity to acknowledge.
THEOREM TransientKept == Spec => TransientIsKept
<1>1. ASSUME IInv, [Next]_vars, alarm'.ackt, alarm'.acks < alarm.acks
      PROVE  \E severity \in Severities : PutAcks(severity)
  <2>0. TypeOK /\ alarm \in Alarms /\ alarm.acks \in Int
    BY <1>1 DEF IInv, TypeOK, Alarms
  <2>1. ~UNCHANGED alarm
    BY <1>1, <2>0
  <2>2. ASSUME NEW status \in Statuses \cup {None}, NEW severity \in Int \cup {None},
               alarm' = AlarmWrite(alarm, status, severity)
        PROVE  FALSE
    <3>1. /\ AlarmWrite(alarm, status, severity) \in Alarms
          /\ AlarmWrite(alarm, status, severity).ackt = alarm.ackt
          /\ alarm.ackt => AlarmWrite(alarm, status, severity).acks >= alarm.acks
      BY <2>0, AlarmType
    <3>2. alarm.ackt /\ alarm'.acks >= alarm.acks /\ alarm'.acks \in Int
      BY <1>1, <2>2, <3>1 DEF Alarms
    <3>. QED  BY <1>1, <2>0, <3>2
  <2>3. ASSUME NEW via, WriteFails(via) PROVE FALSE
    BY <2>2, <2>3 DEF WriteFails, MAJOR_ALARM, Statuses
  <2>4. ASSUME NEW w, NEW v, NEW via, NEW put, NEW strings, NEW md, BeginWrite(w, v, via, put, strings, md) PROVE FALSE
    BY <2>1, <2>3, <2>4 DEF BeginWrite
  <2>5. ASSUME NEW f, (\E v : PutField(f, v)) \/ PutTooLong(f) \/ GetField(f) PROVE FALSE
    BY <2>1, <2>5 DEF PutField, PutTooLong, GetField
  <2>6. ASSUME NEW w, NEW n, NEW md, PutVal(w, n, md) \/ PutRaw(w, n) \/ PutProc(w) PROVE FALSE
    BY <2>4, <2>6 DEF PutVal, PutRaw, PutProc
  <2>7. ASSUME NEW w, NEW f, GetState(w, f) \/ \E s : PutState(w, f, s) PROVE FALSE
    BY <2>1, <2>4, <2>7, SetStateFacts DEF GetState, PutState
  <2>8. ASSUME NEW w \in Writers, NEW returned, Ended(w), FinishWrite(w, returned) PROVE FALSE
    <3>1. writing[w] \in Pending
      BY <2>0, <2>8, EndedFacts
    <3>2. \E status \in Statuses \cup {None}, severity \in Int \cup {None} :
             alarm' = alarm \/ alarm' = AlarmWrite(alarm, status, severity)
      BY <2>0, <2>8, <3>1, FinishAlarm
    <3>. QED  BY <2>1, <2>2, <3>2
  <2>9. ASSUME NEW w \in Writers, \/ PutterReturns(w) \/ PutterReturnsNone(w)
                                  \/ PutterSkips(w) \/ PutterFails(w)
        PROVE  FALSE
    BY <2>1, <2>3, <2>8, <2>9 DEF PutterReturns, PutterReturnsNone, PutterSkips, PutterFails, SkipTheWrite
  <2>10. ASSUME NEW must \in BOOLEAN, PutAckt(must) PROVE FALSE
    <3>. DEFINE n == IF ~must /\ alarm.acks > alarm.severity THEN alarm.severity ELSE alarm.acks
    <3>1. alarm' = [alarm EXCEPT !.ackt = must, !.acks = n]
      BY <2>10 DEF PutAckt
    <3>2. must => n = alarm.acks
      OBVIOUS
    <3>. HIDE DEF n
    <3>3. alarm'.ackt = must /\ alarm'.acks = n
      BY <2>0, <3>1 DEF Alarms
    <3>. QED  BY <1>1, <2>0, <3>2, <3>3
  <2>11. ASSUME NEW rate, PutScan(rate) PROVE FALSE
    BY <2>1, <2>11 DEF PutScan
  <2>12. ~ScanFails /\ ~ScanSucceeds
    BY <2>2 DEF ScanFails, ScanSucceeds, Scanned, MAJOR_ALARM, NO_ALARM, Statuses
  <2>. QED  BY <1>1, <2>1, <2>5, <2>6, <2>7, <2>9, <2>10, <2>11, <2>12 DEF Next, vars
<1>. QED  BY <1>1, InvHolds, PTL DEF Spec, TransientIsKept

\* A write of an enum record that nothing overlapped leaves RVAL naming the
\* state VAL has, also when it was RVAL that was put to.
THEOREM RawNames == Spec => RawNamesValue
<1>. DEFINE Named ==
       LET raw == Stored("RVAL")'.n
       IN raw + 1 \in DOMAIN enum_strings /\ value' = enum_strings[raw + 1]
<1>1. ASSUME IInv, NEW w \in Writers, PutterReturns(w), writing[w].alone, Enum(record),
             writing[w].via = "RVAL" => value' = writing[w].new,
             RawValue(value', enum_strings) # -1
      PROVE  Named
  <2>. DEFINE p == writing[w]
  <2>0. TypeOK /\ Ended(w) /\ writing[w] # None
    BY <1>1 DEF IInv, PutterReturns, Ended
  <2>1. p \in Pending /\ record' = record /\ enum_strings \in Seq(Names)
    BY <2>0, EndedFacts DEF TypeOK
  <2>2. PICK returned \in Returnable(w) : FinishWrite(w, returned)
    BY <1>1 DEF PutterReturns
  <2>3. value' = returned
    <3>1. returned # None
      BY <2>0, <2>1, <2>2, ReturnableType, ValueAssumption DEF Val, Texts
    <3>. QED  BY <2>2, <3>1 DEF FinishWrite
  <2>4. stored' = ViaStored(RawStored(stored, returned), p)
    BY <2>2 DEF FinishWrite
  <2>. DEFINE index == RawValue(returned, enum_strings)
  <2>5. /\ \A f : f # "VAL" /\ f = p.via => Stored(f)' = p.put
        /\ Enum(record) /\ index # -1 /\ p.via # "RVAL" => Stored("RVAL")' = Num(index)
    BY <2>0, <2>1, <2>4, FinishStored
  <2>6. index # -1 /\ index + 1 \in DOMAIN enum_strings /\ returned = enum_strings[index + 1]
    BY <1>1, <2>1, <2>3, RawFacts
  <2>. HIDE DEF index
  <2>7. CASE p.via = "RVAL"
    <3>1. /\ returned = EnumValue(p.val, enum_strings)
          /\ p.put = p.val /\ p.val.kind = "number"
      BY <1>1, <2>0, <2>3, <2>7 DEF IInv, AloneIsCurrent
    <3>2. returned.kind # "number"
      <4>1. enum_strings[index + 1] \in Names
        BY <2>1, <2>6
      <4>. QED  BY <2>6, <4>1, NamesType
    <3>3. p.val.n + 1 \in DOMAIN enum_strings /\ returned = enum_strings[p.val.n + 1]
      BY <3>1, <3>2 DEF EnumValue
    <3>4. Stored("RVAL")' = p.val
      BY <2>5, <2>7, <3>1
    <3>. QED  BY <2>3, <3>3, <3>4
  <2>8. CASE p.via # "RVAL"
    <3>1. Stored("RVAL")' = Num(index)
      BY <1>1, <2>5, <2>6, <2>8
    <3>2. Num(index).n = index
      BY DEF Num
    <3>3. Stored("RVAL")'.n = index
      BY <3>1, <3>2
    <3>. QED  BY <2>3, <2>6, <3>3
  <2>. QED  BY <2>7, <2>8
<1>2. IInv /\ [Next]_vars =>
        [\A w \in Writers :
           /\ PutterReturns(w) /\ writing[w].alone /\ Enum(record)
           /\ writing[w].via = "RVAL" => value' = writing[w].new
           /\ RawValue(value', enum_strings) # -1
           => Named]_vars
  <2>. HIDE DEF Named
  <2>. QED  BY <1>1
<1>. QED  BY <1>2, InvHolds, PTL DEF Spec, RawNamesValue
=============================================================================
