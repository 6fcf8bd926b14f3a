---- MODULE MCChannelRecord ----
(* ChannelRecord with every record type; VAL is written in an ai and in an mbbi. *)
EXTENDS ChannelRecord

AllRecords == DOMAIN records

\* Any field of the record types whose VAL is left alone, the ones that matter to VAL of the others.
Puts ==
  [r \in AllRecords |->
     CASE r = "ai" -> {"HIHI", "HIGH", "HHSV", "PROC", "SCAN"}
       [] r = "mbbi" -> {"ZRST", "TWST", "RVAL", "PROC"}
       [] OTHER -> FieldsOf[r]]

\* One put to any field of each of the others.
PutBounds == [r \in AllRecords |-> IF r \in Written THEN 2 ELSE 1]

\* A native type, a DBR_STS type, one whose status is no AlarmStatus, a DBR_CTRL_DOUBLE and a
\* DBR_CTRL_ENUM.
Control ==
  [a \in {"precision", "upper_alarm_limit", "lower_alarm_limit", "upper_warning_limit",
          "lower_warning_limit", "upper_ctrl_limit", "lower_ctrl_limit"} |->
     Num(CASE a = "upper_alarm_limit" -> 2 [] a = "upper_ctrl_limit" -> 1 [] OTHER -> 0)]

DBRs ==
  {NoMetadata,
   [NoMetadata EXCEPT !.status = "LINK", !.severity = 3],
   [NoMetadata EXCEPT !.severity = 1],
   [NoMetadata EXCEPT !.status = NO_ALARM, !.severity = 0, !.attributes = Control],
   [NoMetadata EXCEPT !.status = NO_ALARM, !.severity = 0, !.enum_strings = <<Bytes("c")>>]}

Symmetry == Permutations(Writers)

====
