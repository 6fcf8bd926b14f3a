---------------------------- MODULE ChannelTypes ----------------------------
(***************************************************************************)
(* The data types of Channel Access (_dbr.py) as the integers of the enum  *)
(* ChannelType: seven native types, each promoted in four ways, and four   *)
(* special types.  A structure is known by the sizes of its fields, in     *)
(* bytes and in order: what the wire format depends on is where the value  *)
(* starts behind its metadata.                                             *)
(***************************************************************************)
EXTENDS Naturals, Sequences

STRING_ == 0
INT     == 1
FLOAT   == 2
ENUM    == 3
CHAR    == 4
LONG    == 5
DOUBLE  == 6

ChannelType   == 0..38
native_types  == 0..6
special_types == 35..38

\* a native type n is promoted to STS_n, TIME_n, GR_n and CTRL_n
STS(n)  == 7 + n
TIME(n) == 14 + n
GR(n)   == 21 + n
CTRL(n) == 28 + n

PUT_ACKT      == 35
PUT_ACKS      == 36
STSACK_STRING == 37
CLASS_NAME    == 38

MAX_STRING_SIZE      == 40
MAX_UNITS_SIZE       == 8
MAX_ENUM_STRING_SIZE == 26
MAX_ENUM_STATES      == 16

DBE_VALUE    == 1
DBE_LOG      == 2
DBE_ALARM    == 4
DBE_PROPERTY == 8
------------------------------------------------------------------------------
(* The tables of promotions.  GR_STRING and CTRL_STRING are keys of the    *)
(* table of native types only; looking one up elsewhere is a KeyError.     *)

field_types_native ==
  [t \in ChannelType |-> IF t \in special_types THEN t ELSE t % 7]

native_type(t) == field_types_native[t]

PromotableTypes == ChannelType \ {GR(STRING_), CTRL(STRING_)}

field_types_status ==
  [t \in PromotableTypes |-> IF t \in special_types THEN t ELSE STS(native_type(t))]

field_types_time ==
  [t \in PromotableTypes |-> IF t \in special_types THEN t ELSE TIME(native_type(t))]

field_types_graphic ==
  [t \in PromotableTypes |->
     IF t \in special_types THEN t
     ELSE IF native_type(t) = STRING_ THEN STS(STRING_) ELSE GR(native_type(t))]

field_types_control ==
  [t \in PromotableTypes |->
     IF t \in special_types THEN t
     ELSE IF native_type(t) = STRING_ THEN TIME(STRING_) ELSE CTRL(native_type(t))]

field_types ==
  [native  |-> field_types_native,  status  |-> field_types_status,
   time    |-> field_types_time,    graphic |-> field_types_graphic,
   control |-> field_types_control]
------------------------------------------------------------------------------
(* The structures, packed (_pack_ = 1).                                    *)

\* string, int, float, enum, char, long, double
native_size == [n \in native_types |-> <<MAX_STRING_SIZE, 2, 4, 2, 1, 4, 8>>[n + 1]]

\* status and severity, and the padding that aligns the value
DBR_STS == [n \in native_types |->
  <<2, 2>> \o (IF n = CHAR THEN <<1>> ELSE IF n = DOUBLE THEN <<4>> ELSE <<>>)]

TimeStamp == <<4, 4>>

DBR_TIME == [n \in native_types |->
  <<2, 2>> \o TimeStamp \o (IF n \in {INT, ENUM} THEN <<2>>
                            ELSE IF n = CHAR THEN <<2, 1>>
                            ELSE IF n = DOUBLE THEN <<4>> ELSE <<>>)]

\* status, severity, [precision, padding], units and k limits of the native type
Limits(n, k) ==
  <<2, 2>> \o (IF n \in {FLOAT, DOUBLE} THEN <<2, 2>> ELSE <<>>) \o <<MAX_UNITS_SIZE>>
           \o [i \in 1..k |-> native_size[n]]
           \o (IF n = CHAR THEN <<1>> ELSE <<>>)

EnumWithStrings == <<2, 2, 2>> \o [i \in 1..MAX_ENUM_STATES |-> MAX_ENUM_STRING_SIZE]

DBR_GR == [n \in native_types |->
  IF n = STRING_ THEN DBR_STS[STRING_] ELSE IF n = ENUM THEN EnumWithStrings ELSE Limits(n, 6)]

DBR_CTRL == [n \in native_types |->
  IF n = STRING_ THEN DBR_TIME[STRING_] ELSE IF n = ENUM THEN EnumWithStrings ELSE Limits(n, 8)]

\* put_ackt, put_acks, stsack_string, class_name
DBR_special == [t \in special_types |->
  <<<<2>>, <<2>>, <<2, 2, 2, 2, MAX_STRING_SIZE>>, <<MAX_STRING_SIZE>>>>[t - 34]]

DBR_TYPES(t) ==
  IF t \in special_types THEN DBR_special[t]
  ELSE <<<<native_size[t % 7]>>, DBR_STS[t % 7], DBR_TIME[t % 7],
         DBR_GR[t % 7], DBR_CTRL[t % 7]>>[(t \div 7) + 1]

sizeof(fields) ==
  LET upto[i \in 0..Len(fields)] == IF i = 0 THEN 0 ELSE fields[i] + upto[i - 1]
  IN  upto[Len(fields)]
==============================================================================
