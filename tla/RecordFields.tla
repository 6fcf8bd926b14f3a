---- MODULE RecordFields ----
(***************************************************************************)
(* The fields of the EPICS records a pvproperty can take the shape of:     *)
(* caproto/server/records/base.py (one class per record type, generated    *)
(* from the EPICS database definitions), records.py and mixins.py (which   *)
(* fields are tied to the channel they belong to).                         *)
(*                                                                         *)
(* A class is the set of its field names, by how a client may put to them: *)
(* a number (which also evaluates the alarm limits of the field), a menu   *)
(* (an enum), a text (CHAR with a maximum length, or STRING), or read-only.*)
(* Descriptions, defaults and menu strings are left out.                   *)
(***************************************************************************)
EXTENDS Integers, Sequences, FiniteSets, TLC

\* A group of pvproperty fields.
FieldGroup(number, menu, text, ro) ==
  [number |-> number, menu |-> menu, text |-> text, ro |-> ro]

\* copy_pvproperties: the fields of several groups in one class.
Together(groups) ==
  FieldGroup(UNION {g.number : g \in groups}, UNION {g.menu : g \in groups},
             UNION {g.text : g \in groups}, UNION {g.ro : g \in groups})

\* _Limits and _LimitsLong: the alarm limits, their severities and the operating range.
Limits ==
  FieldGroup({"HIGH", "HIHI", "LOLO", "LOW", "HOPR", "LOPR"}, {"HSV", "HHSV", "LLSV", "LSV"}, {}, {})

\* Mutant: LOW is linked to the attribute of HIGH.
LimitLinks_Mixed ==
  [HIHI |-> "upper_alarm_limit", LOLO |-> "lower_alarm_limit", HIGH |-> "upper_warning_limit",
   LOW |-> "upper_warning_limit", HOPR |-> "upper_ctrl_limit", LOPR |-> "lower_ctrl_limit"]

\* The attribute of the channel that each of them is linked to.
LimitLinks ==
  [HIHI |-> "upper_alarm_limit", LOLO |-> "lower_alarm_limit", HIGH |-> "upper_warning_limit",
   LOW |-> "lower_warning_limit", HOPR |-> "upper_ctrl_limit", LOPR |-> "lower_ctrl_limit"]

\* RTYP, the field that every record class adds to the generated ones.
RecordType == FieldGroup({}, {}, {}, {"RTYP"})

RecordFieldGroup == FieldGroup({"DISA", "DISP", "DISV", "PHAS", "PROC", "TPRO", "TSE", "UDF"},
  {"DISS", "DTYP", "PINI", "PRIO", "SCAN", "UDFS"}, {"ASG", "DESC", "EVNT", "FLNK", "SDIS",
  "TSEL"}, {"ACKS", "ACKT", "LCNT", "NAME", "NSEV", "NSTA", "PACT", "PUTF", "RPRO", "SEVR",
  "STAT"})

\* A record class: the data type of its VAL (ANY where the user chooses it), whether it has the limits,
\* and its fields.
Class(dtype, limits, own) ==
  [dtype |-> dtype, limits |-> limits]
  @@ Together({RecordFieldGroup, RecordType, own} \cup IF limits THEN {Limits} ELSE {})

AiFields == Class("DOUBLE", TRUE, FieldGroup({"RVAL", "ROFF", "SVAL", "HYST", "AOFF", "ASLO",
  "EGUF", "EGUL", "EOFF", "ESLO", "SMOO", "ADEL", "PREC", "MDEL", "AFTC", "SDLY"}, {"DTYP",
  "SIMM", "LINR", "SIMS", "SSCN"}, {"EGU", "INP", "SIOL", "SIML"}, {"INIT", "MLST", "LALM",
  "ALST", "LBRK", "ORAW", "AFVL", "OLDSIMM"}))

AsubFields1 == FieldGroup({}, {"DTYP", "BRSV", "EFLG"}, {}, {"FTA", "FTB", "FTC", "FTD", "FTE",
  "FTF", "FTG", "FTH", "FTI", "FTJ", "FTK", "FTL", "FTM", "FTN", "FTO"})
AsubFields2 == FieldGroup({}, {}, {}, {"FTP", "FTQ", "FTR", "FTS", "FTT", "FTU", "FTVA", "FTVB",
  "FTVC", "FTVD", "FTVE", "FTVF", "FTVG", "FTVH", "FTVI", "FTVJ", "FTVK", "FTVL"})
AsubFields3 == FieldGroup({}, {"LFLG"}, {"INPA", "INPB", "INPC", "INPD", "INPE", "INPF", "INPG",
  "INPH", "INPI", "INPJ", "INPK", "INPL", "INPM", "INPN", "INPO", "INPP", "INPQ", "INPR", "INPS",
  "INPT", "INPU"}, {"FTVM", "FTVN", "FTVO", "FTVP", "FTVQ", "FTVR", "FTVS", "FTVT", "FTVU",
  "INAM"})
AsubFields4 == FieldGroup({}, {}, {}, {"NEA", "NEB", "NEC", "NED", "NEE", "NEF", "NEG", "NEH",
  "NEI", "NEJ", "NEK", "NEL", "NEM", "NEN", "NEO", "NEP", "NEQ", "NER", "NES", "NET", "NEU"})
AsubFields5 == FieldGroup({}, {}, {}, {"NEVA", "NEVB", "NEVC", "NEVD", "NEVE", "NEVF", "NEVG",
  "NEVH", "NEVI", "NEVJ", "NEVK", "NEVL", "NEVM", "NEVN", "NEVO", "NEVP", "NEVQ", "NEVR", "NEVS",
  "NEVT", "NEVU"})
AsubFields6 == FieldGroup({}, {}, {}, {"NOA", "NOB", "NOC", "NOD", "NOE", "NOF", "NOG", "NOH",
  "NOI", "NOJ", "NOK", "NOL", "NOM", "NON", "NOO", "NOP", "NOQ", "NOR", "NOS", "NOT", "NOU"})
AsubFields7 == FieldGroup({}, {}, {}, {"NOVA", "NOVB", "NOVC", "NOVD", "NOVE", "NOVF", "NOVG",
  "NOVH", "NOVI", "NOVJ", "NOVK", "NOVL", "NOVM", "NOVN", "NOVO", "NOVP", "NOVQ", "NOVR", "NOVS",
  "NOVT", "NOVU"})
AsubFields8 == FieldGroup({}, {}, {}, {"ONAM", "ONVA", "ONVB", "ONVC", "ONVD", "ONVE", "ONVF",
  "ONVG", "ONVH", "ONVI", "ONVJ", "ONVK", "ONVL", "ONVM", "ONVN", "ONVO", "ONVP", "ONVQ", "ONVR",
  "ONVS", "ONVT"})
AsubFields9 == FieldGroup({"PREC"}, {}, {"OUTA", "OUTB", "OUTC", "OUTD", "OUTE", "OUTF", "OUTG",
  "OUTH", "OUTI", "OUTJ", "OUTK", "OUTL", "OUTM", "OUTN", "OUTO", "OUTP", "OUTQ", "OUTR", "OUTS",
  "OUTT", "OUTU", "SNAM"}, {"ONVU", "OVAL", "SUBL"})
AsubFields == Class("LONG", FALSE, Together({AsubFields1, AsubFields2, AsubFields3, AsubFields4, AsubFields5, AsubFields6, AsubFields7, AsubFields8, AsubFields9}))

AaiFields == Class("ANY", FALSE, FieldGroup({"HASH", "HOPR", "LOPR", "PREC", "SDLY"}, {"DTYP",
  "APST", "MPST", "SIMM", "SIMS", "SSCN"}, {"EGU", "INP", "SIML", "SIOL"}, {"FTVL", "NELM",
  "NORD", "OLDSIMM"}))

AaoFields == Class("ANY", FALSE, FieldGroup({"HASH", "HOPR", "LOPR", "PREC", "SDLY"}, {"DTYP",
  "APST", "MPST", "SIMM", "SIMS", "SSCN"}, {"EGU", "OUT", "SIML", "SIOL"}, {"FTVL", "NELM",
  "NORD", "OLDSIMM"}))

AoFields == Class("DOUBLE", TRUE, FieldGroup({"ADEL", "AOFF", "ASLO", "DRVH", "DRVL", "EGUF",
  "EGUL", "EOFF", "ESLO", "HYST", "IVOV", "MDEL", "OROC", "OVAL", "PREC", "ROFF", "RVAL", "SDLY"},
  {"DTYP", "IVOA", "LINR", "OIF", "OMSL", "SIMM", "SIMS", "SSCN"}, {"DOL", "EGU", "OUT", "SIML",
  "SIOL"}, {"ALST", "INIT", "LALM", "LBRK", "MLST", "OLDSIMM", "OMOD", "ORAW", "ORBV", "PVAL",
  "RBV"}))

AsynFields1 == FieldGroup({"ADDR", "AQR", "F64IV", "F64OUT", "GPIBIV", "I32IV", "I32OUT"},
  {"DTYP", "ACMD", "AUCT", "BAUD", "CNCT", "DBIT", "DRTO", "ENBL", "FCTL"}, {"AOUT", "BINP",
  "BOUT", "DRVINFO", "HOSTINFO", "IEOS"}, {"AINP", "EOMR", "F64INP", "I32INP"})
AsynFields2 == FieldGroup({"LBAUD", "NAWT", "NOWT", "NRRD", "OCTETIV", "OPTIONIV", "REASON"},
  {"IFACE", "IFMT", "IXANY", "IXOFF", "IXON", "MCTL", "OFMT", "PCNCT", "PRTY", "SBIT", "TB0",
  "TB1", "TB2"}, {"OEOS", "PORT"}, {"IMAX", "NORD", "OMAX", "SPR"})
AsynFields3 == FieldGroup({"TINM", "TIOM", "TMOT", "TMSK", "TSIZ", "UI32IV", "UI32MASK",
  "UI32OUT"}, {"TB3", "TB4", "TB5", "TIB0", "TIB1", "TIB2", "TINB0", "TINB1", "TINB2", "TINB3",
  "TMOD", "UCMD"}, {"TFIL"}, {"TINP", "UI32INP"})
AsynFields == Class("LONG", FALSE, Together({AsynFields1, AsynFields2, AsynFields3}))

BiFields == Class("ENUM", FALSE, FieldGroup({"RVAL", "SDLY", "SVAL"}, {"DTYP", "COSV", "OSV",
  "SIMM", "SIMS", "SSCN", "ZSV"}, {"INP", "ONAM", "SIML", "SIOL", "ZNAM"}, {"LALM", "MASK",
  "MLST", "OLDSIMM", "ORAW"}))

BoFields == Class("ENUM", FALSE, FieldGroup({"HIGH", "IVOV", "RVAL", "SDLY"}, {"DTYP", "COSV",
  "IVOA", "OMSL", "OSV", "SIMM", "SIMS", "SSCN", "ZSV"}, {"DOL", "ONAM", "OUT", "SIML", "SIOL",
  "ZNAM"}, {"LALM", "MASK", "MLST", "OLDSIMM", "ORAW", "ORBV", "RBV"}))

CalcFields == Class("DOUBLE", TRUE, FieldGroup({"A", "ADEL", "AFTC", "B", "C", "D", "E", "F", "G",
  "H", "HYST", "I", "J", "K", "L", "MDEL", "PREC"}, {"DTYP"}, {"CALC", "EGU", "INPA", "INPB",
  "INPC", "INPD", "INPE", "INPF", "INPG", "INPH", "INPI", "INPJ", "INPK", "INPL"}, {"AFVL",
  "ALST", "LA", "LALM", "LB", "LC", "LD", "LE", "LF", "LG", "LH", "LI", "LJ", "LK", "LL",
  "MLST"}))

CalcoutFields1 == FieldGroup({"A", "ADEL", "B", "C", "CLCV", "D", "E", "F", "G", "H", "HYST",
  "I"}, {"DTYP", "DOPT"}, {"CALC", "EGU"}, {"ALST", "DLYA", "INAV", "INBV", "INCV", "INDV",
  "INEV", "INFV", "INGV", "INHV"})
CalcoutFields2 == FieldGroup({"IVOV", "J", "K", "L", "MDEL"}, {"IVOA"}, {"INPA", "INPB", "INPC",
  "INPD", "INPE", "INPF", "INPG", "INPH", "INPI", "INPJ", "INPK", "INPL"}, {"INIV", "INJV",
  "INKV", "INLV", "LA", "LALM", "LB", "LC", "LD", "LE", "LF", "LG", "LH", "LI", "LJ", "LK", "LL",
  "MLST"})
CalcoutFields3 == FieldGroup({"OCLV", "ODLY", "OVAL", "POVL", "PREC", "PVAL"}, {"OOPT"}, {"OCAL",
  "OEVT", "OUT"}, {"OUTV"})
CalcoutFields == Class("DOUBLE", TRUE, Together({CalcoutFields1, CalcoutFields2, CalcoutFields3}))

CompressFields == Class("ANY", FALSE, FieldGroup({"HOPR", "IHIL", "ILIL", "LOPR", "N", "PREC",
  "RES"}, {"DTYP", "ALG", "BALG"}, {"EGU", "INP"}, {"CVB", "INPN", "INX", "NSAM", "NUSE", "OFF",
  "OUSE"}))

DfanoutFields == Class("DOUBLE", TRUE, FieldGroup({"ADEL", "HYST", "MDEL", "PREC", "SELN"},
  {"DTYP", "OMSL", "SELM"}, {"DOL", "EGU", "OUTA", "OUTB", "OUTC", "OUTD", "OUTE", "OUTF", "OUTG",
  "OUTH", "SELL"}, {"ALST", "LALM", "MLST"}))

EventFields == Class("STRING", FALSE, FieldGroup({"SDLY"}, {"DTYP", "SIMM", "SIMS", "SSCN"},
  {"INP", "SIML", "SIOL", "SVAL"}, {"OLDSIMM"}))

FanoutFields == Class("LONG", FALSE, FieldGroup({"OFFS", "SELN", "SHFT"}, {"DTYP", "SELM"},
  {"LNK0", "LNK1", "LNK2", "LNK3", "LNK4", "LNK5", "LNK6", "LNK7", "LNK8", "LNK9", "LNKA", "LNKB",
  "LNKC", "LNKD", "LNKE", "LNKF", "SELL"}, {}))

HistogramFields == Class("ANY", FALSE, FieldGroup({"HOPR", "LLIM", "LOPR", "MDEL", "PREC", "SDEL",
  "SDLY", "SGNL", "SVAL", "ULIM"}, {"DTYP", "CMD", "SIMM", "SIMS", "SSCN"}, {"SIML", "SIOL",
  "SVL"}, {"CSTA", "MCNT", "NELM", "OLDSIMM", "WDTH"}))

Int64inFields == Class("LONG", TRUE, FieldGroup({"ADEL", "AFTC", "HYST", "MDEL", "SDLY", "SVAL"},
  {"DTYP", "SIMM", "SIMS", "SSCN"}, {"EGU", "INP", "SIML", "SIOL"}, {"AFVL", "ALST", "LALM",
  "MLST", "OLDSIMM"}))

Int64outFields == Class("LONG", TRUE, FieldGroup({"ADEL", "DRVH", "DRVL", "HYST", "IVOV", "MDEL",
  "SDLY"}, {"DTYP", "IVOA", "OMSL", "SIMM", "SIMS", "SSCN"}, {"DOL", "EGU", "OUT", "SIML",
  "SIOL"}, {"ALST", "LALM", "MLST", "OLDSIMM"}))

LonginFields == Class("LONG", TRUE, FieldGroup({"ADEL", "AFTC", "HYST", "MDEL", "SDLY", "SVAL"},
  {"DTYP", "SIMM", "SIMS", "SSCN"}, {"EGU", "INP", "SIML", "SIOL"}, {"AFVL", "ALST", "LALM",
  "MLST", "OLDSIMM"}))

LongoutFields == Class("LONG", TRUE, FieldGroup({"ADEL", "DRVH", "DRVL", "HYST", "IVOV", "MDEL",
  "SDLY"}, {"DTYP", "IVOA", "OMSL", "SIMM", "SIMS", "SSCN"}, {"DOL", "EGU", "OUT", "SIML",
  "SIOL"}, {"ALST", "LALM", "MLST", "OLDSIMM"}))

LsiFields == Class("ANY", FALSE, FieldGroup({"SDLY"}, {"DTYP", "APST", "MPST", "SIMM", "SIMS",
  "SSCN"}, {"INP", "SIML", "SIOL"}, {"LEN", "OLDSIMM", "OLEN", "SIZV"}))

LsoFields == Class("ANY", FALSE, FieldGroup({"SDLY"}, {"DTYP", "APST", "IVOA", "MPST", "OMSL",
  "SIMM", "SIMS", "SSCN"}, {"DOL", "IVOV", "OUT", "SIML", "SIOL"}, {"LEN", "OLDSIMM", "OLEN",
  "SIZV"}))

MbbiFields1 == FieldGroup({"AFTC", "EIVL", "ELVL", "FFVL", "FRVL", "FTVL", "FVVL"}, {"DTYP",
  "COSV", "EISV", "ELSV", "FFSV", "FRSV", "FTSV", "FVSV"}, {"EIST", "ELST", "FFST", "FRST",
  "FTST", "FVST", "INP"}, {"AFVL", "LALM", "MASK", "MLST"})
MbbiFields2 == FieldGroup({"NIVL", "ONVL", "RVAL", "SDLY", "SHFT", "SVAL", "SVVL", "SXVL",
  "TEVL"}, {"NISV", "ONSV", "SIMM", "SIMS", "SSCN", "SVSV", "SXSV", "TESV"}, {"NIST", "ONST",
  "SIML", "SIOL", "SVST", "SXST", "TEST"}, {"NOBT", "OLDSIMM", "ORAW", "SDEF"})
MbbiFields3 == FieldGroup({"THVL", "TTVL", "TVVL", "TWVL", "ZRVL"}, {"THSV", "TTSV", "TVSV",
  "TWSV", "UNSV", "ZRSV"}, {"THST", "TTST", "TVST", "TWST", "ZRST"}, {})
MbbiFields == Class("ENUM", FALSE, Together({MbbiFields1, MbbiFields2, MbbiFields3}))

MbbidirectFields == Class("LONG", FALSE, FieldGroup({"B0", "B1", "B10", "B11", "B12", "B13",
  "B14", "B15", "B16", "B17", "B18", "B19", "B1A", "B1B", "B1C", "B1D", "B1E", "B1F", "B2", "B3",
  "B4", "B5", "B6", "B7", "B8", "B9", "BA", "BB", "BC", "BD", "BE", "BF", "RVAL", "SDLY", "SHFT",
  "SVAL"}, {"DTYP", "SIMM", "SIMS", "SSCN"}, {"INP", "SIML", "SIOL"}, {"MASK", "MLST", "NOBT",
  "OLDSIMM", "ORAW"}))

MbboFields1 == FieldGroup({"EIVL", "ELVL", "FFVL", "FRVL", "FTVL", "FVVL", "IVOV"}, {"DTYP",
  "COSV", "EISV", "ELSV", "FFSV", "FRSV", "FTSV", "FVSV", "IVOA"}, {"DOL", "EIST", "ELST", "FFST",
  "FRST", "FTST", "FVST"}, {"LALM", "MASK", "MLST"})
MbboFields2 == FieldGroup({"NIVL", "ONVL", "RVAL", "SDLY", "SHFT", "SVVL", "SXVL"}, {"NISV",
  "OMSL", "ONSV", "SIMM", "SIMS", "SSCN", "SVSV", "SXSV"}, {"NIST", "ONST", "OUT", "SIML", "SIOL",
  "SVST", "SXST"}, {"NOBT", "OLDSIMM", "ORAW", "ORBV", "RBV", "SDEF"})
MbboFields3 == FieldGroup({"TEVL", "THVL", "TTVL", "TVVL", "TWVL", "ZRVL"}, {"TESV", "THSV",
  "TTSV", "TVSV", "TWSV", "UNSV", "ZRSV"}, {"TEST", "THST", "TTST", "TVST", "TWST", "ZRST"}, {})
MbboFields == Class("ENUM", FALSE, Together({MbboFields1, MbboFields2, MbboFields3}))

MbbodirectFields == Class("LONG", FALSE, FieldGroup({"B0", "B1", "B10", "B11", "B12", "B13",
  "B14", "B15", "B16", "B17", "B18", "B19", "B1A", "B1B", "B1C", "B1D", "B1E", "B1F", "B2", "B3",
  "B4", "B5", "B6", "B7", "B8", "B9", "BA", "BB", "BC", "BD", "BE", "BF", "IVOV", "SDLY", "SHFT"},
  {"DTYP", "IVOA", "OMSL", "SIMM", "SIMS", "SSCN"}, {"DOL", "OUT", "SIML", "SIOL"}, {"MASK",
  "MLST", "NOBT", "OLDSIMM", "ORAW", "ORBV", "RBV", "RVAL"}))

MotorFields1 == FieldGroup({"ACCL", "ADEL", "BACC", "BDST", "BVEL", "DCOF", "DHLM", "DLLM", "DLY",
  "DVAL", "ERES", "FOF", "FRAC", "HLM", "HOMF", "HOMR", "HVEL"}, {"DTYP", "CNEN", "DIR", "FOFF",
  "HLSV"}, {"DINP", "DOL", "EGU"}, {"ALST", "ATHM", "CARD", "CDIR", "DIFF", "DMOV", "DRBV",
  "HLS"})
MotorFields2 == FieldGroup({"ICOF", "IGSET", "JAR", "JOGF", "JOGR", "JVEL", "LLM", "MDEL", "MRES",
  "NTMF", "OFF"}, {"LOCK", "NTM", "OMSL"}, {"INIT"}, {"LDVL", "LLS", "LRLV", "LRVL", "LSPG",
  "LVAL", "LVIO", "MIP", "MISS", "MLST", "MMAP", "MOVN", "MSTA", "NMAP"})
MotorFields3 == FieldGroup({"PCOF", "PREC", "RDBD", "RLV", "RRES", "RTRY", "RVAL", "S", "SBAK",
  "SBAS", "SMAX", "SPDB", "SREV"}, {"RMOD", "SET", "SPMG"}, {"OUT", "POST", "PREM", "RDBL",
  "RINP", "RLNK"}, {"PP", "RBV", "RCNT", "RDIF", "REP", "RHLS", "RLLS", "RMP", "RRBV", "RVEL"})
MotorFields4 == FieldGroup({"SSET", "STOP", "SUSE", "SYNC", "TWF", "TWR", "TWV", "UREV", "VBAS",
  "VELO", "VMAX", "VOF"}, {"STUP", "UEIP", "URIP"}, {"STOO"}, {"TDIR", "VERS"})
MotorFields == Class("DOUBLE", TRUE, Together({MotorFields1, MotorFields2, MotorFields3, MotorFields4}))

PermissiveFields == Class("LONG", FALSE, FieldGroup({"WFLG"}, {"DTYP"}, {"LABL"}, {"OFLG",
  "OVAL"}))

PrintfFields == Class("ANY", FALSE, FieldGroup({}, {"DTYP"}, {"FMT", "INP0", "INP1", "INP2",
  "INP3", "INP4", "INP5", "INP6", "INP7", "INP8", "INP9", "IVLS", "OUT"}, {"LEN", "SIZV"}))

SelFields == Class("DOUBLE", TRUE, FieldGroup({"A", "ADEL", "B", "C", "D", "E", "F", "G", "H",
  "HYST", "I", "J", "K", "L", "MDEL", "PREC", "SELN"}, {"DTYP", "SELM"}, {"EGU", "INPA", "INPB",
  "INPC", "INPD", "INPE", "INPF", "INPG", "INPH", "INPI", "INPJ", "INPK", "INPL", "NVL"}, {"ALST",
  "LA", "LALM", "LB", "LC", "LD", "LE", "LF", "LG", "LH", "LI", "LJ", "LK", "LL", "MLST",
  "NLST"}))

SeqFields == Class("LONG", FALSE, FieldGroup({"DLY0", "DLY1", "DLY2", "DLY3", "DLY4", "DLY5",
  "DLY6", "DLY7", "DLY8", "DLY9", "DLYA", "DLYB", "DLYC", "DLYD", "DLYE", "DLYF", "DO0", "DO1",
  "DO2", "DO3", "DO4", "DO5", "DO6", "DO7", "DO8", "DO9", "DOA", "DOB", "DOC", "DOD", "DOE",
  "DOF", "OFFS", "OLDN", "PREC", "SELN", "SHFT"}, {"DTYP", "SELM"}, {"DOL0", "DOL1", "DOL2",
  "DOL3", "DOL4", "DOL5", "DOL6", "DOL7", "DOL8", "DOL9", "DOLA", "DOLB", "DOLC", "DOLD", "DOLE",
  "DOLF", "LNK0", "LNK1", "LNK2", "LNK3", "LNK4", "LNK5", "LNK6", "LNK7", "LNK8", "LNK9", "LNKA",
  "LNKB", "LNKC", "LNKD", "LNKE", "LNKF", "SELL"}, {}))

StateFields == Class("STRING", FALSE, FieldGroup({}, {"DTYP"}, {}, {"OVAL"}))

StringinFields == Class("STRING", FALSE, FieldGroup({"SDLY"}, {"DTYP", "APST", "MPST", "SIMM",
  "SIMS", "SSCN"}, {"INP", "SIML", "SIOL", "SVAL"}, {"OLDSIMM", "OVAL"}))

StringoutFields == Class("STRING", FALSE, FieldGroup({"SDLY"}, {"DTYP", "APST", "IVOA", "MPST",
  "OMSL", "SIMM", "SIMS", "SSCN"}, {"DOL", "IVOV", "OUT", "SIML", "SIOL"}, {"OLDSIMM", "OVAL"}))

SubFields == Class("DOUBLE", TRUE, FieldGroup({"A", "ADEL", "B", "C", "D", "E", "F", "G", "H",
  "HYST", "I", "J", "K", "L", "MDEL", "PREC"}, {"DTYP", "BRSV"}, {"EGU", "INPA", "INPB", "INPC",
  "INPD", "INPE", "INPF", "INPG", "INPH", "INPI", "INPJ", "INPK", "INPL", "SNAM"}, {"ALST",
  "INAM", "LA", "LALM", "LB", "LC", "LD", "LE", "LF", "LG", "LH", "LI", "LJ", "LK", "LL",
  "MLST"}))

SubarrayFields == Class("ANY", FALSE, FieldGroup({"HOPR", "INDX", "LOPR", "NELM", "PREC"},
  {"DTYP"}, {"EGU", "INP"}, {"BUSY", "FTVL", "MALM", "NORD"}))

WaveformFields == Class("ANY", FALSE, FieldGroup({"HASH", "HOPR", "LOPR", "PREC", "RARM", "SDLY"},
  {"DTYP", "APST", "MPST", "SIMM", "SIMS", "SSCN"}, {"EGU", "INP", "SIML", "SIOL"}, {"BUSY",
  "FTVL", "NELM", "NORD", "OLDSIMM"}))
\* get_record_registry: the classes by record type.
records ==
  "ai" :> AiFields @@ "aSub" :> AsubFields @@ "aai" :> AaiFields @@ "aao" :> AaoFields @@ "ao"
  :> AoFields @@ "asyn" :> AsynFields @@ "bi" :> BiFields @@ "bo" :> BoFields @@ "calc" :>
  CalcFields @@ "calcout" :> CalcoutFields @@ "compress" :> CompressFields @@ "dfanout" :>
  DfanoutFields @@ "event" :> EventFields @@ "fanout" :> FanoutFields @@ "histogram" :>
  HistogramFields @@ "int64in" :> Int64inFields @@ "int64out" :> Int64outFields @@ "longin" :>
  LonginFields @@ "longout" :> LongoutFields @@ "lsi" :> LsiFields @@ "lso" :> LsoFields @@
  "mbbi" :> MbbiFields @@ "mbbiDirect" :> MbbidirectFields @@ "mbbo" :> MbboFields @@
  "mbboDirect" :> MbbodirectFields @@ "motor" :> MotorFields @@ "permissive" :>
  PermissiveFields @@ "printf" :> PrintfFields @@ "sel" :> SelFields @@ "seq" :> SeqFields @@
  "state" :> StateFields @@ "stringin" :> StringinFields @@ "stringout" :> StringoutFields @@
  "sub" :> SubFields @@ "subArray" :> SubarrayFields @@ "waveform" :> WaveformFields

\* All the fields of each.
FieldsOf ==
  [r \in DOMAIN records |-> records[r].number \cup records[r].menu \cup records[r].text \cup records[r].ro]

\* The fields that records.py links to an attribute of the channel: the display precision and the
\* deadbands of the analog records, the operating range of the array records, and the description.
ParentLinks == [r \in DOMAIN records |->
  LET other == [DESC |-> "__doc__", PREC |-> "precision", ADEL |-> "log_atol", MDEL |-> "value_atol"]
      linked ==
        {"DESC"}
        \cup (IF records[r].limits THEN DOMAIN LimitLinks ELSE {})
        \cup (IF r \in {"ai", "aSub", "aai", "aao", "ao", "calc", "calcout", "compress", "dfanout",
                        "histogram", "motor", "sel", "seq", "sub", "subArray", "waveform"}
              THEN {"PREC"} ELSE {})
        \cup (IF r \in {"ai", "ao", "calc", "calcout", "dfanout", "int64in", "int64out", "longin",
                        "longout", "motor", "sel", "sub"}
              THEN {"ADEL", "MDEL"} ELSE {})
        \cup (IF r \in {"aai", "aao", "compress", "histogram", "subArray", "waveform"}
              THEN {"HOPR", "LOPR"} ELSE {})
  IN  [f \in linked |-> IF f \in DOMAIN LimitLinks THEN LimitLinks[f] ELSE other[f]]]

\* The fields that name the states of an enum channel, with the index of the state.  The zero string
\* of an mbbo is not linked.
StateStrings == [r \in DOMAIN records |->
  LET bits == <<"ZRST", "ONST", "TWST", "THST", "FRST", "FVST", "SXST", "SVST", "EIST", "NIST", "TEST",
                "ELST", "TVST", "TTST", "FTST", "FFST">>
      index(s) == [f \in {s[i] : i \in DOMAIN s} |-> (CHOOSE i \in DOMAIN s : s[i] = f) - 1]
  IN CASE r \in {"bi", "bo"} -> index(<<"ZNAM", "ONAM">>)
       [] r = "mbbi" -> index(bits)
       [] r = "mbbo" -> [f \in {bits[i] : i \in 2 .. 16} |-> index(bits)[f]]
       [] OTHER -> <<>>]

====
