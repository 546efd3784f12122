----------------------------- MODULE MCAggRecord -----------------------------
(***************************************************************************)
(* An instance of AggRecord for TLC: a field per type (TTL in 2 bits), all *)
(* pairs of options on TTL, SRC_IP and BYTES, and three longer rules that  *)
(* repeat a field or fill the arrays.                                      *)
(***************************************************************************)
EXTENDS AggRecord

MCType == [TTL |-> "uint8", BYTES |-> "uint64", SRC_IP |-> "ip",
           TIME_FIRST |-> "time", TIME_LAST |-> "time"]
MCWidth == [uint8 |-> 2, uint32 |-> 3, uint64 |-> 6]

Opt(f, n) == [func |-> f, field |-> n]

MCOptions ==
  {Opt(f, "TTL") : f \in Functions \ {"FIRST"}}
  \cup {Opt(f, "SRC_IP") : f \in {"KEY", "AVG", "MIN", "FIRST", "COUNT_DISTINCT"}}
  \cup {Opt("COUNT_DISTINCT", "TIME_FIRST"), Opt("KEY", "TIME_LAST")}

MCRules ==
  {<<o>> : o \in MCOptions}
  \cup {<<o, p>> : o \in MCOptions, p \in MCOptions}
  \cup {<<Opt("KEY", "SRC_IP"), Opt("RATE", "BYTES"), Opt("SUM", "TTL"),
          Opt("MAX", "TTL")>>,
        <<Opt("AVG", "TTL"), Opt("RATE", "BYTES"), Opt("SUM", "BYTES"),
          Opt("COUNT_DISTINCT", "TTL")>>,
        <<Opt("COUNT_DISTINCT", "TTL"), Opt("KEY", "SRC_IP"), Opt("RATE", "BYTES"),
          Opt("SUM", "TTL")>>}

MCRecord(t, a, b, e) == [TTL |-> t, BYTES |-> 10 * t, SRC_IP |-> a,
                         TIME_FIRST |-> b, TIME_LAST |-> e]
MCRecords == {MCRecord(3, 2, 0, 1), MCRecord(2, 1, 1, 2), MCRecord(3, 1, 0, 2)}
=============================================================================
