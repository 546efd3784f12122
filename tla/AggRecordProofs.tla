--------------------------- MODULE AggRecordProofs ---------------------------
(***************************************************************************)
(* What an aggregator reports, for every rule, every type of its fields    *)
(* and every sequence of records, windows and timeouts.  First what an     *)
(* option may do to Config, for every size of the arrays (StageInit relies *)
(* on it too); then what one more record does to the value of a field; the *)
(* invariant says that the stored record holds, field by field, what its   *)
(* function has accumulated over the records it was made from.             *)
(***************************************************************************)
EXTENDS AggRecord, BitsProofs, FiniteSetTheorems

-----------------------------------------------------------------------------
(* Config.                                                                 *)

Registration(Names) == [func : Functions, field : Names, target : Names]

\* The entries fit the arrays, no field has two, and none is a time.
Registered(c, Names) ==
  /\ c \in Seq(Registration(Names))
  /\ Len(c) <= MAX_KEY_FIELDS
  /\ \A i, j \in 1 .. Len(c) : c[i].field = c[j].field => i = j
  /\ \A i \in 1 .. Len(c) : c[i].field \notin {"TIME_FIRST", "TIME_LAST"}

\* A new entry keeps all of it if there is room and its name passed verify_field.
LEMMA RegisterKeeps ==
  ASSUME NEW Names, NEW c, Registered(c, Names),
         NEW func \in Functions, NEW field \in Names, NEW target \in Names,
         MAX_KEY_FIELDS \in Nat, Len(c) < MAX_KEY_FIELDS, verify_field(c, field)
  PROVE  Registered(Register(c, func, field, target), Names)
<1> DEFINE e   == [func |-> func, field |-> field, target |-> target]
           new == Append(c, e)
<1>1. c \in Seq(Registration(Names)) /\ e \in Registration(Names)
  BY DEF Registered, Registration
<1>2. /\ new \in Seq(Registration(Names))
      /\ Len(new) = Len(c) + 1
      /\ \A i \in 1 .. Len(c) : new[i] = c[i]
      /\ new[Len(c) + 1] = e
      /\ Len(c) \in Nat
  BY <1>1
<1>3. \A i \in 1 .. Len(c) : c[i].field # field
  BY <1>1 DEF verify_field, FieldNames
<1>4. field \notin {"TIME_FIRST", "TIME_LAST"}
  BY DEF verify_field
<1>5. e.field = field
  OBVIOUS
<1> HIDE DEF e, new
<1>6. Len(new) <= MAX_KEY_FIELDS
  BY <1>2
<1>7. \A i, j \in 1 .. Len(new) : new[i].field = new[j].field => i = j
  <2> SUFFICES ASSUME NEW i \in 1 .. Len(new), NEW j \in 1 .. Len(new),
                      new[i].field = new[j].field
               PROVE  i = j
    OBVIOUS
  <2>1. CASE i \in 1 .. Len(c) /\ j \in 1 .. Len(c)
    BY <2>1, <1>2 DEF Registered
  <2>2. CASE i = Len(c) + 1 /\ j \in 1 .. Len(c)
    BY <2>2, <1>2, <1>3, <1>5
  <2>3. CASE i \in 1 .. Len(c) /\ j = Len(c) + 1
    BY <2>3, <1>2, <1>3, <1>5
  <2>4. CASE i = Len(c) + 1 /\ j = Len(c) + 1
    BY <2>4
  <2> QED
    BY <2>1, <2>2, <2>3, <2>4, <1>2
<1>8. \A i \in 1 .. Len(new) : new[i].field \notin {"TIME_FIRST", "TIME_LAST"}
  BY <1>2, <1>4, <1>5 DEF Registered
<1> QED
  BY <1>2, <1>6, <1>7, <1>8 DEF Registered, Register, new, e

\* Whatever options a rule gives (Config::add_member, Config::add_ptr_member), a
\* field is registered once, no time field is, and the arrays are never overrun; an
\* option leaves what is registered alone, whether it is taken or skipped.
THEOREM AddOptionTheorem ==
  ASSUME NEW Names, NEW c, Registered(c, Names), MAX_KEY_FIELDS \in Nat,
         NEW func \in Functions, NEW field \in Names, expanded(field) \in Names
  PROVE  /\ Registered(add_option(c, func, field), Names)
         /\ \A i \in 1 .. Len(c) : add_option(c, func, field)[i] = c[i]
<1>1. ASSUME NEW f \in Functions, NEW n \in Names, NEW t \in Names
      PROVE  \A i \in 1 .. Len(c) : Register(c, f, n, t)[i] = c[i]
  BY DEF Registered, Register, Registration
<1>2. CASE func = "COUNT_DISTINCT"
  <2>1. CASE Len(c) + 1 < MAX_KEY_FIELDS /\ verify_field(c, expanded(field))
    <3>1. Len(c) < MAX_KEY_FIELDS
      BY <2>1 DEF Registered
    <3>2. add_option(c, func, field)
            = Register(c, "COUNT_DISTINCT", expanded(field), field)
      BY <1>2, <2>1 DEF add_option, add_ptr_member
    <3>3. "COUNT_DISTINCT" \in Functions
      BY <1>2
    <3>4. Registered(Register(c, "COUNT_DISTINCT", expanded(field), field), Names)
      BY <2>1, <3>1, <3>3, RegisterKeeps
    <3>5. \A i \in 1 .. Len(c) :
            Register(c, "COUNT_DISTINCT", expanded(field), field)[i] = c[i]
      BY <1>1, <3>3
    <3> QED
      BY <3>2, <3>4, <3>5
  <2>2. CASE ~ (Len(c) + 1 < MAX_KEY_FIELDS /\ verify_field(c, expanded(field)))
    BY <1>2, <2>2 DEF add_option, add_ptr_member
  <2> QED
    BY <2>1, <2>2
<1>3. CASE func # "COUNT_DISTINCT"
  <2>1. CASE Len(c) < MAX_KEY_FIELDS /\ verify_field(c, field)
    <3>1. add_option(c, func, field) = Register(c, func, field, field)
      BY <1>3, <2>1 DEF add_option, add_member
    <3>2. Registered(Register(c, func, field, field), Names)
      BY <2>1, RegisterKeeps
    <3>3. \A i \in 1 .. Len(c) : Register(c, func, field, field)[i] = c[i]
      BY <1>1
    <3> QED
      BY <3>1, <3>2, <3>3
  <2>2. CASE ~ (Len(c) < MAX_KEY_FIELDS /\ verify_field(c, field))
    BY <1>3, <2>2 DEF add_option, add_member
  <2> QED
    BY <2>1, <2>2
<1> QED
  BY <1>2, <1>3

-----------------------------------------------------------------------------
(* Arithmetic of the functions.                                            *)

\* A sum may be reduced at every addition.
LEMMA ModuloSum ==
  ASSUME NEW a \in Int, NEW b \in Int, NEW m \in Nat \ {0}
  PROVE  ((a % m) + b) % m = (a + b) % m
<1> DEFINE c == (a % m) + b
           d == a + b
<1>1. a % m \in 0 .. m - 1 /\ a \div m \in Int /\ a = (m * (a \div m)) + (a % m)
  OBVIOUS
<1>2. c \in Int /\ d \in Int
  BY <1>1
<1> HIDE DEF c, d
<1>3. /\ c % m \in 0 .. m - 1 /\ c \div m \in Int /\ c = (m * (c \div m)) + (c % m)
      /\ d % m \in 0 .. m - 1 /\ d \div m \in Int /\ d = (m * (d \div m)) + (d % m)
  BY <1>2
<1>4. d = (m * (a \div m)) + c
  BY <1>1 DEF c, d
<1>5. ASSUME NEW q \in Int, NEW p \in Int, NEW i \in 0 .. m - 1, NEW j \in 0 .. m - 1,
             (m * q) + i = (m * p) + j
      PROVE  i = j
  BY <1>5
<1>6. (m * ((a \div m) + (c \div m))) + (c % m) = (m * (d \div m)) + (d % m)
  <2>1. \A p, q \in Int : m * (p + q) = (m * p) + (m * q)
    OBVIOUS
  <2>2. m * ((a \div m) + (c \div m)) = (m * (a \div m)) + (m * (c \div m))
    BY <2>1, <1>1, <1>3
  <2> QED
    BY <2>2, <1>1, <1>3, <1>4
<1>7. (a \div m) + (c \div m) \in Int
  BY <1>1, <1>3
<1>8. c % m = d % m
  BY <1>3, <1>5, <1>6, <1>7
<1> QED
  BY <1>8 DEF c, d

\* The terms of a sum over a sequence of records.
LEMMA TotalDef ==
  ASSUME NEW ms, NEW n, ms \in Seq(Records), \A i \in 1 .. Len(ms) : ms[i][n] \in Int
  PROVE  \E t \in [0 .. Len(ms) -> Int] :
           /\ t[0] = 0
           /\ \A k \in 1 .. Len(ms) : t[k] = t[k - 1] + ms[k][n]
           /\ Total(ms, n) = t[Len(ms)]
<1> DEFINE L == Len(ms)
           Def(t) == t = [k \in 0 .. L |-> IF k = 0 THEN 0 ELSE t[k - 1] + ms[k][n]]
           step   == [k \in Nat |-> [v \in Int |-> IF k \in 1 .. L THEN v + ms[k][n] ELSE v]]
           t      == CHOOSE u : Def(u)
<1>0. L \in Nat
  OBVIOUS
<1> HIDE DEF L
<1>1. step \in [Nat -> [Int -> Int]]
  BY DEF L
<1>2. PICK f \in [Nat -> Int] : f[0] = 0 /\ \A k \in Nat \ {0} : f[k] = step[k][f[k - 1]]
  <2>1. 0 \in Int
    OBVIOUS
  <2> HIDE DEF step
  <2> QED
    BY <1>1, <2>1, PrimitiveRecursion
<1> DEFINE g == [k \in 0 .. L |-> f[k]]
<1>3. \A k \in 1 .. L : g[k] = g[k - 1] + ms[k][n]
  <2> TAKE k \in 1 .. L
  <2>1. k \in Nat \ {0} /\ k - 1 \in 0 .. L /\ k \in 0 .. L /\ f[k - 1] \in Int
    BY <1>0
  <2>2. step[k][f[k - 1]] = f[k - 1] + ms[k][n]
    BY <2>1
  <2> QED
    BY <1>2, <2>1, <2>2
<1>4. Def(g)
  <2>1. g[0] = 0
    BY <1>0, <1>2
  <2>2. g = [k \in 0 .. L |-> g[k]]
    OBVIOUS
  <2> HIDE DEF g
  <2>3. \A k \in 0 .. L : g[k] = IF k = 0 THEN 0 ELSE g[k - 1] + ms[k][n]
    BY <1>0, <1>3, <2>1
  <2> QED
    BY <2>2, <2>3
<1>5. Total(ms, n) = t[Len(ms)]
  BY DEF Total, L
<1>6. Def(t)
  <2> HIDE DEF Def
  <2> QED
    BY <1>4
<1> HIDE DEF t
<1>7. t[0] = 0 /\ \A k \in 1 .. L : t[k] = t[k - 1] + ms[k][n]
  BY <1>0, <1>6
<1>8. \A k \in 0 .. L : t[k] \in Int
  <2> DEFINE T == {k \in Nat : k \in 0 .. L => t[k] \in Int}
  <2>1. 0 \in T
    BY <1>7
  <2>2. ASSUME NEW k \in Nat, k \in T
        PROVE  k + 1 \in T
    <3> SUFFICES ASSUME k + 1 \in 0 .. L PROVE t[k + 1] \in Int
      OBVIOUS
    <3>1. k \in 0 .. L /\ k + 1 \in 1 .. L /\ (k + 1) - 1 = k
      BY <1>0
    <3>2. t[k + 1] = t[k] + ms[k + 1][n] /\ t[k] \in Int
      BY <1>7, <2>2, <3>1
    <3> QED
      BY <3>1, <3>2 DEF L
  <2> HIDE DEF T
  <2>3. Nat \subseteq T
    BY <2>1, <2>2, SetInduction
  <2> QED
    BY <2>3, <1>0 DEF T
<1>9. t \in [0 .. L -> Int]
  BY <1>6, <1>8
<1> QED
  BY <1>5, <1>7, <1>9 DEF L

\* The total over one record, and over one more.
LEMMA TotalFirst ==
  ASSUME NEW r \in Records, NEW n, r[n] \in Int
  PROVE  Total(<<r>>, n) = r[n]
<1>1. <<r>> \in Seq(Records) /\ Len(<<r>>) = 1 /\ <<r>>[1] = r
  OBVIOUS
<1> DEFINE ms == <<r>>
<1>2. ms \in Seq(Records) /\ Len(ms) = 1 /\ \A i \in 1 .. Len(ms) : ms[i][n] \in Int
  BY <1>1
<1> HIDE DEF ms
<1>3. PICK t \in [0 .. Len(ms) -> Int] :
        /\ t[0] = 0 /\ (\A k \in 1 .. Len(ms) : t[k] = t[k - 1] + ms[k][n])
        /\ Total(ms, n) = t[Len(ms)]
  BY <1>2, TotalDef
<1>4. t[1] = t[0] + ms[1][n]
  BY <1>2, <1>3
<1> QED
  BY <1>1, <1>2, <1>3, <1>4 DEF ms

LEMMA TotalNext ==
  ASSUME NEW ms \in Seq(Records), NEW r \in Records, NEW n,
         \A x \in Records : x[n] \in Int
  PROVE  /\ Total(ms, n) \in Int
         /\ Total(Append(ms, r), n) = Total(ms, n) + r[n]
<1> DEFINE more == Append(ms, r)
           L    == Len(ms)
<1>1. /\ L \in Nat /\ more \in Seq(Records) /\ Len(more) = L + 1 /\ more[L + 1] = r
      /\ \A i \in 1 .. L : more[i] = ms[i]
  OBVIOUS
<1> HIDE DEF more
<1>2. PICK t \in [0 .. L -> Int] :
        t[0] = 0 /\ (\A k \in 1 .. L : t[k] = t[k - 1] + ms[k][n]) /\ Total(ms, n) = t[L]
  <2>1. \A i \in 1 .. Len(ms) : ms[i][n] \in Int
    OBVIOUS
  <2> QED
    BY <2>1, TotalDef
<1>3. PICK u \in [0 .. Len(more) -> Int] :
        /\ u[0] = 0 /\ (\A k \in 1 .. Len(more) : u[k] = u[k - 1] + more[k][n])
        /\ Total(more, n) = u[Len(more)]
  <2>1. \A i \in 1 .. Len(more) : more[i][n] \in Int
    BY <1>1
  <2> QED
    BY <1>1, <2>1, TotalDef
<1> HIDE DEF L
<1> DEFINE T == {k \in Nat : k <= L => t[k] = u[k]}
<1>4. 0 \in T
  BY <1>2, <1>3
<1>5. ASSUME NEW k \in Nat, k \in T
      PROVE  k + 1 \in T
  <2> SUFFICES ASSUME k + 1 <= L PROVE t[k + 1] = u[k + 1]
    OBVIOUS
  <2>1. k + 1 \in 1 .. L /\ k + 1 \in 1 .. L + 1 /\ (k + 1) - 1 = k /\ t[k] = u[k]
    BY <1>1, <1>5
  <2>2. t[k + 1] = t[k] + ms[k + 1][n]
    BY <1>2, <2>1
  <2>3. u[k + 1] = u[k] + more[k + 1][n]
    <3>1. k + 1 \in 1 .. Len(more)
      BY <1>1, <2>1
    <3> QED
      BY <1>3, <2>1, <3>1
  <2>4. more[k + 1] = ms[k + 1]
    BY <1>1, <2>1
  <2> QED
    BY <2>1, <2>2, <2>3, <2>4
<1>6. L \in T
  <2> HIDE DEF T
  <2> QED
    BY <1>1, <1>4, <1>5, SetInduction
<1>7. t[L] = u[L] /\ L + 1 \in 1 .. L + 1 /\ (L + 1) - 1 = L /\ L \in 0 .. L
  BY <1>1, <1>6
<1> QED
  BY <1>1, <1>2, <1>3, <1>7 DEF more

-----------------------------------------------------------------------------
(* What the value of a field holds before it is post-processed, as a       *)
(* relation between an entry, the records and the value.                   *)

IsEntry(m) == m.func \in Functions /\ m.target \in DOMAIN Type

\* The first value is kept.
Kept(m) == m.func # "COUNT_DISTINCT" /\ Type[m.target] \notin Supported[m.func]

Accumulates(m, ms, v) ==
  LET n == m.target
      S == Values(ms, n)
      w == Width[Type[n]]
  IN /\ m.func = "COUNT_DISTINCT" => v = S
     /\ Kept(m) => v = ms[1][n]
     /\ ~ Kept(m) =>
          /\ m.func \in {"SUM", "AVG", "RATE"} => v = Total(ms, n) % Modulus(Type[n])
          /\ m.func = "MIN"     => v \in S /\ \A x \in S : v <= x
          /\ m.func = "MAX"     => v \in S /\ \A x \in S : v >= x
          /\ m.func = "LAST"    => v = ms[Len(ms)][n]
          /\ m.func = "BIT_OR"  => /\ v \in UInt(w)
                                   /\ \A b \in 0 .. w - 1 :
                                        HasBit(v, b) <=> \E x \in S : HasBit(x, b)
          /\ m.func = "BIT_AND" => /\ v \in UInt(w)
                                   /\ \A b \in 0 .. w - 1 :
                                        HasBit(v, b) <=> \A x \in S : HasBit(x, b)

\* The functions that do something, and the types they do it to.
LEMMA SupportedTypes ==
  ASSUME NEW m, IsEntry(m), ~ Kept(m), m.func # "COUNT_DISTINCT"
  PROVE  \/ /\ m.func \in {"SUM", "AVG", "RATE", "BIT_OR", "BIT_AND"}
            /\ Type[m.target] \in Unsigned
         \/ /\ m.func \in {"MIN", "MAX", "LAST"}
            /\ Type[m.target] \in Unsigned \cup {"ip", "time"}
BY DEF IsEntry, Kept, Supported, Functions

\* The values of a field of a supported type.
LEMMA ValueTypes ==
  ASSUME NEW r \in Records, NEW n \in DOMAIN Type
  PROVE  /\ Type[n] \in Unsigned =>
              /\ Width[Type[n]] \in Nat
              /\ Modulus(Type[n]) \in Nat \ {0}
              /\ r[n] \in UInt(Width[Type[n]])
              /\ r[n] \in 0 .. Modulus(Type[n]) - 1
         /\ Type[n] \in Unsigned \cup {"ip", "time"} => r[n] \in Int
<1>1. ASSUME Type[n] \in Unsigned
      PROVE  /\ Width[Type[n]] \in Nat
             /\ Modulus(Type[n]) \in Nat \ {0}
             /\ r[n] \in UInt(Width[Type[n]])
             /\ r[n] \in 0 .. Modulus(Type[n]) - 1
  <2>1. Width[Type[n]] \in Nat /\ r[n] \in UInt(Width[Type[n]])
    BY <1>1, RecordAssumption
  <2> QED
    BY <2>1, PowDef DEF Modulus, UInt
<1>2. Type[n] \in {"ip", "time"} => r[n] \in Int
  BY RecordAssumption
<1> QED
  BY <1>1, <1>2

\* The values of a field over one record, and over one more.
LEMMA ValuesFirst ==
  ASSUME NEW r \in Records, NEW n
  PROVE  Values(<<r>>, n) = {r[n]}
<1>1. DOMAIN <<r>> = {1} /\ <<r>>[1] = r
  OBVIOUS
<1> QED
  BY <1>1 DEF Values

LEMMA ValuesIn ==
  ASSUME NEW ms \in Seq(Records), NEW n
  PROVE  \A v \in Values(ms, n) : \E x \in Records : v = x[n]
<1>1. \A i \in DOMAIN ms : ms[i] \in Records
  OBVIOUS
<1> QED
  BY <1>1 DEF Values

LEMMA ValuesNext ==
  ASSUME NEW ms \in Seq(Records), NEW r \in Records, NEW n
  PROVE  Values(Append(ms, r), n) = Values(ms, n) \cup {r[n]}
<1> DEFINE more == Append(ms, r)
           L    == Len(ms)
<1>1. /\ L \in Nat /\ DOMAIN ms = 1 .. L /\ DOMAIN more = 1 .. L + 1 /\ more[L + 1] = r
      /\ \A i \in 1 .. L : more[i] = ms[i] /\ ms[i] \in Records
  OBVIOUS
<1> HIDE DEF more, L
<1>2. ASSUME NEW v \in Values(more, n)
      PROVE  v \in Values(ms, n) \cup {r[n]}
  <2>1. PICK i \in 1 .. L + 1 : v = more[i][n]
    BY <1>1 DEF Values
  <2> QED
    BY <1>1, <2>1 DEF Values
<1>3. ASSUME NEW v \in Values(ms, n)
      PROVE  v \in Values(more, n)
  <2>1. PICK i \in 1 .. L : v = ms[i][n]
    BY <1>1 DEF Values
  <2>2. i \in 1 .. L + 1 /\ more[i] = ms[i]
    BY <1>1, <2>1
  <2> QED
    BY <1>1, <2>1, <2>2 DEF Values
<1>4. r[n] \in Values(more, n)
  BY <1>1 DEF Values
<1>5. Values(more, n) = Values(ms, n) \cup {r[n]}
  BY <1>2, <1>3, <1>4
<1> QED
  BY <1>5 DEF more

\* init_record_data: the first record of an aggregate.
LEMMA AccumulatesFirst ==
  ASSUME NEW m, IsEntry(m), NEW r \in Records
  PROVE  Accumulates(m, <<r>>,
                     IF m.func = "COUNT_DISTINCT" THEN {r[m.target]} ELSE r[m.target])
<1> DEFINE n == m.target
           S == Values(<<r>>, n)
           w == Width[Type[n]]
<1>1. S = {r[n]} /\ <<r>>[1] = r /\ Len(<<r>>) = 1
  BY ValuesFirst
<1>2. n \in DOMAIN Type
  BY DEF IsEntry
<1> HIDE DEF n
<1>3. ASSUME ~ Kept(m), m.func \in {"SUM", "AVG", "RATE"}
      PROVE  r[n] = Total(<<r>>, n) % Modulus(Type[n])
  <2>1. Type[n] \in Unsigned
    BY <1>3, SupportedTypes DEF n
  <2>2. /\ r[n] \in 0 .. Modulus(Type[n]) - 1 /\ Modulus(Type[n]) \in Nat \ {0}
        /\ r[n] \in Int
    BY <1>2, <2>1, ValueTypes
  <2>3. Total(<<r>>, n) = r[n]
    BY <2>2, TotalFirst
  <2> QED
    BY <2>2, <2>3
<1>4. ASSUME ~ Kept(m), m.func \in {"MIN", "MAX"}
      PROVE  r[n] \in S /\ \A x \in S : r[n] <= x /\ r[n] >= x
  <2>1. r[n] \in Int
    BY <1>2, <1>4, SupportedTypes, ValueTypes DEF n
  <2> QED
    BY <1>1, <2>1
<1>5. ASSUME ~ Kept(m), m.func \in {"BIT_OR", "BIT_AND"}
      PROVE  r[n] \in UInt(w)
  BY <1>2, <1>5, SupportedTypes, ValueTypes DEF n
<1> QED
  BY <1>1, <1>3, <1>4, <1>5 DEF Accumulates, Kept, n

\* process_agg_functions: one more record.
LEMMA AccumulatesNext ==
  ASSUME NEW m, IsEntry(m), NEW ms \in Seq(Records), ms # << >>, NEW r \in Records,
         NEW v, Accumulates(m, ms, v)
  PROVE  Accumulates(m, Append(ms, r),
           IF m.func = "COUNT_DISTINCT" THEN count_distinct(r[m.target], v)
           ELSE Apply(get_function_ptr(m.func, Type[m.target]), Type[m.target], r[m.target], v))
<1> DEFINE n    == m.target
           type == Type[n]
           S    == Values(ms, n)
           w    == Width[type]
           more == Append(ms, r)
           new  == Apply(get_function_ptr(m.func, type), type, r[n], v)
<1>1. /\ Len(ms) \in Nat \ {0} /\ more \in Seq(Records) /\ Len(more) = Len(ms) + 1
      /\ more[Len(ms) + 1] = r /\ more[1] = ms[1]
  OBVIOUS
<1>2. n \in DOMAIN Type
  BY DEF IsEntry
<1> HIDE DEF n, type, S, w, more, new
<1>3. /\ Values(more, n) = S \cup {r[n]}
      /\ \A x \in S : \E y \in Records : x = y[n]
  <2>1. Values(Append(ms, r), n) = Values(ms, n) \cup {r[n]}
    BY ValuesNext
  <2>2. \A x \in Values(ms, n) : \E y \in Records : x = y[n]
    BY ValuesIn
  <2> QED
    BY <2>1, <2>2 DEF more, S
<1>4. CASE m.func = "COUNT_DISTINCT"
  <2>1. Accumulates(m, more, count_distinct(r[n], v))
    BY <1>3, <1>4 DEF Accumulates, Kept, count_distinct, n, S, Supported
  <2> QED
    BY <1>4, <2>1 DEF n, more
<1> SUFFICES ASSUME m.func # "COUNT_DISTINCT" PROVE Accumulates(m, more, new)
  BY <1>4 DEF n, type, more, new
<1>5. CASE Kept(m)
  <2>1. new = v
    BY <1>5 DEF Kept, new, type, n, get_function_ptr, Apply
  <2>2. v = ms[1][n]
    BY <1>5 DEF Accumulates, n
  <2> QED
    BY <1>1, <1>5, <2>1, <2>2 DEF Accumulates, n, more
<1>6. CASE ~ Kept(m) /\ m.func \in {"SUM", "AVG", "RATE"}
  <2>1. type \in Unsigned
    BY <1>6, SupportedTypes DEF n, type
  <2>2. /\ Modulus(type) \in Nat \ {0}
        /\ \A x \in Records : x[n] \in Int
    BY <1>2, <2>1, ValueTypes DEF type
  <2>3. v = Total(ms, n) % Modulus(type)
    BY <1>6 DEF Accumulates, n, type
  <2>4. new = (v + r[n]) % Modulus(type)
    BY <1>6 DEF new, Kept, type, n, get_function_ptr, Apply
  <2>5. Total(ms, n) \in Int /\ Total(more, n) = Total(ms, n) + r[n] /\ r[n] \in Int
    BY <2>2, TotalNext DEF more
  <2>6. ((Total(ms, n) % Modulus(type)) + r[n]) % Modulus(type)
        = (Total(ms, n) + r[n]) % Modulus(type)
    BY <2>2, <2>5, ModuloSum
  <2>7. new = Total(more, n) % Modulus(type)
    BY <2>3, <2>4, <2>5, <2>6
  <2> QED
    BY <1>6, <2>7 DEF Accumulates, n, type
<1>7. CASE ~ Kept(m) /\ m.func \in {"MIN", "MAX", "LAST"}
  <2>1. \A x \in Records : x[n] \in Int
    BY <1>2, <1>7, SupportedTypes, ValueTypes DEF n
  <2>2. r[n] \in Int /\ \A x \in S : x \in Int
    BY <1>3, <2>1
  <2>3. CASE m.func = "MIN"
    <3>1. new = IF r[n] < v THEN r[n] ELSE v
      BY <1>7, <2>3 DEF new, Kept, type, n, get_function_ptr, Apply
    <3>2. v \in S /\ \A x \in S : v <= x
      BY <1>7, <2>3 DEF Accumulates, n, S
    <3>3. new \in S \cup {r[n]} /\ \A x \in S \cup {r[n]} : new <= x
      BY <2>2, <3>1, <3>2
    <3> QED
      BY <1>3, <1>7, <2>3, <3>3 DEF Accumulates, n
  <2>4. CASE m.func = "MAX"
    <3>1. new = IF r[n] > v THEN r[n] ELSE v
      BY <1>7, <2>4 DEF new, Kept, type, n, get_function_ptr, Apply
    <3>2. v \in S /\ \A x \in S : v >= x
      BY <1>7, <2>4 DEF Accumulates, n, S
    <3>3. new \in S \cup {r[n]} /\ \A x \in S \cup {r[n]} : new >= x
      BY <2>2, <3>1, <3>2
    <3> QED
      BY <1>3, <1>7, <2>4, <3>3 DEF Accumulates, n
  <2>5. CASE m.func = "LAST"
    <3>1. new = r[n]
      BY <1>7, <2>5 DEF new, Kept, type, n, get_function_ptr, Apply
    <3> QED
      BY <1>1, <1>7, <2>5, <3>1 DEF Accumulates, n, more
  <2> QED
    BY <1>7, <2>3, <2>4, <2>5
<1>8. CASE ~ Kept(m) /\ m.func \in {"BIT_OR", "BIT_AND"}
  <2>1. w \in Nat
    BY <1>2, <1>8, SupportedTypes, ValueTypes DEF n, type, w
  <2>2. CASE m.func = "BIT_OR"
    <3>1. new = BitOr(v, r[n], w)
      BY <1>8, <2>2 DEF new, Kept, type, n, w, get_function_ptr, Apply
    <3>2. \A b \in 0 .. w - 1 : HasBit(v, b) <=> \E x \in S : HasBit(x, b)
      BY <1>8, <2>2 DEF Accumulates, n, S, w, type
    <3>3. /\ new \in UInt(w)
          /\ \A b \in 0 .. w - 1 : HasBit(new, b) <=> \E x \in S \cup {r[n]} : HasBit(x, b)
      BY <2>1, <3>1, <3>2, BitOrBits
    <3> QED
      BY <1>3, <1>8, <2>2, <3>3 DEF Accumulates, n, w, type
  <2>3. CASE m.func = "BIT_AND"
    <3>1. new = BitAnd(v, r[n], w)
      BY <1>8, <2>3 DEF new, Kept, type, n, w, get_function_ptr, Apply
    <3>2. \A b \in 0 .. w - 1 : HasBit(v, b) <=> \A x \in S : HasBit(x, b)
      BY <1>8, <2>3 DEF Accumulates, n, S, w, type
    <3>3. /\ new \in UInt(w)
          /\ \A b \in 0 .. w - 1 : HasBit(new, b) <=> \A x \in S \cup {r[n]} : HasBit(x, b)
      BY <2>1, <3>1, <3>2, BitAndBits
    <3> QED
      BY <1>3, <1>8, <2>3, <3>3 DEF Accumulates, n, w, type
  <2> QED
    BY <1>8, <2>2, <2>3
<1> QED
  BY <1>5, <1>6, <1>7, <1>8, SupportedTypes

\* make_avg, make_rate, the size of a vector, and the rest: what has been
\* accumulated is what the function means, or what it is computed from.
LEMMA AccumulatesMeaning ==
  ASSUME NEW m, IsEntry(m), NEW ms \in Seq(Records), ms # << >>,
         NEW v, Accumulates(m, ms, v)
  PROVE  /\ m.func = "COUNT_DISTINCT" => Cardinality(v) = Meaning(m, ms)
         /\ m.func # "COUNT_DISTINCT" =>
              /\ Kept(m) \/ m.func \notin {"AVG", "RATE"} => v = Meaning(m, ms)
              /\ ~ Kept(m) /\ m.func = "AVG" => make_avg(v, Len(ms)) = Meaning(m, ms)
              /\ ~ Kept(m) /\ m.func = "RATE" => make_rate(v, Duration(ms)) = Meaning(m, ms)
<1> DEFINE n == m.target
           S == Values(ms, n)
           w == Width[Type[n]]
<1>1. \A x \in S : \E y \in Records : x = y[n]
  BY ValuesIn
<1>2. n \in DOMAIN Type
  BY DEF IsEntry
<1> HIDE DEF n, S, w
<1>3. CASE m.func = "COUNT_DISTINCT"
  BY <1>3 DEF Accumulates, Meaning, n, S
<1> SUFFICES ASSUME m.func # "COUNT_DISTINCT"
             PROVE  /\ Kept(m) \/ m.func \notin {"AVG", "RATE"} => v = Meaning(m, ms)
                    /\ ~ Kept(m) /\ m.func = "AVG" =>
                         make_avg(v, Len(ms)) = Meaning(m, ms)
                    /\ ~ Kept(m) /\ m.func = "RATE" =>
                         make_rate(v, Duration(ms)) = Meaning(m, ms)
  BY <1>3
<1>4. CASE Kept(m)
  BY <1>4 DEF Accumulates, Meaning, Kept, n
<1>5. CASE ~ Kept(m) /\ m.func \in {"SUM", "AVG", "RATE"}
  <2> DEFINE wrapped == Total(ms, n) % Modulus(Type[n])
  <2>1. v = wrapped
    BY <1>5 DEF Accumulates, n
  <2>2. Type[n] \in Supported[m.func]
    BY <1>5 DEF Kept, n
  <2> HIDE DEF wrapped
  <2>3. /\ m.func = "SUM" => Meaning(m, ms) = wrapped
        /\ m.func = "AVG" => Meaning(m, ms) = wrapped \div Len(ms)
        /\ m.func = "RATE" => Meaning(m, ms) =
             IF Duration(ms) = 0 THEN 0 ELSE wrapped \div Duration(ms)
    BY <1>5, <2>2 DEF Meaning, n, wrapped
  <2> QED
    BY <1>5, <2>1, <2>3 DEF make_avg, make_rate
<1>6. CASE ~ Kept(m) /\ m.func \in {"MIN", "MAX"}
  <2>1. \A x \in S : x \in Int
    BY <1>1, <1>2, <1>6, SupportedTypes, ValueTypes DEF n
  <2>2. Type[n] \in Supported[m.func]
    BY <1>6 DEF Kept, n
  <2>3. CASE m.func = "MIN"
    <3>1. v \in S /\ \A x \in S : v <= x
      BY <1>6, <2>3 DEF Accumulates, n, S
    <3>2. Least(S) = v
      BY <2>1, <3>1 DEF Least
    <3>3. Meaning(m, ms) = Least(S)
      BY <2>2, <2>3 DEF Meaning, n, S
    <3> QED
      BY <1>6, <2>3, <3>2, <3>3
  <2>4. CASE m.func = "MAX"
    <3>1. v \in S /\ \A x \in S : v >= x
      BY <1>6, <2>4 DEF Accumulates, n, S
    <3>2. Greatest(S) = v
      BY <2>1, <3>1 DEF Greatest
    <3>3. Meaning(m, ms) = Greatest(S)
      BY <2>2, <2>4 DEF Meaning, n, S
    <3> QED
      BY <1>6, <2>4, <3>2, <3>3
  <2> QED
    BY <1>6, <2>3, <2>4
<1>7. CASE ~ Kept(m) /\ m.func = "LAST"
  BY <1>7 DEF Accumulates, Meaning, Kept, n
<1>8. CASE ~ Kept(m) /\ m.func \in {"BIT_OR", "BIT_AND"}
  <2>1. w \in Nat
    BY <1>2, <1>8, <1>1, SupportedTypes, RecordAssumption DEF n, w
  <2>2. Type[n] \in Supported[m.func]
    BY <1>8 DEF Kept, n
  <2>3. CASE m.func = "BIT_OR"
    <3> DEFINE B == {b \in 0 .. w - 1 : \E x \in S : HasBit(x, b)}
    <3>1. v \in UInt(w) /\ \A b \in 0 .. w - 1 : HasBit(v, b) <=> b \in B
      BY <1>8, <2>3 DEF Accumulates, n, S, w
    <3>2. Meaning(m, ms) = Number(B, w)
      BY <2>2, <2>3 DEF Meaning, n, S, w
    <3> HIDE DEF B
    <3> QED
      BY <1>8, <2>1, <2>3, <3>1, <3>2, NumberOfBits
  <2>4. CASE m.func = "BIT_AND"
    <3> DEFINE B == {b \in 0 .. w - 1 : \A x \in S : HasBit(x, b)}
    <3>1. v \in UInt(w) /\ \A b \in 0 .. w - 1 : HasBit(v, b) <=> b \in B
      BY <1>8, <2>4 DEF Accumulates, n, S, w
    <3>2. Meaning(m, ms) = Number(B, w)
      BY <2>2, <2>4 DEF Meaning, n, S, w
    <3> HIDE DEF B
    <3> QED
      BY <1>8, <2>1, <2>4, <3>1, <3>2, NumberOfBits
  <2> QED
    BY <1>8, <2>3, <2>4
<1> QED
  BY <1>4, <1>5, <1>6, <1>7, <1>8, SupportedTypes

-----------------------------------------------------------------------------
(* The invariant.                                                          *)

Names == DOMAIN Type \cup {expanded(n) : n \in DOMAIN Type}

\* An ordinary entry is fed by its own field.
ConfigInv ==
  /\ Registered(config, Names)
  /\ \A i \in 1 .. Len(config) :
       /\ config[i].target \in DOMAIN Type
       /\ config[i].func # "COUNT_DISTINCT" => config[i].field = config[i].target

TemplateInv ==
  IF pc = "options" THEN rec = None /\ sent = None ELSE outputTemp = Template

\* The times of the stored record span those of its members.
Spans(stored, ms) ==
  /\ stored["TIME_FIRST"] \in Values(ms, "TIME_FIRST")
  /\ \A x \in Values(ms, "TIME_FIRST") : stored["TIME_FIRST"] <= x
  /\ stored["TIME_LAST"] \in Values(ms, "TIME_LAST")
  /\ \A x \in Values(ms, "TIME_LAST") : stored["TIME_LAST"] >= x

StoredInv ==
  IF rec = None
  THEN members = << >> /\ vectors = 0
  ELSE /\ members \in Seq(Records) /\ members # << >> /\ Len(members) <= received
       /\ DOMAIN rec = OutFields
       /\ ~ NullAlloc
       /\ rec["COUNT"] = Len(members)
       /\ Spans(rec, members)
       /\ \A i \in 1 .. Len(config) : Accumulates(config[i], members, rec[config[i].field])
       /\ vectors = Cardinality(DOMAIN Ptrs)

RecordInv ==
  /\ pc \in {"options", "ready", "crashed"}
  /\ options \in Seq(Option)
  /\ received \in 0 .. MaxRecords
  /\ ConfigInv /\ TemplateInv /\ StoredInv

\* The entries of a config, one by one.
LEMMA ConfigEntry ==
  ASSUME ConfigInv, NEW i \in 1 .. Len(config)
  PROVE  /\ IsEntry(config[i])
         /\ DOMAIN config = 1 .. Len(config)
         /\ config[i].field \in Names
         /\ config[i].field \notin STATIC_FIELDS
         /\ Entry(config[i].field) = config[i]
         /\ config[i].func # "COUNT_DISTINCT" => config[i].field = config[i].target
<1>1. config \in Seq(Registration(Names))
  BY DEF ConfigInv, Registered
<1>2. /\ DOMAIN config = 1 .. Len(config) /\ config[i] \in Registration(Names)
      /\ Len(config) \in Nat
  BY <1>1
<1>3. config[i].func \in Functions /\ config[i].field \in Names
  BY <1>2 DEF Registration
<1>4. /\ config[i].target \in DOMAIN Type
      /\ config[i].func # "COUNT_DISTINCT" => config[i].field = config[i].target
  BY DEF ConfigInv
<1>5. config[i].field # "COUNT"
  BY <1>3, RecordAssumption DEF Names
<1>6. config[i].field \notin STATIC_FIELDS
  BY <1>5 DEF ConfigInv, Registered, STATIC_FIELDS
<1>7. Entry(config[i].field) = config[i]
  <2> DEFINE k == CHOOSE j \in DOMAIN config : config[j].field = config[i].field
  <2>1. k \in 1 .. Len(config) /\ config[k].field = config[i].field
    BY <1>2
  <2> HIDE DEF k
  <2>2. k = i
    BY <2>1 DEF ConfigInv, Registered
  <2> QED
    BY <2>2 DEF Entry, k
<1> QED
  BY <1>2, <1>3, <1>4, <1>6, <1>7 DEF IsEntry

\* The fields of a record the aggregator passes on: each is one of the three that
\* every record has, or the field of one entry, in the set of its function.
LEMMA OutputFields ==
  ASSUME ConfigInv
  PROVE  /\ "COUNT" \in OutFields /\ "TIME_FIRST" \in OutFields /\ "TIME_LAST" \in OutFields
         /\ \A i \in 1 .. Len(config) : config[i].field \in OutFields
         /\ \A n \in OutFields \ STATIC_FIELDS :
              \E i \in 1 .. Len(config) : n = config[i].field
         /\ \A funcs : \A i \in 1 .. Len(config) :
              config[i].field \in FieldsOf(funcs) <=> config[i].func \in funcs
         /\ \A funcs : \A n \in FieldsOf(funcs) :
              \E i \in 1 .. Len(config) : n = config[i].field /\ config[i].func \in funcs
         /\ \A funcs : FieldsOf(funcs) \cap STATIC_FIELDS = {}
<1>1. DOMAIN config = 1 .. Len(config)
  BY DEF ConfigInv, Registered
<1>2. OutFields = {config[i].field : i \in 1 .. Len(config)} \cup STATIC_FIELDS
  BY <1>1 DEF OutFields, return_template_def, FieldNames
<1>3. \A i, j \in 1 .. Len(config) : config[i].field = config[j].field => i = j
  BY DEF ConfigInv, Registered
<1>4. ASSUME NEW funcs
      PROVE  /\ \A i \in 1 .. Len(config) :
                  config[i].field \in FieldsOf(funcs) <=> config[i].func \in funcs
             /\ \A n \in FieldsOf(funcs) :
                  \E i \in 1 .. Len(config) : n = config[i].field /\ config[i].func \in funcs
  <2>1. FieldsOf(funcs) = {config[i].field :
                             i \in {j \in 1 .. Len(config) : config[j].func \in funcs}}
    BY <1>1 DEF FieldsOf
  <2> QED
    BY <1>3, <2>1
<1>5. \A funcs : FieldsOf(funcs) \cap STATIC_FIELDS = {}
  BY <1>4, ConfigEntry
<1> QED
  BY <1>2, <1>4, <1>5 DEF STATIC_FIELDS

\* A COUNT_DISTINCT has finitely many fields.
LEMMA FiniteFields ==
  ASSUME ConfigInv, NEW funcs
  PROVE  IsFiniteSet(FieldsOf(funcs)) /\ Cardinality(FieldsOf(funcs)) \in Nat
<1> DEFINE S == 1 .. Len(config)
           T == {config[i].field : i \in S}
           f == [i \in S |-> config[i].field]
<1>1. Len(config) \in Nat /\ DOMAIN config = S
  BY DEF ConfigInv, Registered
<1>2. IsFiniteSet(S)
  BY <1>1, FS_Interval
<1>3. f \in Surjection(S, T)
  BY DEF Surjection
<1>4. IsFiniteSet(T)
  BY <1>2, <1>3, FS_Surjection
<1>5. FieldsOf(funcs) \in SUBSET T
  BY <1>1 DEF FieldsOf
<1>6. IsFiniteSet(FieldsOf(funcs))
  BY <1>4, <1>5, FS_Subset
<1> QED
  BY <1>6, FS_CardinalityType

\* RegisterFields: what an entry becomes, by its function.
LEMMA TemplateEntry ==
  ASSUME ConfigInv, outputTemp = Template, NEW i \in 1 .. Len(config)
  PROVE  LET m == config[i]
             n == m.field
         IN /\ m.func = "KEY" =>
                 n \notin DOMAIN Fields /\ n \notin DOMAIN Ptrs /\ n \in KeyFields
            /\ m.func = "COUNT_DISTINCT" =>
                 /\ n \notin DOMAIN Fields /\ n \in DOMAIN Ptrs
                 /\ Ptrs[n].target = m.target
            /\ m.func \notin {"KEY", "COUNT_DISTINCT"} =>
                 /\ n \in DOMAIN Fields /\ n \notin DOMAIN Ptrs
                 /\ n = m.target
                 /\ Fields[n].process = get_function_ptr(m.func, Type[n])
                 /\ Fields[n].avg # "NULL" <=> m.func = "AVG" /\ ~ Kept(m)
                 /\ Fields[n].rate # "NULL" <=> m.func = "RATE" /\ ~ Kept(m)
<1> DEFINE m == config[i]
           n == m.field
           ordinary == FieldsOf(Functions \ {"KEY", "COUNT_DISTINCT"})
           ptrs == FieldsOf({"COUNT_DISTINCT"})
<1>1. /\ IsEntry(m) /\ Entry(n) = m
      /\ m.func # "COUNT_DISTINCT" => n = m.target
  BY ConfigEntry
<1>2. Fields = [x \in ordinary |-> add_field(x)] /\ Ptrs = [x \in ptrs |-> add_ptr_field(x)]
  BY DEF Fields, Ptrs, Template
<1>3. \A funcs : n \in FieldsOf(funcs) <=> m.func \in funcs
  BY OutputFields
<1> HIDE DEF ordinary, ptrs
<1>4. DOMAIN Fields = ordinary /\ DOMAIN Ptrs = ptrs
  BY <1>2
<1>5. /\ n \in ordinary <=> m.func \in Functions \ {"KEY", "COUNT_DISTINCT"}
      /\ n \in ptrs <=> m.func = "COUNT_DISTINCT"
      /\ n \in KeyFields <=> m.func = "KEY"
  BY <1>3 DEF ordinary, ptrs, KeyFields
<1>6. n \in ptrs => Ptrs[n].target = m.target
  BY <1>1, <1>2 DEF add_ptr_field
<1>7. ASSUME n \in ordinary
      PROVE  /\ Fields[n].process = get_function_ptr(m.func, Type[n])
             /\ Fields[n].avg = IF m.func = "AVG" THEN get_avg_ptr("AVG", Type[n]) ELSE "NULL"
             /\ Fields[n].rate = IF m.func = "RATE" THEN get_avg_ptr("RATE", Type[n]) ELSE "NULL"
  BY <1>1, <1>2, <1>7 DEF add_field
<1>8. /\ "AVG" # "NULL" /\ "RATE" # "NULL"
      /\ m.func # "COUNT_DISTINCT" => (Kept(m) <=> Type[n] \notin Supported[m.func])
  BY <1>1 DEF Kept
<1>9. ASSUME n \in ordinary
      PROVE  /\ Fields[n].avg # "NULL" <=> m.func = "AVG" /\ ~ Kept(m)
             /\ Fields[n].rate # "NULL" <=> m.func = "RATE" /\ ~ Kept(m)
  BY <1>5, <1>7, <1>8, <1>9 DEF get_avg_ptr
<1>10. m.func \in Functions
  BY <1>1 DEF IsEntry
<1> HIDE DEF m, n
<1>11. /\ m.func = "KEY" => n \notin ordinary /\ n \notin ptrs /\ n \in KeyFields
       /\ m.func = "COUNT_DISTINCT" => n \notin ordinary /\ n \in ptrs
       /\ m.func \notin {"KEY", "COUNT_DISTINCT"} => n \in ordinary /\ n \notin ptrs
  BY <1>5, <1>10
<1> QED
  BY <1>1, <1>4, <1>6, <1>7, <1>9, <1>11 DEF m, n

\* The fields every record has are neither fields nor pointers of the template.
LEMMA TemplateStatic ==
  ASSUME ConfigInv, outputTemp = Template
  PROVE  /\ DOMAIN Ptrs = FieldsOf({"COUNT_DISTINCT"})
         /\ \A n \in STATIC_FIELDS : n \notin DOMAIN Fields /\ n \notin DOMAIN Ptrs
<1>1. /\ DOMAIN Fields = FieldsOf(Functions \ {"KEY", "COUNT_DISTINCT"})
      /\ DOMAIN Ptrs = FieldsOf({"COUNT_DISTINCT"})
  BY DEF Fields, Ptrs, Template
<1> QED
  BY <1>1, OutputFields

\* init_record_data.
LEMMA FirstRecord ==
  ASSUME ConfigInv, outputTemp = Template, NEW r \in Records
  PROVE  LET stored == init_record_data(r) IN
         /\ DOMAIN stored = OutFields
         /\ stored["COUNT"] = 1
         /\ Spans(stored, <<r>>)
         /\ \A i \in 1 .. Len(config) :
              Accumulates(config[i], <<r>>, stored[config[i].field])
<1> DEFINE stored == init_record_data(r)
<1>1. DOMAIN stored = OutFields
  BY DEF init_record_data
<1>2. /\ "COUNT" \in OutFields /\ "TIME_FIRST" \in OutFields /\ "TIME_LAST" \in OutFields
      /\ \A n \in STATIC_FIELDS : n \notin DOMAIN Ptrs
  BY OutputFields, TemplateStatic
<1>3. /\ stored["COUNT"] = 1
      /\ stored["TIME_FIRST"] = r["TIME_FIRST"] /\ stored["TIME_LAST"] = r["TIME_LAST"]
  BY <1>2 DEF init_record_data, STATIC_FIELDS
<1>4. Spans(stored, <<r>>)
  <2>1. r["TIME_FIRST"] \in Int /\ r["TIME_LAST"] \in Int
    BY ValueTypes, RecordAssumption
  <2>3. \A n : Values(<<r>>, n) = {r[n]}
    BY ValuesFirst
  <2> HIDE DEF stored
  <2> QED
    BY <1>3, <2>1, <2>3 DEF Spans
<1>5. ASSUME NEW i \in 1 .. Len(config)
      PROVE  Accumulates(config[i], <<r>>, stored[config[i].field])
  <2> DEFINE m == config[i]
  <2>1. /\ IsEntry(m) /\ m.field \notin STATIC_FIELDS /\ m.field \in OutFields
        /\ m.func # "COUNT_DISTINCT" => m.field = m.target
    BY ConfigEntry, OutputFields
  <2>2. /\ m.func = "COUNT_DISTINCT" => m.field \in DOMAIN Ptrs /\ Ptrs[m.field].target = m.target
        /\ m.func # "COUNT_DISTINCT" => m.field \notin DOMAIN Ptrs
    BY TemplateEntry
  <2> HIDE DEF m
  <2>3. stored[m.field] = IF m.func = "COUNT_DISTINCT" THEN {r[m.target]} ELSE r[m.target]
    BY <2>1, <2>2 DEF init_record_data, STATIC_FIELDS
  <2> HIDE DEF stored
  <2>4. Accumulates(m, <<r>>, stored[m.field])
    BY <2>1, <2>3, AccumulatesFirst
  <2> QED
    BY <2>4 DEF m
<1> QED
  BY <1>1, <1>3, <1>4, <1>5

\* process_agg_functions, while COUNT does not wrap.
LEMMA NextRecord ==
  ASSUME RecordInv, rec # None, outputTemp = Template, received < MaxRecords,
         NEW r \in Records
  PROVE  LET stored == process_agg_functions(r)
             more   == Append(members, r)
         IN /\ DOMAIN stored = OutFields
            /\ stored["COUNT"] = Len(members) + 1
            /\ Spans(stored, more)
            /\ \A i \in 1 .. Len(config) :
                 Accumulates(config[i], more, stored[config[i].field])
<1> DEFINE stored == process_agg_functions(r)
           more   == Append(members, r)
<1>0. ConfigInv /\ StoredInv
  BY DEF RecordInv
<1>1. DOMAIN stored = OutFields
  BY DEF process_agg_functions
<1>2. /\ "COUNT" \in OutFields /\ "TIME_FIRST" \in OutFields /\ "TIME_LAST" \in OutFields
      /\ \A n \in STATIC_FIELDS : n \notin DOMAIN Ptrs /\ n \notin DOMAIN Fields
  BY <1>0, OutputFields, TemplateStatic
<1>3. KeyFields \cap STATIC_FIELDS = {}
  BY <1>0, OutputFields DEF KeyFields
<1>4. stored["COUNT"] = (rec["COUNT"] + 1) % Modulus("uint32")
  BY <1>2, <1>3 DEF process_agg_functions, STATIC_FIELDS
<1>5. stored["TIME_FIRST"] = IF r["TIME_FIRST"] < rec["TIME_FIRST"]
                             THEN r["TIME_FIRST"] ELSE rec["TIME_FIRST"]
  BY <1>2, <1>3 DEF process_agg_functions, STATIC_FIELDS
<1>6. stored["TIME_LAST"] = IF r["TIME_LAST"] > rec["TIME_LAST"]
                            THEN r["TIME_LAST"] ELSE rec["TIME_LAST"]
  BY <1>2, <1>3 DEF process_agg_functions, STATIC_FIELDS
<1>7. /\ members \in Seq(Records) /\ members # << >> /\ Len(members) <= received
      /\ rec["COUNT"] = Len(members) /\ Spans(rec, members)
      /\ \A i \in 1 .. Len(config) : Accumulates(config[i], members, rec[config[i].field])
  BY <1>0 DEF StoredInv
<1>8. stored["COUNT"] = Len(members) + 1
  <2>1. /\ Len(members) \in Nat /\ received \in Int /\ MaxRecords \in Nat
        /\ MaxRecords < Modulus("uint32") /\ Modulus("uint32") \in Nat
    <3>1. "uint32" \in Unsigned
      BY DEF Unsigned
    <3>2. Width["uint32"] \in Nat /\ MaxRecords \in Nat /\ MaxRecords < Pow[Width["uint32"]]
      BY <3>1, RecordAssumption
    <3>3. Pow[Width["uint32"]] \in Nat
      BY <3>2, PowDef
    <3>4. Len(members) \in Nat
      BY <1>7
    <3>5. received \in Int
      BY <3>2 DEF RecordInv
    <3> QED
      BY <3>2, <3>3, <3>4, <3>5 DEF Modulus
  <2>2. Len(members) <= received /\ received < MaxRecords
    BY <1>7
  <2> DEFINE len == Len(members)
             mod == Modulus("uint32")
  <2>3. stored["COUNT"] = (len + 1) % mod
    BY <1>4, <1>7
  <2> HIDE DEF len, mod, stored
  <2>4. len \in Nat /\ mod \in Nat /\ len <= received /\ received < MaxRecords
        /\ MaxRecords < mod /\ received \in Int /\ MaxRecords \in Nat
    BY <2>1, <2>2 DEF len, mod
  <2>5. len + 1 \in 0 .. mod - 1
    BY <2>4
  <2>6. (len + 1) % mod = len + 1
    BY <2>4, <2>5
  <2> QED
    BY <2>3, <2>6 DEF len
<1>9. Spans(stored, more)
  <2>1. \A x \in Records : x["TIME_FIRST"] \in Int /\ x["TIME_LAST"] \in Int
    BY ValueTypes, RecordAssumption
  <2>2. \A n : /\ Values(more, n) = Values(members, n) \cup {r[n]}
               /\ \A v \in Values(members, n) : \E x \in Records : v = x[n]
    <3> TAKE n
    <3>1. Values(Append(members, r), n) = Values(members, n) \cup {r[n]}
      BY <1>7, ValuesNext
    <3>2. \A v \in Values(members, n) : \E x \in Records : v = x[n]
      BY <1>7, ValuesIn
    <3> QED
      BY <3>1, <3>2 DEF more
  <2> HIDE DEF stored, more
  <2>3. /\ \A x \in Values(members, "TIME_FIRST") : x \in Int
        /\ \A x \in Values(members, "TIME_LAST") : x \in Int
        /\ r["TIME_FIRST"] \in Int /\ r["TIME_LAST"] \in Int
    BY <2>1, <2>2
  <2>4. /\ stored["TIME_FIRST"] \in Values(more, "TIME_FIRST")
        /\ \A x \in Values(more, "TIME_FIRST") : stored["TIME_FIRST"] <= x
    BY <1>5, <1>7, <2>2, <2>3 DEF Spans
  <2>5. /\ stored["TIME_LAST"] \in Values(more, "TIME_LAST")
        /\ \A x \in Values(more, "TIME_LAST") : stored["TIME_LAST"] >= x
    BY <1>6, <1>7, <2>2, <2>3 DEF Spans
  <2> QED
    BY <2>4, <2>5 DEF Spans
<1>10. ASSUME NEW i \in 1 .. Len(config)
       PROVE  Accumulates(config[i], more, stored[config[i].field])
  <2> DEFINE m == config[i]
             n == m.field
             v == rec[n]
  <2>1. /\ IsEntry(m) /\ n \notin STATIC_FIELDS /\ n \in OutFields
        /\ m.func # "COUNT_DISTINCT" => n = m.target
    BY <1>0, ConfigEntry, OutputFields
  <2>2. /\ m.func = "KEY" => n \notin DOMAIN Fields /\ n \notin DOMAIN Ptrs /\ n \in KeyFields
        /\ m.func = "COUNT_DISTINCT" =>
             n \notin DOMAIN Fields /\ n \in DOMAIN Ptrs /\ Ptrs[n].target = m.target
        /\ m.func \notin {"KEY", "COUNT_DISTINCT"} =>
             /\ n \in DOMAIN Fields /\ n \notin DOMAIN Ptrs
             /\ Fields[n].process = get_function_ptr(m.func, Type[n])
    BY <1>0, TemplateEntry
  <2>3. Accumulates(m, members, v)
    BY <1>7
  <2>4. n \in KeyFields <=> m.func = "KEY"
    BY <1>0, OutputFields DEF KeyFields
  <2> HIDE DEF m, n
  <2>5. n \notin {"COUNT", "TIME_FIRST", "TIME_LAST"}
    BY <2>1 DEF STATIC_FIELDS
  <2>6. stored[n] = IF m.func = "COUNT_DISTINCT" THEN count_distinct(r[m.target], v)
                    ELSE Apply(get_function_ptr(m.func, Type[m.target]), Type[m.target],
                               r[m.target], v)
    <3>1. CASE m.func = "KEY"
      <4>1. stored[n] = rec[n]
        BY <2>1, <2>2, <2>5, <3>1 DEF process_agg_functions
      <4>2. get_function_ptr("KEY", Type[m.target]) = "nope"
        BY DEF get_function_ptr, Supported, Functions
      <4> QED
        BY <3>1, <4>1, <4>2 DEF Apply
    <3>2. CASE m.func = "COUNT_DISTINCT"
      BY <2>1, <2>2, <2>4, <2>5, <3>2 DEF process_agg_functions
    <3>3. CASE m.func \notin {"KEY", "COUNT_DISTINCT"}
      <4>1. stored[n] = Apply(Fields[n].process, Type[n], r[n], rec[n])
        BY <2>1, <2>2, <2>4, <2>5, <3>3 DEF process_agg_functions
      <4> QED
        BY <2>1, <2>2, <3>3, <4>1
    <3> QED
      BY <3>1, <3>2, <3>3
  <2> HIDE DEF stored, v
  <2>7. Accumulates(m, more, stored[n])
    BY <1>7, <2>1, <2>3, <2>6, AccumulatesNext
  <2> QED
    BY <2>7 DEF m, n
<1> QED
  BY <1>1, <1>8, <1>9, <1>10

\* prepare_to_send: a record passed on says what every function means.
Reports(message) ==
  /\ \A i \in DOMAIN config : message.rec[config[i].field] = Meaning(config[i], message.members)
  /\ message.rec["COUNT"] = Len(message.members)
  /\ message.rec["TIME_LAST"] - message.rec["TIME_FIRST"] = Duration(message.members)

LEMMA SpansDuration ==
  ASSUME NEW stored, NEW ms \in Seq(Records), Spans(stored, ms)
  PROVE  /\ stored["TIME_LAST"] - stored["TIME_FIRST"] = Duration(ms)
         /\ stored["TIME_FIRST"] \in Int /\ stored["TIME_LAST"] \in Int
<1> DEFINE F == Values(ms, "TIME_FIRST")
           E == Values(ms, "TIME_LAST")
<1>1. \A x \in Records : x["TIME_FIRST"] \in Int /\ x["TIME_LAST"] \in Int
  BY ValueTypes, RecordAssumption
<1>2. ASSUME NEW n, NEW v \in Values(ms, n)
      PROVE  \E x \in Records : v = x[n]
  <2>1. PICK i \in DOMAIN ms : v = ms[i][n]
    BY DEF Values
  <2> QED
    BY <2>1
<1>3. (\A x \in F : x \in Int) /\ (\A x \in E : x \in Int)
  BY <1>1, <1>2
<1> HIDE DEF F, E
<1>4. /\ stored["TIME_FIRST"] \in F /\ \A x \in F : stored["TIME_FIRST"] <= x
      /\ stored["TIME_LAST"] \in E /\ \A x \in E : stored["TIME_LAST"] >= x
  BY DEF Spans, F, E
<1>5. Least(F) = stored["TIME_FIRST"]
  BY <1>3, <1>4 DEF Least
<1>6. Greatest(E) = stored["TIME_LAST"]
  BY <1>3, <1>4 DEF Greatest
<1> QED
  BY <1>3, <1>4, <1>5, <1>6 DEF Duration, F, E

LEMMA MessageReports ==
  ASSUME ConfigInv, StoredInv, rec # None, outputTemp = Template, ~ NullRate
  PROVE  Reports(Message)
<1> DEFINE sending == outputTemp.prepare_to_send
           out     == Message.rec
<1>1. Message.members = members /\ out = IF sending THEN prepare_to_send ELSE rec
  BY DEF Message
<1>2. /\ members \in Seq(Records) /\ members # << >>
      /\ DOMAIN rec = OutFields
      /\ rec["COUNT"] = Len(members) /\ Spans(rec, members)
      /\ \A i \in 1 .. Len(config) : Accumulates(config[i], members, rec[config[i].field])
  BY DEF StoredInv
<1>3. /\ "COUNT" \in OutFields /\ "TIME_FIRST" \in OutFields /\ "TIME_LAST" \in OutFields
      /\ \A n \in STATIC_FIELDS : n \notin DOMAIN Ptrs /\ n \notin DOMAIN Fields
  BY OutputFields, TemplateStatic
<1>4. \A n \in STATIC_FIELDS : out[n] = rec[n]
  BY <1>1, <1>3 DEF prepare_to_send, STATIC_FIELDS
<1>5. /\ rec["TIME_LAST"] - rec["TIME_FIRST"] = Duration(members)
      /\ rec["TIME_FIRST"] \in Int /\ rec["TIME_LAST"] \in Int
  BY <1>2, SpansDuration
<1>6. /\ outputTemp.avg_postprocessing <=> FieldsOf({"AVG", "RATE"}) # {}
      /\ sending <=> FieldsOf({"AVG", "RATE"}) # {} \/ FieldsOf({"COUNT_DISTINCT"}) # {}
  BY DEF Template
<1> HIDE DEF out, sending
<1>7. ASSUME NEW i \in 1 .. Len(config)
      PROVE  out[config[i].field] = Meaning(config[i], members)
  <2> DEFINE m == config[i]
             n == m.field
             v == rec[n]
  <2>1. /\ IsEntry(m) /\ n \in OutFields /\ Accumulates(m, members, v)
        /\ \A funcs : n \in FieldsOf(funcs) <=> m.func \in funcs
    BY <1>2, ConfigEntry, OutputFields
  <2>2. /\ m.func = "KEY" => n \notin DOMAIN Fields /\ n \notin DOMAIN Ptrs
        /\ m.func = "COUNT_DISTINCT" => n \notin DOMAIN Fields /\ n \in DOMAIN Ptrs
        /\ m.func \notin {"KEY", "COUNT_DISTINCT"} =>
             /\ n \in DOMAIN Fields /\ n \notin DOMAIN Ptrs
             /\ Fields[n].avg # "NULL" <=> m.func = "AVG" /\ ~ Kept(m)
             /\ Fields[n].rate # "NULL" <=> m.func = "RATE" /\ ~ Kept(m)
    BY TemplateEntry
  <2> HIDE DEF m, n, v
  <2>3. CASE m.func = "COUNT_DISTINCT"
    <3>1. sending
      BY <1>6, <2>1, <2>3
    <3>2. out[n] = Cardinality(v)
      BY <1>1, <2>1, <2>2, <2>3, <3>1 DEF prepare_to_send, v
    <3> QED
      BY <1>2, <2>1, <2>3, <3>2, AccumulatesMeaning DEF m, n
  <2>4. CASE m.func # "COUNT_DISTINCT" /\ n \in DOMAIN Fields /\ outputTemp.avg_postprocessing
    <3>1. sending
      BY <1>6, <2>4
    <3>2. m.func \notin {"KEY", "COUNT_DISTINCT"}
      BY <2>2, <2>4
    <3>3. out[n] = post_process(n)
      BY <1>1, <2>1, <2>2, <2>4, <3>1, <3>2 DEF prepare_to_send
    <3>4. Fields[n].avg # "NULL" \/ Fields[n].rate # "NULL"
      BY <2>4 DEF NullRate
    <3>5. CASE Fields[n].avg # "NULL"
      <4>1. m.func = "AVG" /\ ~ Kept(m)
        BY <2>2, <3>2, <3>5
      <4>2. out[n] = make_avg(v, Len(members))
        BY <1>2, <3>3, <3>5 DEF post_process, v
      <4> QED
        BY <1>2, <2>1, <4>1, <4>2, AccumulatesMeaning DEF m, n
    <3>6. CASE Fields[n].avg = "NULL"
      <4>1. m.func = "RATE" /\ ~ Kept(m)
        BY <2>2, <3>2, <3>4, <3>6
      <4>2. out[n] = make_rate(v, Duration(members))
        BY <1>5, <3>3, <3>6 DEF post_process, v
      <4> QED
        BY <1>2, <2>1, <4>1, <4>2, AccumulatesMeaning DEF m, n
    <3> QED
      BY <3>5, <3>6
  <2>5. CASE m.func # "COUNT_DISTINCT" /\ ~ (n \in DOMAIN Fields /\ outputTemp.avg_postprocessing)
    <3>1. out[n] = v
      BY <1>1, <2>1, <2>2, <2>5 DEF prepare_to_send, v
    <3>2. m.func \notin {"AVG", "RATE"}
      BY <1>6, <2>1, <2>2, <2>5
    <3> QED
      BY <1>2, <2>1, <2>5, <3>1, <3>2, AccumulatesMeaning DEF m, n
  <2> QED
    BY <2>3, <2>4, <2>5
<1>8. DOMAIN config = 1 .. Len(config)
  BY DEF ConfigInv, Registered
<1>9. out["COUNT"] = Len(members) /\ out["TIME_LAST"] - out["TIME_FIRST"] = Duration(members)
  BY <1>2, <1>4, <1>5 DEF STATIC_FIELDS
<1> QED
  BY <1>1, <1>7, <1>8, <1>9 DEF Reports, out

-----------------------------------------------------------------------------
(* The steps.                                                              *)

\* A step that leaves Config and OutputTemplate alone.
LEMMA Frame ==
  ASSUME UNCHANGED <<config, outputTemp>>
  PROVE  /\ ConfigInv' <=> ConfigInv
         /\ Template' = Template
         /\ OutFields' = OutFields
         /\ Ptrs' = Ptrs
         /\ NullAlloc' <=> NullAlloc
<1>1. ConfigInv' <=> ConfigInv
  BY DEF ConfigInv, Registered
<1>2. Template' = Template
  BY DEF Template, FieldsOf, Entry, add_field, add_ptr_field
<1>3. OutFields' = OutFields
  BY DEF OutFields, return_template_def, FieldNames
<1>4. Ptrs' = Ptrs /\ (NullAlloc' <=> NullAlloc)
  BY DEF Ptrs, NullAlloc
<1> QED
  BY <1>1, <1>2, <1>3, <1>4

\* init_record_data and init_ptr_field once no vector is allocated.
LEMMA StoreKeeps ==
  ASSUME RecordInv, outputTemp = Template, UNCHANGED <<config, outputTemp>>,
         NEW r \in Records, received' = received + 1, NEW allocated, allocated = 0,
         Store(r, allocated)
  PROVE  StoredInv' /\ pc' \in {pc, "crashed"}
<1>0. ConfigInv /\ StoredInv /\ received \in Nat
  BY RecordAssumption DEF RecordInv
<1>1. OutFields' = OutFields /\ Ptrs' = Ptrs /\ (NullAlloc' <=> NullAlloc)
  BY Frame
<1>2. CASE NullAlloc
  <2>1. rec = None
    BY <1>0, <1>2 DEF StoredInv
  <2>2. pc' = "crashed" /\ UNCHANGED <<rec, vectors, members>>
    BY <1>2 DEF Store, Crash
  <2> QED
    BY <1>0, <2>1, <2>2 DEF StoredInv
<1>3. CASE ~ NullAlloc
  <2> DEFINE stored == init_record_data(r)
  <2>1. /\ rec' = stored /\ vectors' = allocated + Cardinality(DOMAIN Ptrs)
        /\ members' = <<r>> /\ pc' = pc
    BY <1>3 DEF Store
  <2>2. /\ DOMAIN stored = OutFields
        /\ stored["COUNT"] = 1
        /\ Spans(stored, <<r>>)
        /\ \A i \in 1 .. Len(config) :
             Accumulates(config[i], <<r>>, stored[config[i].field])
    BY <1>0, FirstRecord
  <2> HIDE DEF stored
  <2>3. Cardinality(DOMAIN Ptrs) \in Nat
    BY <1>0, FiniteFields, TemplateStatic
  <2>4. <<r>> \in Seq(Records) /\ <<r>> # << >> /\ Len(<<r>>) = 1
    OBVIOUS
  <2>5. rec' # None
    <3>1. DOMAIN None = {} /\ "COUNT" \in OutFields
      BY <1>0, OutputFields DEF None
    <3> QED
      BY <2>1, <2>2, <3>1
  <2>6. /\ members' \in Seq(Records) /\ members' # << >> /\ Len(members') <= received'
        /\ DOMAIN rec' = OutFields'
        /\ ~ NullAlloc'
        /\ rec'["COUNT"] = Len(members')
        /\ vectors' = Cardinality(DOMAIN Ptrs')
    BY <1>0, <1>1, <1>3, <2>1, <2>2, <2>3, <2>4
  <2>7. Spans(rec, members)'
    BY <2>1, <2>2 DEF Spans, Values
  <2>8. \A i \in 1 .. Len(config') : Accumulates(config'[i], members', rec'[config'[i].field])
    BY <2>1, <2>2
  <2>9. (\A i \in 1 .. Len(config) : Accumulates(config[i], members, rec[config[i].field]))'
    BY <2>8 DEF Accumulates, Kept, Values, Total
  <2> QED
    BY <2>1, <2>5, <2>6, <2>7, <2>9 DEF StoredInv
<1> QED
  BY <1>2, <1>3

LEMMA InitHolds ==
  Init => RecordInv /\ ReportsMeaning
<1> SUFFICES ASSUME Init PROVE RecordInv /\ ReportsMeaning
  OBVIOUS
<1>1. /\ pc = "options" /\ config = << >> /\ rec = None /\ vectors = 0 /\ members = << >>
      /\ sent = None /\ received = 0
  BY DEF Init
<1>2. options \in Seq(Option)
  BY RecordAssumption DEF Init
<1>3. ConfigInv
  <2>1. << >> \in Seq(Registration(Names)) /\ Len(<< >>) = 0
    OBVIOUS
  <2> QED
    BY <1>1, <2>1, RecordAssumption DEF ConfigInv, Registered
<1>4. received \in 0 .. MaxRecords
  BY <1>1, RecordAssumption
<1> QED
  BY <1>1, <1>2, <1>3, <1>4 DEF RecordInv, TemplateInv, StoredInv, ReportsMeaning

\* Agg::init: an option adds at most its own entry.
LEMMA OptionStep ==
  ASSUME RecordInv, ReportsMeaning, AddMember \/ AddPtrMember
  PROVE  RecordInv' /\ ReportsMeaning'
<1> DEFINE func  == Head(options).func
           field == Head(options).field
<1>1. /\ pc = "options" /\ options # << >> /\ options' = Tail(options)
      /\ UNCHANGED <<pc, outputTemp, rec, vectors, members, sent, received>>
  BY DEF AddMember, AddPtrMember, ParseOption, storedVars
<1>2. /\ options \in Seq(Option) /\ ConfigInv /\ rec = None /\ sent = None /\ StoredInv
      /\ received \in 0 .. MaxRecords
  BY <1>1 DEF RecordInv, TemplateInv
<1>3. options' \in Seq(Option) /\ Head(options) \in Option
  BY <1>1, <1>2
<1>4. func \in Functions /\ field \in DOMAIN Type
  BY <1>3 DEF Option
<1> HIDE DEF func, field
<1>5. config' = add_option(config, func, field)
  BY DEF AddMember, AddPtrMember, add_option, func, field
<1>6. field \in Names /\ expanded(field) \in Names
  BY <1>4 DEF Names
<1>7. Registered(config, Names) /\ MAX_KEY_FIELDS \in Nat
  BY <1>2, RecordAssumption DEF ConfigInv
<1>8. Registered(config', Names)
  BY <1>4, <1>5, <1>6, <1>7, AddOptionTheorem
<1>9. ASSUME NEW i \in 1 .. Len(config')
      PROVE  /\ config'[i].target \in DOMAIN Type
             /\ config'[i].func # "COUNT_DISTINCT" => config'[i].field = config'[i].target
  <2>1. config \in Seq(Registration(Names)) /\ Len(config) \in Nat
    BY <1>7 DEF Registered
  <2>2. CASE config' = config
    BY <1>2, <2>2 DEF ConfigInv
  <2>3. ASSUME NEW n \in Names, config' = Register(config, func, n, field),
               func # "COUNT_DISTINCT" => n = field
        PROVE  /\ config'[i].target \in DOMAIN Type
               /\ config'[i].func # "COUNT_DISTINCT" =>
                    config'[i].field = config'[i].target
    <3> DEFINE e == [func |-> func, field |-> n, target |-> field]
    <3>1. /\ Len(config') = Len(config) + 1
          /\ config'[Len(config) + 1] = e
          /\ \A j \in 1 .. Len(config) : config'[j] = config[j]
      <4>1. e \in Registration(Names)
        BY <1>4, <1>6 DEF Registration
      <4> HIDE DEF e
      <4> QED
        BY <2>1, <2>3, <4>1 DEF Register, e
    <3>2. CASE i \in 1 .. Len(config)
      BY <1>2, <3>1, <3>2 DEF ConfigInv
    <3>3. CASE i = Len(config) + 1
      BY <1>4, <2>3, <3>1, <3>3
    <3> QED
      BY <2>1, <3>1, <3>2, <3>3
  <2>4. \/ config' = config
        \/ func = "COUNT_DISTINCT" /\ config' = Register(config, func, expanded(field), field)
        \/ func # "COUNT_DISTINCT" /\ config' = Register(config, func, field, field)
    BY <1>5 DEF add_option, add_member, add_ptr_member
  <2> QED
    BY <1>6, <2>2, <2>3, <2>4
<1>10. ConfigInv'
  BY <1>8, <1>9 DEF ConfigInv, Registered
<1>11. TemplateInv' /\ StoredInv'
  BY <1>1, <1>2 DEF TemplateInv, StoredInv, None
<1> QED
  BY <1>1, <1>2, <1>3, <1>10, <1>11 DEF RecordInv, ReportsMeaning, None

\* The template is that of the config for good.
LEMMA RegisterStep ==
  ASSUME RecordInv, ReportsMeaning, RegisterFields
  PROVE  RecordInv' /\ ReportsMeaning'
<1>1. /\ pc = "options" /\ pc' = "ready" /\ outputTemp' = Template
      /\ UNCHANGED <<options, config, rec, vectors, members, sent, received>>
  BY DEF RegisterFields, storedVars
<1>2. rec = None /\ sent = None
  BY <1>1 DEF RecordInv, TemplateInv
<1>3. Template' = Template
  BY <1>1 DEF Template, FieldsOf, Entry, add_field, add_ptr_field
<1>4. ConfigInv'
  BY <1>1 DEF RecordInv, ConfigInv, Registered
<1>5. TemplateInv'
  BY <1>1, <1>3 DEF TemplateInv
<1>6. StoredInv'
  BY <1>1, <1>2 DEF RecordInv, StoredInv, None
<1> QED
  BY <1>1, <1>2, <1>4, <1>5, <1>6 DEF RecordInv, ReportsMeaning, None

\* What every step of a parsed rule leaves alone.
LEMMA ReadyFrame ==
  ASSUME RecordInv, ReportsMeaning,
         \/ pc = "ready" /\ pc' \in {"ready", "crashed"}
         \/ UNCHANGED <<pc, rec, sent>>,
         UNCHANGED <<options, config, outputTemp>>, received' \in 0 .. MaxRecords,
         StoredInv', sent' = sent \/ Reports(sent')
  PROVE  RecordInv' /\ ReportsMeaning'
<1>1. ConfigInv' /\ Template' = Template
  BY Frame DEF RecordInv
<1>2. TemplateInv' /\ pc' \in {"options", "ready", "crashed"}
  BY <1>1 DEF RecordInv, TemplateInv, None
<1>3. ReportsMeaning'
  <2> DEFINE Says(c, message) ==
        /\ \A i \in DOMAIN c : message.rec[c[i].field] = Meaning(c[i], message.members)
        /\ message.rec["COUNT"] = Len(message.members)
        /\ message.rec["TIME_LAST"] - message.rec["TIME_FIRST"] = Duration(message.members)
  <2>1. sent = None \/ Says(config, sent)
    BY DEF ReportsMeaning
  <2>2. Reports(sent') => Says(config', sent')
    BY DEF Reports
  <2>3. sent' = None \/ Says(config', sent')
    <3> HIDE DEF Says
    <3> QED
      BY <2>1, <2>2
  <2>4. Says(config', sent') => ReportsMeaning'
    BY DEF ReportsMeaning, Meaning, Values, Total, Duration
  <2>5. sent' = None => ReportsMeaning'
    BY DEF ReportsMeaning, None
  <2> QED
    BY <2>3, <2>4, <2>5
<1> QED
  BY <1>1, <1>2, <1>3 DEF RecordInv

LEMMA ReceiveStep ==
  ASSUME RecordInv, NEW r \in Records, Receive(r)
  PROVE  /\ pc = "ready" /\ outputTemp = Template
         /\ UNCHANGED <<options, config, outputTemp>>
         /\ received < MaxRecords /\ received' = received + 1
         /\ received' \in 0 .. MaxRecords
<1>1. /\ pc = "ready" /\ received < MaxRecords /\ received' = received + 1
      /\ UNCHANGED <<options, config, outputTemp>>
  BY DEF Receive
<1>2. received \in 0 .. MaxRecords /\ MaxRecords \in Nat
  BY RecordAssumption DEF RecordInv
<1>3. outputTemp = Template
  BY <1>1 DEF RecordInv, TemplateInv
<1> QED
  BY <1>1, <1>2, <1>3

\* The stored record and its template are left alone.
LEMMA StoredFrame ==
  ASSUME RecordInv, UNCHANGED <<config, outputTemp, rec, vectors, members>>,
         received' \in {received, received + 1}
  PROVE  StoredInv'
<1>1. UNCHANGED <<rec, vectors, members>>
  OBVIOUS
<1>2. OutFields' = OutFields /\ Ptrs' = Ptrs /\ (NullAlloc' <=> NullAlloc)
  BY Frame
<1>3. StoredInv /\ received \in Int
  BY RecordAssumption DEF RecordInv
<1>4. CASE rec = None
  <2>1. rec' = None /\ members' = << >> /\ vectors' = 0
    BY <1>1, <1>3, <1>4 DEF StoredInv
  <2> QED
    BY <2>1 DEF StoredInv, None
<1>5. CASE rec # None
  <2>1. Len(members) <= received'
    BY <1>3, <1>5 DEF StoredInv
  <2>2. rec' # None
    BY <1>1, <1>5 DEF None
  <2>3. /\ members' \in Seq(Records) /\ members' # << >> /\ Len(members') <= received'
        /\ DOMAIN rec' = OutFields' /\ ~ NullAlloc' /\ rec'["COUNT"] = Len(members')
        /\ vectors' = Cardinality(DOMAIN Ptrs')
    BY <1>1, <1>2, <1>3, <1>5, <2>1 DEF StoredInv
  <2>4. Spans(rec, members)'
    BY <1>1, <1>3, <1>5 DEF StoredInv, Spans, Values
  <2>5. \A i \in 1 .. Len(config') : Accumulates(config'[i], members', rec'[config'[i].field])
    BY <1>1, <1>3, <1>5 DEF StoredInv
  <2>6. (\A i \in 1 .. Len(config) : Accumulates(config[i], members, rec[config[i].field]))'
    BY <2>5 DEF Accumulates, Kept, Values, Total
  <2> QED
    BY <2>2, <2>3, <2>4, <2>6 DEF StoredInv
<1> QED
  BY <1>4, <1>5

\* A crash leaves the stored record as it is.
LEMMA CrashKeeps ==
  ASSUME RecordInv, UNCHANGED <<config, outputTemp>>, Crash,
         received' \in {received, received + 1}
  PROVE  StoredInv' /\ pc' = "crashed"
<1>1. UNCHANGED <<rec, vectors, members>> /\ pc' = "crashed"
  BY DEF Crash
<1> QED
  BY <1>1, StoredFrame

LEMMA CreateStep ==
  ASSUME RecordInv, ReportsMeaning, NEW r \in Records, CreateRecord(r)
  PROVE  RecordInv' /\ ReportsMeaning'
<1>1. Receive(r) /\ rec = None /\ Store(r, vectors) /\ sent' = sent
  BY DEF CreateRecord
<1>2. /\ pc = "ready" /\ outputTemp = Template
      /\ UNCHANGED <<options, config, outputTemp>>
      /\ received' = received + 1 /\ received' \in 0 .. MaxRecords
  BY <1>1, ReceiveStep
<1>3. vectors = 0
  BY <1>1 DEF RecordInv, StoredInv
<1>4. StoredInv' /\ pc' \in {pc, "crashed"}
  BY <1>1, <1>2, <1>3, StoreKeeps
<1> QED
  BY <1>1, <1>2, <1>4, ReadyFrame

LEMMA UpdateStep ==
  ASSUME RecordInv, ReportsMeaning, NEW r \in Records, UpdateRecord(r)
  PROVE  RecordInv' /\ ReportsMeaning'
<1> DEFINE stored == process_agg_functions(r)
           more   == Append(members, r)
<1>1. /\ Receive(r) /\ rec # None /\ rec' = stored /\ members' = more
      /\ UNCHANGED <<pc, vectors, sent>>
  BY DEF UpdateRecord
<1>2. /\ pc = "ready" /\ outputTemp = Template
      /\ UNCHANGED <<options, config, outputTemp>>
      /\ received < MaxRecords /\ received' = received + 1 /\ received' \in 0 .. MaxRecords
  BY <1>1, ReceiveStep
<1>3. /\ DOMAIN stored = OutFields
      /\ stored["COUNT"] = Len(members) + 1
      /\ Spans(stored, more)
      /\ \A i \in 1 .. Len(config) : Accumulates(config[i], more, stored[config[i].field])
  BY <1>1, <1>2, NextRecord
<1>4. /\ members \in Seq(Records) /\ Len(members) <= received /\ ~ NullAlloc
      /\ vectors = Cardinality(DOMAIN Ptrs)
  BY <1>1 DEF RecordInv, StoredInv
<1>5. more \in Seq(Records) /\ more # << >> /\ Len(more) = Len(members) + 1
  BY <1>4
<1> HIDE DEF stored, more
<1>6. OutFields' = OutFields /\ Ptrs' = Ptrs /\ (NullAlloc' <=> NullAlloc)
  BY <1>2, Frame
<1>7. rec' # None
  <2>1. DOMAIN None = {} /\ "COUNT" \in OutFields
    BY OutputFields DEF None, RecordInv
  <2> QED
    BY <1>1, <1>3, <2>1
<1>8. Len(members') <= received'
  <2>1. received \in Int /\ Len(members) \in Int
    BY <1>4, RecordAssumption DEF RecordInv
  <2> QED
    BY <1>1, <1>2, <1>4, <1>5, <2>1
<1>9. Spans(rec, members)'
  BY <1>1, <1>3 DEF Spans, Values
<1>10. (\A i \in 1 .. Len(config) : Accumulates(config[i], members, rec[config[i].field]))'
  <2>1. \A i \in 1 .. Len(config') : Accumulates(config'[i], members', rec'[config'[i].field])
    BY <1>1, <1>2, <1>3
  <2> QED
    BY <2>1 DEF Accumulates, Kept, Values, Total
<1>11. /\ members' \in Seq(Records) /\ members' # << >>
       /\ DOMAIN rec' = OutFields' /\ ~ NullAlloc' /\ rec'["COUNT"] = Len(members')
       /\ vectors' = Cardinality(DOMAIN Ptrs')
  BY <1>1, <1>3, <1>4, <1>5, <1>6
<1>12. StoredInv'
  BY <1>7, <1>8, <1>9, <1>10, <1>11 DEF StoredInv
<1> QED
  BY <1>1, <1>2, <1>12, ReadyFrame

LEMMA OpenStep ==
  ASSUME RecordInv, ReportsMeaning, NEW r \in Records, OpenNewWindow(r)
  PROVE  RecordInv' /\ ReportsMeaning'
<1>1. Receive(r) /\ rec # None
  BY DEF OpenNewWindow
<1>2. /\ pc = "ready" /\ outputTemp = Template
      /\ UNCHANGED <<options, config, outputTemp>>
      /\ received' = received + 1 /\ received' \in 0 .. MaxRecords
  BY <1>1, ReceiveStep
<1>3. CASE NullRate
  <2>1. Crash /\ sent' = sent
    BY <1>3 DEF OpenNewWindow
  <2>2. StoredInv' /\ pc' = "crashed"
    BY <1>2, <2>1, CrashKeeps
  <2> QED
    BY <1>2, <2>1, <2>2, ReadyFrame
<1>4. CASE ~ NullRate
  <2>1. sent' = Message /\ Store(r, vectors - Cardinality(DOMAIN Ptrs))
    BY <1>4 DEF OpenNewWindow
  <2>2. ConfigInv /\ StoredInv
    BY DEF RecordInv
  <2>3. vectors = Cardinality(DOMAIN Ptrs) /\ Cardinality(DOMAIN Ptrs) \in Nat
    BY <1>1, <1>2, <2>2, FiniteFields, TemplateStatic DEF StoredInv
  <2>4. vectors - Cardinality(DOMAIN Ptrs) = 0
    BY <2>3
  <2>5. StoredInv' /\ pc' \in {pc, "crashed"}
    BY <1>2, <2>1, <2>4, StoreKeeps
  <2>6. Reports(Message)
    BY <1>1, <1>2, <1>4, <2>2, MessageReports
  <2> QED
    BY <1>2, <2>1, <2>5, <2>6, ReadyFrame
<1> QED
  BY <1>3, <1>4

LEMMA SendStep ==
  ASSUME RecordInv, ReportsMeaning, SendAndErase
  PROVE  RecordInv' /\ ReportsMeaning'
<1>1. /\ pc = "ready" /\ rec # None
      /\ UNCHANGED <<options, config, outputTemp, received>>
  BY DEF SendAndErase
<1>2. outputTemp = Template /\ ConfigInv /\ StoredInv /\ received \in 0 .. MaxRecords
  BY <1>1 DEF RecordInv, TemplateInv
<1>3. CASE NullRate
  <2>1. Crash /\ sent' = sent
    BY <1>3 DEF SendAndErase
  <2>2. StoredInv' /\ pc' = "crashed"
    BY <1>1, <2>1, CrashKeeps
  <2> QED
    BY <1>1, <1>2, <2>1, <2>2, ReadyFrame
<1>4. CASE ~ NullRate
  <2>1. /\ sent' = Message /\ rec' = None /\ members' = << >> /\ pc' = pc
        /\ vectors' = vectors - Cardinality(DOMAIN Ptrs)
    BY <1>4 DEF SendAndErase
  <2>2. vectors = Cardinality(DOMAIN Ptrs) /\ Cardinality(DOMAIN Ptrs) \in Nat
    BY <1>1, <1>2, FiniteFields, TemplateStatic DEF StoredInv
  <2>3. StoredInv'
    BY <2>1, <2>2 DEF StoredInv, None
  <2>4. Reports(Message)
    BY <1>1, <1>2, <1>4, MessageReports
  <2> QED
    BY <1>1, <1>2, <2>1, <2>3, <2>4, ReadyFrame
<1> QED
  BY <1>3, <1>4

LEMMA StutterStep ==
  ASSUME RecordInv, ReportsMeaning, UNCHANGED vars
  PROVE  RecordInv' /\ ReportsMeaning'
<1>1. UNCHANGED <<pc, options, config, outputTemp, rec, vectors, members, sent, received>>
  BY DEF vars
<1>2. StoredInv'
  BY <1>1, StoredFrame
<1>3. received' \in 0 .. MaxRecords
  BY <1>1 DEF RecordInv
<1> QED
  BY <1>1, <1>2, <1>3, ReadyFrame

LEMMA StepHolds ==
  RecordInv /\ ReportsMeaning /\ [Next]_vars => RecordInv' /\ ReportsMeaning'
<1> SUFFICES ASSUME RecordInv, ReportsMeaning, [Next]_vars
             PROVE  RecordInv' /\ ReportsMeaning'
  OBVIOUS
<1>1. CASE AddMember \/ AddPtrMember
  BY <1>1, OptionStep
<1>2. CASE RegisterFields
  BY <1>2, RegisterStep
<1>3. ASSUME NEW r \in Records, CreateRecord(r) \/ UpdateRecord(r) \/ OpenNewWindow(r)
      PROVE  RecordInv' /\ ReportsMeaning'
  BY <1>3, CreateStep, UpdateStep, OpenStep
<1>4. CASE SendAndErase
  BY <1>4, SendStep
<1>5. CASE UNCHANGED vars
  BY <1>5, StutterStep
<1> QED
  BY <1>1, <1>2, <1>3, <1>4, <1>5 DEF Next

-----------------------------------------------------------------------------
(* The theorems.                                                           *)

LEMMA RecordInvariant ==
  Spec => [](RecordInv /\ ReportsMeaning)
BY InitHolds, StepHolds, PTL DEF Spec

\* The fields of the stored record are those of the output template, the options
\* fit the arrays of Config, and no vector is freed twice (configuration.cpp,
\* aggregator.cpp).
THEOREM TypeCorrect ==
  Spec => []TypeOK
<1>1. RecordInv => TypeOK
  <2> SUFFICES ASSUME RecordInv PROVE TypeOK
    OBVIOUS
  <2>1. ConfigInv /\ StoredInv
    BY DEF RecordInv
  <2>2. \A i \in DOMAIN config : config[i].func \in Functions /\ config[i].target \in DOMAIN Type
    <3>1. DOMAIN config = 1 .. Len(config)
      BY <2>1 DEF ConfigInv, Registered
    <3> QED
      BY <2>1, <3>1, ConfigEntry DEF IsEntry
  <2>3. CASE rec = None
    <3>1. << >> \in Seq(Records)
      OBVIOUS
    <3> QED
      BY <2>1, <2>2, <2>3, <3>1 DEF TypeOK, RecordInv, StoredInv, ConfigInv, Registered
  <2>4. CASE rec # None
    <3>1. outputTemp = Template
      BY <2>4 DEF RecordInv, TemplateInv
    <3>2. vectors \in Nat
      BY <2>1, <2>4, <3>1, FiniteFields, TemplateStatic DEF StoredInv
    <3> QED
      BY <2>1, <2>2, <2>4, <3>2 DEF TypeOK, RecordInv, StoredInv, ConfigInv, Registered
  <2> QED
    BY <2>3, <2>4
<1> QED
  BY <1>1, RecordInvariant, PTL

\* Every reported field is the function its rule asks for, over exactly the records
\* of the aggregate: for all rules, types, widths and sequences of records, windows
\* and timeouts in which COUNT does not wrap (agg_functions.hpp, aggregator.cpp).
THEOREM ReportsMeaningTheorem ==
  Spec => []ReportsMeaning
BY RecordInvariant, PTL

\* The vectors of COUNT_DISTINCT that are allocated are those of the stored record.
THEOREM VectorsOwnedTheorem ==
  Spec => []VectorsOwned
<1>1. RecordInv => VectorsOwned
  BY DEF RecordInv, StoredInv, VectorsOwned
<1> QED
  BY <1>1, RecordInvariant, PTL
=============================================================================
