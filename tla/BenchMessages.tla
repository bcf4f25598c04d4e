---------------------------- MODULE BenchMessages ----------------------------
(***************************************************************************)
(* What the benchmarks encode.  A row of a report names its message by a   *)
(* test case, and each program builds that message by code of its own: by  *)
(* generated setters, by loops over numbered JSON keys, through arrays of  *)
(* C strings, or out of a fixed-size event.  Here a message is a function  *)
(* from fields <<name, number>> to values.                                 *)
(*                                                                         *)
(* A text keeps its literal head, its zeros, the number to_string wrote    *)
(* behind them, and how many of its characters are there.  A number that   *)
(* needs 64 bits is the sequence of its decimal digits; TLC's integers     *)
(* have 32.                                                                *)
(***************************************************************************)
EXTENDS Integers, Sequences, FiniteSetsExt, SequencesExt

Int64 == "one_string_ten_int64"
Decimals == "one_string_ten_decimal_strings"
Wide == "ten_strings_fifty_decimal_strings"
Cases == <<Int64, Decimals, Wide>>

-------------------------------------------------------------------------------
(* Numbers *)

ToDigits(n) ==
    LET width == Max({1} \cup {w \in 2 .. 10 : n >= 10 ^ (w - 1)})
    IN [k \in 1 .. width |-> (n \div 10 ^ (width - k)) % 10]

Zeros(n) == [k \in 1 .. n |-> 0]

\* The digits of digits * factor + n.
TimesPlus(digits, factor, n) ==
    LET column(d, acc) == [carry |-> (d * factor + acc.carry) \div 10,
                           done |-> <<(d * factor + acc.carry) % 10>> \o acc.done]
        sum == FoldRight(column, digits, [carry |-> n, done |-> <<>>])
    IN IF sum.carry = 0 THEN sum.done ELSE ToDigits(sum.carry) \o sum.done

WithoutLeadingZeros(digits) ==
    SubSeq(digits, Min({k \in DOMAIN digits : digits[k] # 0 \/ k = Len(digits)}), Len(digits))

\* quotient and remainder of digits by 2^8
By256(digits) ==
    LET column(acc, d) == [quotient |-> Append(acc.quotient, (acc.rest * 10 + d) \div 256),
                           rest |-> (acc.rest * 10 + d) % 256]
    IN FoldLeft(column, [quotient |-> <<>>, rest |-> 0], digits)

AtMost(a, b) ==
    \/ Len(a) < Len(b)
    \/ Len(a) = Len(b) /\ (a = b \/ \E k \in DOMAIN a :
                              a[k] < b[k] /\ SubSeq(a, 1, k - 1) = SubSeq(b, 1, k - 1))

\* numeric_limits<int64_t>::max()
MaxInt64 == <<9,2,2,3,3,7,2,0,3,6,8,5,4,7,7,5,8,0,7>>

\* static_cast<int64_t>: beyond the largest one the value is another, negative number.
AsInt64(digits) == IF AtMost(digits, MaxInt64) THEN digits ELSE <<-1>> \o digits

-------------------------------------------------------------------------------
(* The three common test cases *)

Length(text) == Len(text.head) + text.zeros + Len(text.number)
Text(head, zeros, number) ==
    [head |-> head, zeros |-> zeros, number |-> number, kept |-> Len(head) + zeros + Len(number)]

BtcUsd == Text("BTC-USD", 0, <<>>)
Symbol(index) == Text("SYMBOL_", 0, ToDigits(index + 1))
Decimal(index) == Text("12345.", 8 + (index % 7), ToDigits(index + 17))

\* A message of the case: its k-th integer, decimal and symbol.
Filled(case, value(_), decimal(_), symbol(_)) ==
    CASE case = Int64 ->
            [f \in {<<"symbol", 0>>} \cup {"value"} \X (1 .. 10) |->
                IF f[1] = "symbol" THEN BtcUsd ELSE value(f[2])]
      [] case = Decimals ->
            [f \in {<<"symbol", 0>>} \cup {"decimal"} \X (1 .. 10) |->
                IF f[1] = "symbol" THEN BtcUsd ELSE decimal(f[2])]
      [] case = Wide ->
            [f \in {"symbol"} \X (1 .. 10) \cup {"decimal"} \X (1 .. 50) |->
                IF f[1] = "symbol" THEN symbol(f[2]) ELSE decimal(f[2])]

\* SET_..._FIELDS of the encode benchmark, of its speed, code_size and lite_runtime messages
GoogleMessage(case) ==
    Filled(case, LAMBDA k : 1000000 + k, LAMBDA k : Decimal(k - 1), LAMBDA k : Symbol(k - 1))

\* make_nlohmann, make_jsoncpp and make_boost_json, each with loops of its own over the numbered
\* keys; the objects copy the keys
NlohmannMessage(case) ==
    Filled(case, LAMBDA i : 1000000 + i, LAMBDA i : Decimal(i - 1), LAMBDA i : Symbol(i - 1))
JsoncppMessage(case) ==
    Filled(case, LAMBDA i : 1000000 + i, LAMBDA i : Decimal(i - 1), LAMBDA i : Symbol(i - 1))
BoostJsonMessage(case) ==
    Filled(case, LAMBDA i : 1000000 + i, LAMBDA i : Decimal(i - 1), LAMBDA i : Symbol(i - 1))

\* rapidjson_write_wide and the writer's lambda
RapidJsonMessage(case) ==
    Filled(case, LAMBDA i : 1000000 + i, LAMBDA i : Decimal(i - 1), LAMBDA i : Symbol(i - 1))

\* make_yyjson: add_strcpy and add_sint copy the value and keep a pointer to the key, which here
\* belongs to a std::string that dies with the call.  mut_write reads whatever is there by then:
\* the keys of each kind as they were or something else, and it writes nothing if that is no UTF-8.
NoMessage == [f \in {} |-> 0]
YyjsonMessages(case) ==
    LET object == Filled(case, LAMBDA i : 1000000 + i, LAMBDA i : Decimal(i - 1), LAMBDA i : Symbol(i - 1))
        keys(read) == {IF f[1] \in read THEN f ELSE <<"undetermined", f>> : f \in DOMAIN object}
        field(key) == IF key[1] = "undetermined" THEN key[2] ELSE key
    IN {NoMessage} \cup {[key \in keys(read) |-> object[field(key)]] :
                            read \in SUBSET {f[1] : f \in DOMAIN object}}

\* Mutant: the table of the fields starts at the second one.
ProtobufCMessageShifted(case) ==
    LET symbols == [i \in 0 .. 9 |-> Symbol(i)]
        decimals == [i \in 0 .. 50 |-> Decimal(i)]
    IN Filled(case, LAMBDA k : 1000000 + k, LAMBDA k : decimals[k], LAMBDA k : symbols[k - 1])

\* run_protobuf_c: pointers into two arrays of strings
ProtobufCMessage(case) ==
    LET symbols == [i \in 0 .. 9 |-> Symbol(i)]
        decimals == [i \in 0 .. 49 |-> Decimal(i)]
    IN Filled(case, LAMBDA k : 1000000 + k, LAMBDA k : decimals[k - 1], LAMBDA k : symbols[k - 1])

\* make_int64, make_decimal and make_wide of the latency benchmark: case i sets field i + 1
LatencyMessage(case) ==
    LET number(k) == CHOOSE i \in 0 .. 49 : i + 1 = k
    IN Filled(case, LAMBDA k : 1000000 + k, LAMBDA k : Decimal(number(k)), LAMBDA k : Symbol(number(k)))

\* SET_..._FIELDS of the Schema Registry benchmark
FramingMessage(case) ==
    Filled(case, LAMBDA k : 1000000 + k, LAMBDA k : Decimal(k - 1), LAMBDA k : Symbol(k - 1))

\* make_message of the concurrency and of the Kafka producer benchmark
ThreadMessage == Filled(Int64, LAMBDA k : 1000000 + k, Decimal, Symbol)
KafkaMessage == Filled(Int64, LAMBDA k : 1000000 + k, Decimal, Symbol)

\* The events of the asynchronous pipeline keep texts in char arrays, cut to fit with a zero.
TextCapacity == 32
CopyText(text) == [text EXCEPT !.kept = Min({Length(text), TextCapacity - 1})]

EventValues == [i \in 0 .. 9 |-> 1000001 + i]
EventDecimals == [i \in 0 .. 9 |-> CopyText(Decimal(i))]
EventFields == [i \in 0 .. 59 |-> IF i < 10 THEN CopyText(Symbol(i)) ELSE CopyText(Decimal(i - 10))]

\* Traits::populate of the three events
IntMessage == Filled(Int64, LAMBDA k : EventValues[k - 1], Decimal, Symbol)
DecimalMessage == Filled(Decimals, ToDigits, LAMBDA k : EventDecimals[k - 1], Symbol)
WideMessage == Filled(Wide, ToDigits, LAMBDA k : EventFields[9 + k], LAMBDA k : EventFields[k - 1])

AsyncMessage(case) ==
    CASE case = Int64 -> IntMessage [] case = Decimals -> DecimalMessage [] case = Wide -> WideMessage

\* Traits::format: the texts and numbers of the log line, which unchecked writes put into an array
\* with a bar between two and a newline at the end.
LogCapacity == 4096
IntLog == <<BtcUsd>> \o [n \in 1 .. 10 |-> EventValues[n - 1]]
DecimalLog == <<BtcUsd>> \o [n \in 1 .. 10 |-> EventDecimals[n - 1]]
WideLog == [n \in 1 .. 60 |-> EventFields[n - 1]]

AsyncLog(case) ==
    CASE case = Int64 -> IntLog [] case = Decimals -> DecimalLog [] case = Wide -> WideLog

LogBytes(case) ==
    LET log == AsyncLog(case)
        bytes(n) == IF case = Int64 /\ n > 1 THEN Len(ToDigits(log[n])) ELSE log[n].kept
    IN FoldLeft(LAMBDA sum, n : sum + bytes(n) + 1, 0, [n \in DOMAIN log |-> n])

-------------------------------------------------------------------------------
(* One number in two or four representations *)

\* value_for of the fixed64 benchmark, and the two messages it goes into
ValueFor(case, index) ==
    CASE case = "positive_small" -> TimesPlus(<<1,0,0,0,0,0,1>>, 1, index)
      [] case = "positive_scaled_price" -> TimesPlus(<<1,2,3,4,5>> \o Zeros(8), 1, index)
      [] case = "positive_near_max" -> TimesPlus(<<9>> \o Zeros(18), 1, index)

Fixed64Message(case, representation) ==
    [k \in 1 .. 10 |-> IF representation = "int64" THEN AsInt64(ValueFor(case, k - 1))
                                                    ELSE ValueFor(case, k - 1)]

\* decimal_text, as the number it denotes
DecimalText(index) ==
    LET fraction == Zeros(6) \o ToDigits(index + 17)
    IN [coefficient |-> <<1,2,3,4,5>> \o fraction, scale |-> Len(fraction)]

ScaledValue(index) == TimesPlus(<<1,2,3,4,5>> \o Zeros(8), 1, index + 17)

\* decimal128_bytes: the eight bytes of the value, least significant first, and eight zeros
Decimal128Bytes(index) ==
    LET shifted[byte \in 0 .. 7] ==
            IF byte = 0 THEN ScaledValue(index) ELSE By256(shifted[byte - 1]).quotient
    IN [b \in 1 .. 16 |-> IF b =< 8 THEN By256(shifted[b - 1]).rest ELSE 0]

\* A reader of a little-endian coefficient.
Coefficient(bytes) ==
    WithoutLeadingZeros(FoldRight(LAMBDA b, digits : TimesPlus(digits, 256, b), bytes, <<0>>))

\* The numbers the fields of a representation denote; every one but the text has the scale 8.
RepresentationMessage(representation) ==
    [k \in 1 .. 10 |->
        CASE representation = "decimal_string" -> DecimalText(k - 1)
          [] representation = "scaled_sint64_scale_8" ->
                [coefficient |-> AsInt64(ScaledValue(k - 1)), scale |-> 8]
          [] representation = "fixed64_scale_8" -> [coefficient |-> ScaledValue(k - 1), scale |-> 8]
          [] representation = "bytes_128bit_coefficient_scale_8" ->
                [coefficient |-> Coefficient(Decimal128Bytes(k - 1)), scale |-> 8]]

-------------------------------------------------------------------------------
(* The corpora of the distribution benchmark, as far as their sizes tell them apart *)

Distributions == <<"int64_small_varints", "int64_large_varints", "int64_negative_standard_varint",
    "int64_mixed_distribution", "string_short_ascii", "string_long_ascii_256", "string_multibyte_utf8">>

\* field, 1'000'000 + field, max() - field or -field
IntegerKind(distribution, index, field) ==
    CASE distribution = "int64_small_varints" -> "small"
      [] distribution = "int64_large_varints" -> "large"
      [] distribution = "int64_negative_standard_varint" -> "negative"
      [] distribution = "int64_mixed_distribution" ->
            <<"negative", "small", "million", "large">>[((index + field) % 4) + 1]
      [] OTHER -> "million"

SymbolBytes(distribution, index) ==
    CASE distribution = "string_long_ascii_256" -> 256
      [] distribution = "string_multibyte_utf8" -> 23 + Len(ToDigits(index))
      [] OTHER -> 7

\* ByteSizeLong: a tag and a varint for each integer, a tag, a length and the bytes for the text.
Varint == [small |-> 1, million |-> 3, large |-> 9, negative |-> 10]
CorpusBytes(distribution, index) ==
    LET symbol == SymbolBytes(distribution, index)
        fields == [field \in 1 .. 10 |-> 1 + Varint[IntegerKind(distribution, index, field)]]
    IN 1 + (IF symbol < 128 THEN 1 ELSE 2) + symbol + SumFunction(fields)
===============================================================================
