----------------------------- MODULE MeasuredRows -----------------------------
(***************************************************************************)
(* The sequential benchmarks: encode, latency, distribution, fixed64,      *)
(* representation and the framing paths of the Schema Registry benchmark.  *)
(* Each checks its arguments, opens its CSV and walks a list of paths; a   *)
(* path builds its message and buffers, warms up, and writes a row per     *)
(* repetition of a loop of encodes.  A behaviour is a run of one program.  *)
(*                                                                         *)
(* The encoders succeed: a proto3 message has no required field and every  *)
(* buffer has the size ByteSizeLong gave; only yyjson may find nothing it  *)
(* can write.  A size stands for itself in the corpora and frames;         *)
(* elsewhere a path's number does, so that no two paths of a program       *)
(* encode to the same size.  Elapsed times are left out, but for the       *)
(* latency samples, which are any values.                                  *)
(***************************************************************************)
EXTENDS BenchMessages, FiniteSets

CONSTANTS
    MinIterations, MinRepetitions,  \* parse_args refuses less; 1'000'000 and 10 in the code
    CorpusSize,                     \* 1024 in the code
    Iterations, Repetitions, Warmups, SchemaIds, Samples  \* what is tried of each

\* The largest int of the Schema Registry, 2147483647.
MaxInt == 2 ^ 30 + (2 ^ 30 - 1)

\* The options are unsigned, an id is a positive int, and a clock may stand still.
ASSUME MeasuredAssumption ==
    /\ {MinIterations, MinRepetitions, CorpusSize} \subseteq Nat \ {0}
    /\ Iterations \subseteq Nat /\ Repetitions \subseteq Nat /\ Warmups \subseteq Nat
    /\ SchemaIds \subseteq 1 .. MaxInt
    /\ Samples \subseteq Nat /\ 0 \in Samples

VARIABLES
    program, config,
    pc,           \* "args", "open", "build", "repetition", "loop", or how the process ended
    path,         \* position in Paths(program)
    repetition, iteration,
    checksum, bytes, total,  \* locals of the loop; total is total_bytes of the distributions
    allocations,  \* allocation_count; allocated_bytes grows by the message's size with it
    samples,      \* of the latencies
    quantiles,    \* the percentiles computed of the present row
    buffer,       \* framed or framed_string
    rows          \* the CSV: the columns by which a report tells rows apart

loopVars == <<iteration, checksum, bytes, total, allocations, samples, quantiles, buffer>>
vars == <<program, config, pc, path, repetition, rows, loopVars>>

Programs == {"encode", "latency", "distribution", "fixed64", "representation", "framing"}

-------------------------------------------------------------------------------
(* The paths of each program, in the order of its main *)

\* A loop over ys inside one over xs.
Nested(xs, ys) ==
    [k \in 1 .. Len(xs) * Len(ys) |->
        <<xs[((k - 1) \div Len(ys)) + 1], ys[((k - 1) % Len(ys)) + 1]>>]

Path(case, label) == [case |-> case, label |-> label]

\* run_google_variant, run_protobuf_c and the JSON libraries: library, codegen, api
GooglePaths(codegen) ==
    LET loop == Nested(Cases, <<"SerializeToString", "SerializeToArray_preallocated">>)
    IN [k \in DOMAIN loop |-> Path(loop[k][1], <<"google_protobuf", codegen, loop[k][2]>>)]
ProtobufCPaths ==
    [k \in DOMAIN Cases |-> Path(Cases[k], <<"protobuf_c", "c_generated", "pack_preallocated">>)]
JsonPaths ==
    LET loop == Nested(Cases, <<<<"rapidjson", "n/a", "writer">>, <<"nlohmann_json", "n/a", "dump">>,
                    <<"jsoncpp", "n/a", "writeString">>, <<"boost_json", "n/a", "serialize">>,
                    <<"yyjson", "n/a", "mut_write">>>>)
    IN [k \in DOMAIN loop |-> Path(loop[k][1], loop[k][2])]

\* Mutant: the third loop is a copy of the second one, its label included.
EncodePathsMislabelled ==
    GooglePaths("speed") \o GooglePaths("code_size") \o GooglePaths("code_size")
        \o ProtobufCPaths \o JsonPaths

EncodePaths ==
    GooglePaths("speed") \o GooglePaths("code_size") \o GooglePaths("lite_runtime")
        \o ProtobufCPaths \o JsonPaths

LatencyPaths ==
    LET loop == Nested(Cases, <<"serialize_array_reuse", "serialize_array_fresh_buffer",
                                "serialize_string_reserved", "serialize_array_arena_message">>)
    IN [k \in DOMAIN loop |-> Path(loop[k][1], <<loop[k][2]>>)]

DistributionPaths == [k \in DOMAIN Distributions |-> Path(Distributions[k], <<>>)]

Fixed64Paths ==
    LET loop == Nested(<<"positive_small", "positive_scaled_price", "positive_near_max">>,
                       <<"int64", "fixed64">>)
    IN [k \in DOMAIN loop |-> Path(loop[k][1], <<loop[k][2]>>)]

RepresentationPaths ==
    LET representations == <<"decimal_string", "scaled_sint64_scale_8", "fixed64_scale_8",
                             "bytes_128bit_coefficient_scale_8">>
    IN [k \in 1 .. 4 |-> Path("one_string_ten_decimal", <<representations[k]>>)]

FramingPaths ==
    LET loop == Nested(Cases, <<"cached_id_framed_in_place", "cached_id_framed_with_copy",
                                "cached_serializer_string">>)
    IN [k \in DOMAIN loop |-> Path(loop[k][1], <<loop[k][2]>>)]

Paths == [encode |-> EncodePaths, latency |-> LatencyPaths, distribution |-> DistributionPaths,
          fixed64 |-> Fixed64Paths, representation |-> RepresentationPaths, framing |-> FramingPaths]

Current == Paths[program][path]

EncodeMessage(library, case) ==
    CASE library = "google_protobuf" -> GoogleMessage(case)
      [] library = "protobuf_c" -> ProtobufCMessage(case)
      [] library = "rapidjson" -> RapidJsonMessage(case)
      [] library = "nlohmann_json" -> NlohmannMessage(case)
      [] library = "jsoncpp" -> JsoncppMessage(case)
      [] library = "boost_json" -> BoostJsonMessage(case)

\* The paths of run_yyjson: what they encode is one of YyjsonMessages and no message in particular.
KeysDangle(p, pathOf) == p = "encode" /\ pathOf.label[1] = "yyjson"

\* The message, or for the distributions the name of the corpus, behind the rows of another path.
MessageOf(p, pathOf) ==
    CASE p = "encode" -> EncodeMessage(pathOf.label[1], pathOf.case)
      [] p = "latency" -> LatencyMessage(pathOf.case)
      [] p = "framing" -> FramingMessage(pathOf.case)
      [] p = "fixed64" -> Fixed64Message(pathOf.case, pathOf.label[1])
      [] p = "representation" -> RepresentationMessage(pathOf.label[1])
      [] p = "distribution" -> pathOf.case

-------------------------------------------------------------------------------
(* Frames *)

\* prefix: the magic byte, the schema id big-endian, the message index
Prefix(id) == <<0, (id \div 2 ^ 24) % 256, (id \div 2 ^ 16) % 256, (id \div 2 ^ 8) % 256, id % 256, 0>>

\* It stands for the bytes of the message.
Payload == <<10, 7>>

\* memcpy, or a serialization, to the bytes behind the first `at` ones of the target
CopyTo(target, at, source) ==
    [k \in DOMAIN target |-> IF k - at \in DOMAIN source THEN source[k - at] ELSE target[k]]

\* The buffer before the warm-up: framed is made for the first of its two paths.
BufferAtStart(api) ==
    CASE api = "cached_id_framed_in_place" -> CopyTo(Zeros(6 + Len(Payload)), 0, Prefix(config.id))
      [] api = "cached_id_framed_with_copy" -> buffer
      [] api = "cached_serializer_string" -> <<>>

\* One encode of a framing path.
Framed(api) ==
    IF api = "cached_serializer_string" THEN Prefix(config.id) \o Payload
    ELSE CopyTo(CopyTo(buffer, 0, Prefix(config.id)), 6, Payload)

-------------------------------------------------------------------------------
(* The run *)

Init ==
    /\ program \in Programs
    /\ config \in [iterations : Iterations, repetitions : Repetitions, warmups : Warmups, id : SchemaIds]
    /\ program # "framing" => config.id = Min(SchemaIds)
    /\ pc = "args" /\ path = 1 /\ repetition = 1
    /\ iteration = 0 /\ checksum = 0 /\ bytes = 0 /\ total = 0 /\ allocations = 0
    /\ samples = <<>> /\ quantiles = <<>> /\ buffer = <<>>
    /\ rows = <<>>

Undersized == config.iterations < MinIterations \/ config.repetitions < MinRepetitions

ParseArgs ==
    /\ pc = "args"
    /\ pc' = IF Undersized THEN "failed" ELSE "open"
    /\ UNCHANGED <<program, config, path, repetition, rows, loopVars>>

\* The metadata is written unchecked; a CSV that cannot be opened ends the run, and so does a
\* schema whose registration gives the framing paths no id.
OpenCsv ==
    /\ pc = "open"
    /\ pc' \in {"build", "failed"}
    /\ UNCHANGED <<program, config, path, repetition, rows, loopVars>>

\* operator new of an encode of the latencies: only the fresh buffer needs it.
AllocationsPerEncode == IF Current.label = <<"serialize_array_fresh_buffer">> THEN 1 ELSE 0

\* The message, the buffers and samples of the path, and its warm-up.  Making them allocates too.
BuildAndWarmUp ==
    /\ pc = "build"
    /\ pc' = "repetition"
    /\ IF program = "latency"
       THEN /\ samples' = Zeros(config.iterations)
            /\ allocations' = allocations + 1 + config.warmups * AllocationsPerEncode
       ELSE UNCHANGED <<samples, allocations>>
    /\ buffer' = IF program = "framing" THEN BufferAtStart(Current.label[1]) ELSE buffer
    /\ UNCHANGED <<program, config, path, repetition, rows, iteration, checksum, bytes, total, quantiles>>

\* Mutant: the counter of the allocations keeps what it has.
StartRepetitionCounting ==
    /\ pc = "repetition"
    /\ pc' = "loop"
    /\ iteration' = 0 /\ checksum' = 0 /\ bytes' = 0 /\ total' = 0 /\ quantiles' = <<>>
    /\ UNCHANGED <<program, config, path, repetition, rows, allocations, samples, buffer>>

StartRepetition ==
    /\ pc = "repetition"
    /\ pc' = "loop"
    /\ iteration' = 0 /\ checksum' = 0 /\ bytes' = 0 /\ total' = 0 /\ quantiles' = <<>>
    /\ allocations' = IF program = "latency" THEN 0 ELSE allocations
    /\ UNCHANGED <<program, config, path, repetition, rows, samples, buffer>>

Iterate ==
    /\ pc = "loop" /\ iteration < config.iterations
    /\ iteration' = iteration + 1
    /\ UNCHANGED <<program, config, pc, path, repetition, rows, quantiles>>

\* The loops whose message has one size, whatever buffer it goes to.
EncodeSize(size) ==
    /\ Iterate
    /\ bytes' = size /\ checksum' = checksum + size
    /\ UNCHANGED <<total, allocations, samples>>

\* What an encode of yyjson returns: 0 if nothing was written, the size of the message, or with
\* other keys the same by chance or another.
YyjsonSizes(message) ==
    CASE message = NoMessage -> {0}
      [] message = GoogleMessage(Current.case) -> {path}
      [] OTHER -> {path, path + Len(EncodePaths)}

EncodeSizes ==
    IF KeysDangle(program, Current)
    THEN UNION {YyjsonSizes(message) : message \in YyjsonMessages(Current.case)}
    ELSE {path}

\* run_measure of encode; no encode of yyjson need read the same keys as the one before.
EncodeMeasured ==
    /\ program = "encode"
    /\ \E size \in EncodeSizes : EncodeSize(size)
    /\ UNCHANGED buffer

\* run_measure of representation, run_message of fixed64
EncodeRepresentation == program = "representation" /\ EncodeSize(path) /\ UNCHANGED buffer
EncodeFixed64 == program = "fixed64" /\ EncodeSize(path) /\ UNCHANGED buffer

\* run_measure of the framing paths
EncodeFramed ==
    /\ program = "framing"
    /\ buffer' = Framed(Current.label[1])
    /\ EncodeSize(Len(buffer'))

\* run_path
EncodeLatency ==
    /\ program = "latency"
    /\ Iterate
    /\ \E sample \in Samples : samples' = [samples EXCEPT ![iteration + 1] = sample]
    /\ allocations' = allocations + AllocationsPerEncode
    /\ bytes' = path /\ checksum' = checksum + path
    /\ UNCHANGED <<total, buffer>>

\* run_distribution; its checksum adds the first byte, the tag of the symbol.
EncodeDistribution ==
    /\ program = "distribution"
    /\ Iterate
    /\ bytes' = CorpusBytes(Current.case, iteration % CorpusSize)
    /\ total' = total + bytes'
    /\ checksum' = checksum + 10
    /\ UNCHANGED <<allocations, samples, buffer>>

\* The percentiles of a row, in ten-thousandths, in the order of their computation.
Fractions == <<5000, 9000, 9900, 9990, 9999>>

PercentileIndex(fraction) ==
    Min({Len(samples) - 1, (Len(samples) * fraction) \div 10000})

\* nth_element permutes the samples, so that as many as before are in any set of values, in any
\* way that puts the n-th (from 0) in place, nothing greater before it and nothing smaller behind.
NthElement(reordered, n) ==
    /\ \A values \in SUBSET Samples : Cardinality({k \in DOMAIN samples : samples[k] \in values})
                                   = Cardinality({k \in DOMAIN reordered : reordered[k] \in values})
    /\ \A k \in 1 .. n : reordered[k] =< reordered[n + 1]
    /\ \A k \in n + 1 .. Len(reordered) : reordered[k] >= reordered[n + 1]

\* percentile works on the samples themselves: the next one finds them reordered.
Percentile ==
    /\ program = "latency" /\ pc = "loop" /\ iteration = config.iterations
    /\ Len(quantiles) < Len(Fractions)
    /\ LET n == PercentileIndex(Fractions[Len(quantiles) + 1]) IN
        \E reordered \in [DOMAIN samples -> Samples] :
            /\ NthElement(reordered, n)
            /\ samples' = reordered
            /\ quantiles' = Append(quantiles, reordered[n + 1])
    /\ UNCHANGED <<program, config, pc, path, repetition, rows, iteration, checksum, bytes, total,
                   allocations, buffer>>

RowReady ==
    /\ pc = "loop" /\ iteration = config.iterations
    /\ program = "latency" => Len(quantiles) = Len(Fractions)

\* Mutant: a repetition too many.
LastRepetitionLate == repetition > config.repetitions

LastRepetition == repetition = config.repetitions

WriteRow ==
    /\ RowReady
    /\ rows' = Append(rows, <<Current, repetition>>)
    /\ IF ~LastRepetition
       THEN pc' = "repetition" /\ repetition' = repetition + 1 /\ UNCHANGED path
       ELSE /\ repetition' = 1
            /\ IF path < Len(Paths[program]) THEN pc' = "build" /\ path' = path + 1
                                             ELSE pc' = "done" /\ UNCHANGED path
    /\ UNCHANGED <<program, config, loopVars>>

Ended == pc \in {"done", "failed"} /\ UNCHANGED vars

Next ==
    \/ ParseArgs \/ OpenCsv \/ BuildAndWarmUp \/ StartRepetition
    \/ EncodeMeasured \/ EncodeRepresentation \/ EncodeFixed64 \/ EncodeFramed
    \/ EncodeLatency \/ EncodeDistribution
    \/ Percentile \/ WriteRow \/ Ended

Spec == Init /\ [][Next]_vars

-------------------------------------------------------------------------------
(* Properties *)

TypeOK ==
    /\ program \in Programs
    /\ config \in [iterations : Iterations, repetitions : Repetitions, warmups : Warmups, id : SchemaIds]
    /\ pc \in {"args", "open", "build", "repetition", "loop", "done", "failed"}
    /\ path \in DOMAIN Paths[program] /\ (repetition = 1 \/ repetition \in 1 .. config.repetitions)
    /\ iteration \in 0 .. config.iterations
    /\ {checksum, bytes, total, allocations} \subseteq Nat
    /\ samples \in Seq(Samples) /\ quantiles \in Seq(Samples) /\ buffer \in Seq(0 .. 255)
    /\ rows \in Seq({Paths[program][k] : k \in DOMAIN Paths[program]} \X (1 .. config.repetitions))

\* A run that ends well has written each repetition of each of its paths once, under columns
\* that no other path of the program has: the reports group the rows by them.
RowsIdentified ==
    pc = "done" => \A k \in DOMAIN Paths[program], r \in 1 .. config.repetitions :
        /\ config.repetitions >= MinRepetitions /\ config.iterations >= MinIterations
        /\ Cardinality({n \in DOMAIN rows : rows[n] = <<Paths[program][k], r>>}) = 1

\* The samples are split at the percentile: more than the fraction is at most it, and at most
\* the fraction is below it.
IsPercentile(value, fraction) ==
    /\ 10000 * Cardinality({k \in DOMAIN samples : samples[k] =< value}) > fraction * Len(samples)
    /\ 10000 * Cardinality({k \in DOMAIN samples : samples[k] < value}) =< fraction * Len(samples)

\* The mean of the row against that of the corpus: a corpus that the iterations leave unfinished
\* moves it by no more than a quarter of the corpus times the spread of its sizes.
IsMeanOfCorpus ==
    LET size == [index \in 0 .. CorpusSize - 1 |-> CorpusBytes(Current.case, index)]
        sizes == {size[index] : index \in DOMAIN size}
        distance == CorpusSize * total
                    - config.iterations * SumFunction(size)
        bound == CorpusSize * CorpusSize * (Max(sizes) - Min(sizes))
    IN 4 * distance =< bound /\ -4 * distance =< bound

\* A row tells of its own repetition and of nothing before it: the checksum is that of its
\* encodes (but for yyjson, whose encodes differ), the allocations are those of its encodes without warm-up, set-up and the rows before,
\* each percentile is one of the samples however the earlier ones reordered them, and the mean
\* size is that of the corpus.
RowsMeasureTheirLoop ==
    RowReady =>
        /\ program # "distribution" /\ ~KeysDangle(program, Current) => checksum = config.iterations * bytes
        /\ program = "latency" =>
            /\ allocations = config.iterations * AllocationsPerEncode
            /\ \A k \in DOMAIN Fractions : IsPercentile(quantiles[k], Fractions[k])
        /\ program = "distribution" => IsMeanOfCorpus

\* The messages every program that has the case builds for it, yyjson's left out.
Built(case) ==
    LET determined(p) == {k \in DOMAIN Paths[p] : Paths[p][k].case = case /\ ~KeysDangle(p, Paths[p][k])}
    IN
    UNION {{MessageOf(p, Paths[p][k]) : k \in determined(p)} : p \in Programs}
    \cup (IF case \in {Int64, Decimals, Wide} THEN {AsyncMessage(case)} ELSE {})
    \cup (IF case = Int64 THEN {ThreadMessage, KafkaMessage} ELSE {})

\* The log line of the pipeline has the fields of the message in order, and fits its array.
LogsTheMessage(case) ==
    LET log == AsyncLog(case)
        texts == IF case = Wide THEN 10 ELSE 1
        field(n) == IF case = Wide /\ n =< 10 THEN <<"symbol", n>>
                    ELSE IF n = 1 THEN <<"symbol", 0>>
                    ELSE <<IF case = Int64 THEN "value" ELSE "decimal", n - texts>>
    IN /\ Len(log) = Cardinality(DOMAIN AsyncMessage(case))
       /\ \A n \in DOMAIN log : log[n] = AsyncMessage(case)[field(n)]
       /\ LogBytes(case) =< LogCapacity

\* Bytes 2 to 5 of a frame, read big-endian.
FrameId == FoldLeft(LAMBDA id, byte : id * 256 + byte, 0, SubSeq(buffer, 2, 5))

\* A framing path leaves a frame from which a consumer reads the schema's id and the message.
FramesTheMessage ==
    program = "framing" /\ pc = "loop" /\ iteration > 0 =>
        /\ Len(buffer) = 6 + Len(Payload) /\ buffer[1] = 0 /\ buffer[6] = 0
        /\ FrameId = config.id /\ SubSeq(buffer, 7, Len(buffer)) = Payload

\* Rows of one test case encode one message, whichever library but yyjson, setters, event or
\* representation it went through, and the log line of the pipeline says the same; a framing path leaves a frame
\* from which a consumer reads the schema's id and that message.
EncodesTheMessage ==
    /\ pc = "repetition" /\ repetition = 1 =>
        /\ ~KeysDangle(program, Current) =>
            \A message \in Built(Current.case) : message = MessageOf(program, Current)
        /\ Current.case \in ToSet(Cases) => LogsTheMessage(Current.case)
    /\ FramesTheMessage

\* "RapidJSON, nlohmann/json, JsonCpp, Boost.JSON, and yyjson" encode the same "Three payloads":
\* every encode behind a row of yyjson gave the size of the message of its test case.
YyjsonEncodesTheMessage ==
    RowReady /\ KeysDangle(program, Current) => bytes = path /\ checksum = config.iterations * path
===============================================================================
