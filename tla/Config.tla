------------------------------- MODULE Config -------------------------------
(***************************************************************************)
(* Reading config.txt (jconf.cpp) and the command line (cli-miner.cpp).    *)
(* A file is what rapidjson makes of it: a value for each key, and for     *)
(* each key of each member of gpu_threads_conf.  Numbers matter, strings   *)
(* do not.                                                                 *)
(***************************************************************************)
EXTENDS Integers, Sequences

CONSTANTS Huge,     \* what a negative number or a fraction is when read as 64 bits
          MaxPort   \* 0xFFFF

\* oConfigValues.
Numbers == {"gpu_thread_num", "platform_index", "call_timeout", "retry_time", "giveup_limit",
            "verbose_level", "h_print_time", "httpd_port", "main_loop_unroll_factor"}
Bools   == {"use_tls", "tls_secure_algo", "daemon_mode", "prefer_ipv4", "test_shuffle",
            "test_int_math"}
Strings == {"tls_fingerprint", "pool_address", "wallet_address", "pool_password", "output_file"}
Arrays  == {"gpu_threads_conf"}
Keys == Numbers \union Bools \union Strings \union Arrays
ThreadKeys == {"index", "intensity", "worksize", "strided_index", "mem_chunk", "affine_to_cpu"}

Missing == [type |-> "missing", n |-> 0]
IsUint64(v) == v.type = "uint"
IsBool(v) == v.type \in {"true", "false"}

CheckType(key, v) ==
  \/ key \in Numbers /\ v.type \in {"uint", "negative", "fraction"}
  \/ key \in Bools /\ IsBool(v)
  \/ key \in Strings /\ v.type = "string"
  \/ key \in Arrays /\ v.type = "array"

\* GetUint64 does not look at the type in a release build; the bits of a string are anything.
GetUint64(v) == IF IsUint64(v) THEN {v.n}
                ELSE IF IsBool(v) THEN {0}
                ELSE IF v.type = "string" THEN {0, Huge} ELSE {Huge}

-----------------------------------------------------------------------------
(***************************************************************************)
(* The closing brace is written over the last byte of the file.  If that   *)
(* is no newline, it is the last of a value.  A number may do without, and *)
(* one that is negative or a fraction stays so (-12 becomes -1).           *)
(***************************************************************************)
CutShort(file) ==
  LET v == file.values[file.last]
  IN  [file EXCEPT !.values[file.last] =
         IF IsUint64(v) /\ v.n >= 10 THEN [v EXCEPT !.n = v.n \div 10]
         ELSE IF v.type \in {"negative", "fraction"} /\ file.spare THEN v ELSE Missing]

Document(file) == IF file.newline THEN file ELSE CutShort(file)

\* Whether GetThreadConfig returns true, and with what; the last two are not looked for.
GetsThreadConfig(c) ==
  /\ \A key \in {"index", "intensity", "worksize"} : IsUint64(c[key])
  /\ IsUint64(c["affine_to_cpu"]) \/ IsBool(c["affine_to_cpu"])

NullIsRead(c) == c["strided_index"] = Missing \/ c["mem_chunk"] = Missing

ThreadConfigs(c) ==
  {[index |-> c["index"].n, intensity |-> c["intensity"].n, w_size |-> c["worksize"].n,
    stridedIndex |-> s, memChunk |-> m] :
     s \in GetUint64(c["strided_index"]), m \in GetUint64(c["mem_chunk"])}

\* A thread that was refused ends the loop before it comes to a later one.
Crashes(threads) ==
  \E i \in DOMAIN threads : /\ \A j \in 1 .. i : GetsThreadConfig(threads[j])
                            /\ NullIsRead(threads[i])

\* parse_config, before it comes to the threads and after.
LooksRight(file) ==
  /\ file.sse2 /\ file.readable /\ file.size = "right"
  /\ \A key \in Keys : CheckType(key, Document(file).values[key])
  /\ GetUint64(Document(file).values["gpu_thread_num"]) = {Len(file.threads)}

IsRight(file) ==
  LET values == Document(file).values
  IN  /\ \A i \in DOMAIN file.threads : GetsThreadConfig(file.threads[i])
      /\ \A key \in {"call_timeout", "retry_time", "giveup_limit", "verbose_level", "h_print_time",
                     "httpd_port"} : IsUint64(values[key])
      /\ values["httpd_port"].n <= MaxPort

ParseConfig(file) ==
  IF ~LooksRight(file) THEN "refused"
  ELSE IF Crashes(file.threads) THEN "crashed"
  ELSE IF IsRight(file) THEN "parsed" ELSE "refused"

-----------------------------------------------------------------------------
\* An override: -1 or less is none.
Overridden(value, override) == IF override >= 0 THEN override ELSE value

\* main takes overrides for at most two threads, all of them or none.
NumOverridden(threads) == IF Len(threads) < 2 THEN Len(threads) ELSE 2
TakesOverrides(threads, argv) == Len(argv) >= NumOverridden(threads) * 2 + 3

Override(threads, argv, place) == IF TakesOverrides(threads, argv) THEN argv[place] ELSE -1

\* Mutant of ThreadOverride: it is not looked how many threads take one.
ThreadOverrideOfAny(threads, argv, i, offset) == Override(threads, argv, 2 * (i - 1) + offset)

ThreadOverride(threads, argv, i, offset) ==
  IF i <= NumOverridden(threads) THEN Override(threads, argv, 2 * (i - 1) + offset) ELSE -1

OptionOverride(threads, argv, offset) ==
  Override(threads, argv, 2 * NumOverridden(threads) + offset)

\* Mutant of GetUnrollFactor: a number between two powers stays.
GetUnrollFactorAsIs(n) == IF n < 1 THEN 1 ELSE IF n > 64 THEN 64 ELSE n

GetUnrollFactor(n) ==
  LET bounded   == IF n < 1 THEN 1 ELSE IF n > 64 THEN 64 ELSE n
      Shift(r)  == IF r < bounded THEN 2 * r ELSE r
      Shift3(r) == Shift(Shift(Shift(r)))
  IN  Shift3(Shift3(1))   \* six rounds take it to 64

Flag(value, override) == IF override >= 0 THEN override # 0 ELSE value.type = "true"
=============================================================================
