------------------------------- MODULE CliOpt -------------------------------
(***************************************************************************)
(* The option store (src/main/cliopt.c) and how main fills it (src/main/   *)
(* main.c).  The store is one static record, master, written by main       *)
(* before sp_open starts any other thread and only read afterwards, so a   *)
(* run of the program sees the record main leaves.  An argtable integer    *)
(* option (arg_int0) is the set of values given: {} when absent (count 0), *)
(* {v} when given (ival[0] = v).  mempool_size is the constant             *)
(* OTTERCAT_PARAM_MMAP_PAGESIZE, kept symbolic.                            *)
(***************************************************************************)
EXTENDS Integers

\* cliopt.h 32-51: FORMAT_Type and the fields of cliopt_t.
Formats == {"FORMAT_Default", "FORMAT_Json", "FORMAT_JsonHex", "FORMAT_Bintex",
            "FORMAT_Hex"}

CliOptT == [verbose_on : BOOLEAN, debug_on : BOOLEAN, format : Formats,
            mempool_size : {"MMAP_PAGESIZE"}, timeout_ms : Int, tries : Int]

\* cliopt.c 23-32: cliopt_init points master at main's struct and sets
\* the defaults.
CliInit ==
    [verbose_on |-> FALSE, debug_on |-> FALSE, format |-> "FORMAT_JsonHex",
     mempool_size |-> "MMAP_PAGESIZE", timeout_ms |-> 500, tries |-> 1]

\* cliopt.c 42-75: each setter overwrites one field of master.
CliSet(master, field, val) == [master EXCEPT ![field] = val]

\* main.c 278-281 and 330-345: the derived values.  -t would replace the
\* 500 ms default and -r n give 1 + n tries, neither checked; but argtable[]
\* (main.c 273) omits both options, so their count is always 0 and only the
\* defaults are reachable.
IVal(opt) == CHOOSE v \in opt : TRUE

TimeoutVal(timeout) == IF timeout = {} THEN 500 ELSE IVal(timeout)

TriesVal(retries) == IF retries = {} THEN 1 ELSE 1 + IVal(retries)

\* main.c 386-391: cliopt_init, then one setter per derived value.
MainOptions(verbose, debug, timeout, retries) ==
    LET m0 == CliInit
        m1 == CliSet(m0, "verbose_on", verbose)
        m2 == CliSet(m1, "debug_on", debug)
        m3 == CliSet(m2, "timeout_ms", TimeoutVal(timeout))
    IN  CliSet(m3, "tries", TriesVal(retries))
=============================================================================
