------------------------------- MODULE PluginLog -------------------------------
(***************************************************************************)
(* The log file of one plugin's ledger (plasmosome-ledger/src/lib.rs):      *)
(* append_to_file writes one line for every effect of a ledger, open_file   *)
(* reads a ledger back.  A write may come up short when the disk is full or *)
(* the process dies, and nothing keeps a second writer away.  flush syncs   *)
(* nothing, so no promise spans a power loss and none is modelled.          *)
(*                                                                          *)
(* The file is a sequence of lines.  A line is the records or parts of      *)
(* records that stand on it, and whether its LF is there.  An effect that   *)
(* cannot be encoded fails the call before it touches the file.             *)
(***************************************************************************)
EXTENDS Naturals, Sequences, SequencesExt

CONSTANTS
    LogPlugins,
    LogWriters,     \* calls of append_to_file that may run at once
    MaxPushed,      \* bound: effects of one ledger
    MaxAppends      \* bound: calls of append_to_file

ASSUME PluginLogAssumption ==
    /\ LogPlugins # {}
    /\ MaxPushed \in Nat
    /\ MaxAppends \in Nat

VARIABLES
    log,        \* the file's lines; a missing file is an empty one
    appender,   \* each call: its step and its ledger
    appends,    \* bound
    put,        \* ghost: the records that were written to their last brace
    raced       \* ghost: two calls ran at once

logVars == <<log, appender, appends, put, raced>>

FORMAT == 3

Record(plugin, effect, format) ==
    [plugin |-> plugin, effect |-> effect, format |-> format, whole |-> TRUE]

Line(record) == [text |-> <<record>>, lf |-> TRUE]

Older == Line(Record(CHOOSE p \in LogPlugins : TRUE, 1, FORMAT - 1))

Idle == [step |-> "idle", plugin |-> "none", records |-> <<>>]

Unwritten(lines) ==
    /\ log = lines
    /\ appender = [w \in LogWriters |-> Idle]
    /\ appends = 0 /\ put = <<>> /\ raced = FALSE

PluginLogInit == Unwritten(<<>>) \/ Unwritten(<<Older>>)

----------------------------------------------------------------------------
(* Reading                                                                  *)

(* Two objects on a line are trailing characters; a part of one with        *)
(* another behind it is a syntax error, or ends inside a value.             *)
decode_record(line) ==
    LET first == line.text[1] IN
    CASE Len(line.text) = 1 /\ first.whole /\ first.format = FORMAT -> "Ok"
      [] Len(line.text) = 1 /\ ~first.whole -> "eof"
      [] Len(line.text) > 1 /\ ~first.whole -> "eof or syntax"
      [] OTHER -> "invalid"

(* Mutant: lines of two plugins are read as one ledger.                     *)
OfOnePlugin_Any(lines) == \A i \in DOMAIN lines : decode_record(lines[i]) = "Ok"

OfOnePlugin(lines) ==
    \A i \in DOMAIN lines :
        decode_record(lines[i]) = "Ok" /\ lines[i].text[1].plugin = lines[1].text[1].plugin

Invalid == [ok |-> FALSE, records |-> <<>>]

ReadAs(lines) ==
    IF OfOnePlugin(lines) THEN [ok |-> TRUE, records |-> [i \in DOMAIN lines |-> lines[i].text[1]]] ELSE Invalid

(* Mutant: a last line without its LF is torn, whatever it holds.           *)
MayBreak_NoNewline(line) == ~line.lf

MayBreak(line) == ~line.lf /\ decode_record(line) \in {"eof", "eof or syntax"}

(* Mutant: a torn last record is an error like any other.                   *)
MustBreak_Never(line) == FALSE

MustBreak(line) == MayBreak(line) /\ decode_record(line) # "eof or syntax"

(* Every result the read can have.                                          *)
read_plugin_log(lines) ==
    IF lines = <<>> THEN {ReadAs(lines)}
    ELSE (IF MayBreak(Last(lines)) THEN {ReadAs(Front(lines))} ELSE {})
         \cup (IF MustBreak(Last(lines)) THEN {} ELSE {ReadAs(lines)})

(* A log without a record is refused, as a missing one is.                  *)
Ledger_open_file ==
    {IF read.records = <<>> THEN Invalid ELSE read : read \in read_plugin_log(log)}

----------------------------------------------------------------------------
(* Appending                                                                *)

AppendAt(w, step) == appender[w].step = step

encode(plugin, n) == [i \in 1 .. n |-> Record(plugin, i, FORMAT)]

(* The file is made when it is missing; it is read in a step of its own.    *)
append_to_file(w) ==
    /\ AppendAt(w, "idle")
    /\ appends < MaxAppends
    /\ \E plugin \in LogPlugins, n \in 0 .. MaxPushed :
        appender' = [appender EXCEPT ![w] = [step |-> "read", plugin |-> plugin, records |-> encode(plugin, n)]]
    /\ appends' = appends + 1
    /\ raced' = (raced \/ \E v \in LogWriters : ~AppendAt(v, "idle"))
    /\ UNCHANGED <<log, put>>

(* Mutant: the last byte is not looked at.                                  *)
accepts_target_Torn(plugin, existing) ==
    existing = <<>> \/ \E read \in read_plugin_log(existing) :
                         read.ok /\ (read.records = <<>> \/ read.records[1].plugin = plugin)

(* Mutant: any plugin's log will do.                                        *)
accepts_target_AnyPlugin(plugin, existing) ==
    existing = <<>> \/ (Last(existing).lf /\ \A read \in read_plugin_log(existing) : read.ok)

(* The lines end with an LF, so the read has one result.                    *)
accepts_target(plugin, existing) ==
    \/ existing = <<>>
    \/ /\ Last(existing).lf
       /\ \A read \in read_plugin_log(existing) : read.ok /\ read.records[1].plugin = plugin

read_to_end(w) ==
    /\ AppendAt(w, "read")
    /\ appender' = [appender EXCEPT ![w] =
                      IF accepts_target(@.plugin, log) THEN [@ EXCEPT !.step = "write"] ELSE Idle]
    /\ UNCHANGED <<log, appends, put, raced>>

(* O_APPEND: what is written stands behind the last byte.                   *)
Joined(lines, more) ==
    IF more = <<>> \/ lines = <<>> THEN lines \o more
    ELSE IF Last(lines).lf THEN lines \o more
    ELSE Front(lines) \o <<[text |-> Last(lines).text \o more[1].text, lf |-> more[1].lf]>> \o Tail(more)

Write(w, lines, whole) ==
    /\ log' = Joined(log, lines)
    /\ put' = put \o whole
    /\ appender' = [appender EXCEPT ![w] = Idle]
    /\ UNCHANGED <<appends, raced>>

Lines(records) == [i \in DOMAIN records |-> Line(records[i])]

Ledger_write_all(w) ==
    /\ AppendAt(w, "write")
    /\ Write(w, Lines(appender[w].records), appender[w].records)

(* The write fails, or the process dies in it, after some whole lines and   *)
(* perhaps a record without its LF or a part of one.                        *)
ComesUpShort(w) ==
    /\ AppendAt(w, "write")
    /\ \E n \in DOMAIN appender[w].records :
        LET record == appender[w].records[n]
            before == SubSeq(appender[w].records, 1, n - 1)
            With(last) == Append(Lines(before), [text |-> <<last>>, lf |-> FALSE])
        IN \/ Write(w, Lines(before), before)
           \/ Write(w, With([record EXCEPT !.whole = FALSE]), before)
           \/ Write(w, With(record), Append(before, record))

DiesBefore(w) ==
    /\ AppendAt(w, "read")
    /\ appender' = [appender EXCEPT ![w] = Idle]
    /\ UNCHANGED <<log, appends, put, raced>>

PluginLogNext ==
    \E w \in LogWriters :
        append_to_file(w) \/ read_to_end(w) \/ Ledger_write_all(w) \/ ComesUpShort(w) \/ DiesBefore(w)

PluginLogSpec == PluginLogInit /\ [][PluginLogNext]_logVars

----------------------------------------------------------------------------
(* A log that append_to_file wrote, one call at a time, opens as what was   *)
(* written, wherever writes came up short and whoever tried again: nothing  *)
(* but a torn last record is lost, and no later append makes it unreadable. *)
(* When two calls raced it may no longer open, but it never opens as the    *)
(* effects of two plugins.  A log of another format is left as it is.       *)
LogIsWhole ==
    /\ \A read \in Ledger_open_file :
        /\ ~raced => read.records = put
        /\ \A i \in DOMAIN read.records : read.records[i].plugin = read.records[1].plugin
    /\ log # <<>> /\ log[1] = Older => log = <<Older>>
=============================================================================
