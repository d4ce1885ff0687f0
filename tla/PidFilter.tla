----------------------------- MODULE PidFilter -----------------------------
(* The text of /tunerN/filter (pid_filter.c) and the PIDs dvb_stream_open    *)
(* opens demux filters for (dvb_stream.c).  A filter is the sequence of its  *)
(* ranges <<first, last>>; blank text is the empty sequence.                 *)
EXTENDS Integers, Sequences, FiniteSets, FiniteSetsExt, Functions

CONSTANTS
  MaxFds,    \* MAX_DEMUX_FDS
  MaxRanges  \* PID_FILTER_MAX_RANGES

MaxPid  == 8191
FullMux == MaxPid + 1   \* FULL_MUX_PID
AllPids == <<<<0, MaxPid>>>>
MaxProgram == 65535  \* UINT16_MAX

\* A program has at most four PIDs beside the PAT; the code has 6 and 32.
ASSUME FilterAssumption == MaxFds \in 5 .. MaxPid /\ MaxRanges \in Nat \ {0}

\* pid_filter_parse: whether the ranges are accepted.
pid_filter_parse(f) ==
  /\ Len(f) <= MaxRanges
  /\ \A i \in DOMAIN f : f[i][1] <= f[i][2] /\ f[i][2] <= MaxPid

\* pid_filter_total_count: overlaps count twice.
pid_filter_total_count(f) ==
  LET total[n \in 0 .. Len(f)] ==
        IF n = 0 THEN 0 ELSE total[n - 1] + (f[n][2] - f[n][1] + 1)
  IN  total[Len(f)]

\* pid_filter_format: sorted, without repetitions, consecutive PIDs merged.
pid_filter_format(S) ==
  LET starts == {p \in S : p - 1 \notin S}
      EndOf(p) == Min({q \in S : q >= p /\ q + 1 \notin S})
      Nth(i) == CHOOSE p \in starts : Cardinality({q \in starts : q <= p}) = i
  IN  [i \in 1 .. Cardinality(starts) |-> <<Nth(i), EndOf(Nth(i))>>]

Pids(f) == UNION {f[i][1] .. f[i][2] : i \in DOMAIN f}

-----------------------------------------------------------------------------
(* A channel row: key (major, minor), freq, del, prog, pmt, pcr, vid, aud.   *)

\* The PIDs of a row's program; 0 is "not applicable".
ProgramPids(row) == {row.pmt, row.pcr, row.vid, row.aud} \ {0}

Opened(ok, pids) == [ok |-> ok, pids |-> pids]

\* Mutant: a PID that is already filtered gets a second filter.
AddPidTwice(s, pid) ==
  IF ~s.ok \/ Len(s.pids) >= MaxFds THEN Opened(FALSE, s.pids)
  ELSE Opened(TRUE, Append(s.pids, pid))

\* add_pid: one demux filter per PID, as many as there are slots.
add_pid(s, pid) ==
  IF ~s.ok \/ pid \in Range(s.pids) THEN s
  ELSE IF Len(s.pids) >= MaxFds THEN Opened(FALSE, s.pids)
  ELSE Opened(TRUE, Append(s.pids, pid))

add_pid_if_new(s, pid) == IF pid = 0 THEN s ELSE add_pid(s, pid)

Pat == add_pid(Opened(TRUE, <<>>), 0)

\* The PIDs of one range, then those of every range, in their order.
AddRange(s, first, last) ==
  LET added[pid \in first - 1 .. last] ==
        IF pid < first THEN s ELSE add_pid_if_new(added[pid - 1], pid)
  IN  added[last]

AddRanges(f) ==
  LET added[n \in 0 .. Len(f)] ==
        IF n = 0 THEN Pat ELSE AddRange(added[n - 1], f[n][1], f[n][2])
  IN  added[Len(f)]

\* The PIDs of a row's program, in the code's order.
AddProgram(row) ==
  LET pmt == add_pid_if_new(Pat, row.pmt)
      pcr == add_pid_if_new(pmt, row.pcr)
      vid == add_pid_if_new(pcr, row.vid)
  IN  add_pid_if_new(vid, row.aud)

\* A program as program_number is compared with it: the cast to uint16_t.
ProgramNumber(program) == program % (MaxProgram + 1)

\* The row whose program is wanted: the override's on the same mux, else the
\* channel itself.
Target(row, siblings, program) ==
  LET hits == {i \in DOMAIN siblings : siblings[i].prog = ProgramNumber(program)}
  IN  IF program <= 0 \/ program = row.prog \/ hits = {} THEN row
      ELSE siblings[Min(hits)]

\* An explicit filter that is enumerated.
Narrow(f) == f # <<>> /\ pid_filter_total_count(f) <= MaxFds - 1

\* dvb_stream_open's choice of PIDs; unset and blank filters are both <<>>.
OpenPids(row, siblings, program, f) ==
  IF Narrow(f) THEN AddRanges(f)
  ELSE IF f # <<>> \/ program = 0
  THEN add_pid_if_new(Opened(TRUE, <<>>), FullMux)
  ELSE AddProgram(Target(row, siblings, program))
=============================================================================
