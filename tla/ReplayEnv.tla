----------------------------- MODULE ReplayEnv -----------------------------
(***************************************************************************)
(* What surrounds a replay guard, whatever its language: the receiver's    *)
(* wall clock, its reboots, and the datagrams the network hands it.        *)
(*                                                                         *)
(* The network is not constrained: any stamp and any nonce may arrive at   *)
(* any time and any number of times, so a run of this environment contains *)
(* every loss, duplication, delay and reordering of every sender's         *)
(* datagrams, and senders whose clock is skewed or not set (stamp 0).      *)
(***************************************************************************)
EXTENDS Integers, Sequences

CONSTANTS
  Windows,     (* the configured windows in seconds; 0 turns the guard off *)
  MaxEntries,  (* capacity of the nonce cache                              *)
  Nonces,      (* the 32-bit message nonces                                *)
  MinTime,     (* earliest reading of the receiver's clock                 *)
  MaxTime,     (* bound: latest reading of the receiver's clock            *)
  MaxSetBack,  (* bound: how far one correction moves the clock backwards  *)
  MaxBoots,    (* bound: reboots of the receiver                           *)
  MaxAccepted  (* bound: datagrams the guard records                       *)

ASSUME EnvAssumption ==
  /\ Windows \subseteq Nat
  /\ MaxEntries \in Nat \ {0}
  /\ {MinTime, MaxTime, MaxSetBack, MaxBoots, MaxAccepted} \subseteq Nat

VARIABLES
  now,     (* the receiver's unix time                                     *)
  synced,  (* now_valid: the clock was set since the last boot             *)
  window,  (* the window given to the constructor or to set_window         *)
  boot,    (* reboots so far                                               *)
  high,    (* history: the latest clock reading since the last boot        *)
  log,     (* history: the datagrams the guard recorded, oldest first      *)
  last     (* the latest datagram put to the guard, and its verdict        *)

envVars == <<now, synced, window, boot, high, log, last>>

Stamps == 0 .. MaxTime

Times == MinTime .. MaxTime

Entry == [ts : Stamps, nonce : Nonces]

LogEntry == [ts : Stamps, nonce : Nonces, at : Times, high : Times, boot : 0 .. MaxBoots]

Verdict == [nonce : Nonces, fresh : BOOLEAN, ok : BOOLEAN]

(* A faulty form of Fresh: a stamp just past the window still counts.      *)
FreshPastTheEdge(ts) ==
  /\ synced
  /\ ts # 0
  /\ now - ts \in (-window) .. window + 1

(* accept() before it looks at the cache: the guard fails closed without a *)
(* clock on either side, and takes a stamp at most a window away.          *)
Fresh(ts) ==
  /\ synced
  /\ ts # 0
  /\ now - ts \in (-window) .. window

Answer(ts, n, ok) == last' = [nonce |-> n, fresh |-> Fresh(ts), ok |-> ok]

Remember(ts, n) ==
  /\ Len(log) < MaxAccepted
  /\ log' = Append(log, [ts |-> ts, nonce |-> n, at |-> now, high |-> high, boot |-> boot])

(***************************************************************************)
(* The clock and the machine.                                              *)
(***************************************************************************)

EnvInit ==
  /\ now \in Times
  /\ synced = FALSE
  /\ window \in Windows
  /\ boot = 0
  /\ high = now
  /\ log = <<>>
  /\ \E n \in Nonces : last = [nonce |-> n, fresh |-> FALSE, ok |-> FALSE]

Tick ==
  /\ now < MaxTime
  /\ now' = now + 1
  /\ high' = IF now' > high THEN now' ELSE high
  /\ UNCHANGED <<synced, window, boot, log, last>>

(* The time source corrects a clock that ran ahead. *)
SetBack ==
  /\ \E d \in 1 .. MaxSetBack : now - d >= MinTime /\ now' = now - d
  /\ UNCHANGED <<synced, window, boot, high, log, last>>

Sync ==
  /\ ~synced
  /\ synced' = TRUE
  /\ UNCHANGED <<now, window, boot, high, log, last>>

Restart ==
  /\ boot < MaxBoots
  /\ boot' = boot + 1
  /\ synced' = FALSE
  /\ high' = now
  /\ UNCHANGED <<now, window, log, last>>

=============================================================================
