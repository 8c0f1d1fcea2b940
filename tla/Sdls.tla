-------------------------------- MODULE Sdls --------------------------------
(***************************************************************************)
(* Frame security between one sender and one receiver of a security        *)
(* association: apply_security numbers and protects a frame,               *)
(* process_security checks it.  Frames may be lost, repeated, reordered    *)
(* and damaged on the way.                                                 *)
(***************************************************************************)
EXTENDS Integers, Sequences

CONSTANTS
    SnMods,         \* 256^sn_len: what the sequence number field can hold; 1 is no field
    CounterMod,     \* 2^64: the counters of the associations
    Windows,        \* sequence_window of the receiver; 0 is no window
    Start,          \* value of the counter when the two ends were set up
    MaxFrames,      \* bound: frames sent
    MaxAccepted     \* bound: frames passed

\* sn_len below 8: the field wraps before the counter does
ASSUME SdlsAssumption ==
    /\ CounterMod \in Nat \ {0} /\ SnMods \subseteq 1..(CounterMod - 1)
    /\ Windows \subseteq Nat /\ MaxFrames \in Nat /\ MaxAccepted \in Nat
    /\ Start \in 0..(CounterMod - 1)

ServiceType == {"Authentication", "Encryption", "AuthenticatedEncryption"}

VARIABLES
    service,        \* sa.service_type, the same at both ends
    sn_mod,         \* sa.sn_len, the same at both ends, as one of SnMods
    window,         \* sa.sequence_window
    tx_sequence,    \* sa.sequence_number of the sender
    rx_sequence,    \* sa.sequence_number of the receiver
    on_air,         \* the protected frames sent
    sent_frames,    \* history: frames sent
    accepted        \* history: the frames process_security passed, in order

sdls_vars ==
    <<service, sn_mod, window, tx_sequence, rx_sequence, on_air, sent_frames, accepted>>

Frame(n, sn, intact) == [n |-> n, sn |-> sn, intact |-> intact]

SdlsInit ==
    /\ service \in ServiceType /\ sn_mod \in SnMods /\ window \in Windows
    /\ tx_sequence = Start /\ rx_sequence = Start
    /\ on_air = {} /\ sent_frames = 0 /\ accepted = <<>>

\* the low sn_len bytes of the counter
SnField(sequence) == sequence % sn_mod

\* apply_security: the errors return before the counter moves
ApplySecurity ==
    /\ sent_frames < MaxFrames
    /\ on_air' = on_air \cup {Frame(sent_frames, SnField(tx_sequence), TRUE)}
    /\ tx_sequence' = (tx_sequence + 1) % CounterMod
    /\ sent_frames' = sent_frames + 1
    /\ UNCHANGED <<service, sn_mod, window, rx_sequence, accepted>>

\* a frame is read as it was sent, or with some bits changed
OnAir(f) == {f} \cup {Frame(f.n, sn, FALSE) : sn \in 0..(sn_mod - 1)}

\* mutant of InWindow: the number of the last accepted frame passes again
InWindowLast(received) ==
    received + 1 >= rx_sequence /\ (window > 0 => received <= rx_sequence + window)

InWindow(received) ==
    /\ received >= rx_sequence
    /\ window > 0 => received <= (rx_sequence + window) % CounterMod

\* the MAC or the tag matches
Verified(f) == f.intact

Protected == service # "Encryption"

\* a service without a MAC, or a header without the field: no number is checked
Numbered == Protected /\ sn_mod > 1

\* process_security: the MAC first, then the sequence number
ProcessSecurity(f) ==
    /\ Protected => Verified(f)
    /\ IF Numbered THEN InWindow(f.sn) /\ rx_sequence' = (f.sn + 1) % CounterMod
       ELSE UNCHANGED rx_sequence
    /\ accepted' = Append(accepted, f)
    /\ UNCHANGED <<service, sn_mod, window, tx_sequence, on_air, sent_frames>>

SdlsNext ==
    \/ ApplySecurity
    \/ /\ Len(accepted) < MaxAccepted
       /\ \E sent \in on_air : \E f \in OnAir(sent) : ProcessSecurity(f)

SdlsSpec == SdlsInit /\ [][SdlsNext]_sdls_vars
-----------------------------------------------------------------------------
\* A protected association passes only frames that were sent and, if their header has
\* a sequence number, none of them twice, however often they are repeated and also
\* after the field has wrapped (check_sequence_number never goes back).  With sn_len 0,
\* the default of ManagedSa::new, a repeated frame passes again.
NoReplay ==
    /\ Protected => \A i \in DOMAIN accepted : accepted[i].intact
    /\ Numbered => \A i, j \in DOMAIN accepted : i < j => accepted[i].n # accepted[j].n
=============================================================================
