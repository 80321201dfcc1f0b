------------------------------ MODULE GoLadder ------------------------------
(***************************************************************************)
(* How the two P2P backends bring up an autonomous group owner:            *)
(* start_group_owner, remove_group and rotate_discovery_channel of         *)
(* p2p_backend/cli.rs and p2p_backend/dbus.rs, over the ladder that        *)
(* capabilities::detect builds.  The wpa_cli backend walks the ladder,     *)
(* rung by rung; the D-Bus backend removes every group it finds and adds   *)
(* one without a frequency.  wpa_supplicant and the driver are the         *)
(* environment: a group that was asked for may appear late, in the wrong   *)
(* band, or never, and a removal may fail.                                 *)
(*                                                                         *)
(* A group is named by the number of the p2p_group_add that made it; group *)
(* 0 is one that an earlier run of the program left behind.                *)
(***************************************************************************)
EXTENDS Naturals, Sequences

CONSTANTS Socials,   \* SOCIAL_FREQS_2G: the 2.4 GHz channels that phones scan
          MaxAdds    \* bound: how many p2p_group_add calls are accepted

Five == "5GHz (opt-in)"
Driver == "driver-chosen"

ASSUME LadderAssumption ==
    /\ Socials \in Seq(STRING) /\ Socials # <<>>
    /\ \A i \in DOMAIN Socials : Socials[i] \notin {Five, Driver}
    /\ MaxAdds \in Nat \ {0}

Group == 0 .. MaxAdds
NoGroup == MaxAdds + 1

\* The rungs: a clean 5 GHz channel, the social channels, and no frequency.
Rung == {Five, Driver} \cup {Socials[i] : i \in DOMAIN Socials}

\* detect: the ladder of a machine, with or without a clean 5 GHz channel that
\* the user opted in for.
Detect(five) == (IF five THEN <<Five>> ELSE <<>>) \o Socials \o <<Driver>>

\* The band a rung asks for stands for the resolution it advertises as well:
\* 1080p on 5 GHz, 720p on 2.4 GHz.
Bands == {"2.4GHz", "5GHz"}
BandOf(r) == IF r = Five THEN "5GHz" ELSE "2.4GHz"

VARIABLES
    backend,    \* which backend select_backend chose
    ladder,     \* go_candidates
    offset,     \* rotation_offset
    won,        \* won_resolution, as the band it belongs to
    bring,      \* where start_group_owner is
    rung,       \* the position in the rotated ladder
    pre,        \* the snapshot of the group interfaces before the add
    cand,       \* the interface that start_group_owner has in hand
    groups,     \* environment: the p2p-* interfaces that ip link shows
    band,       \* environment: per group, the band it operates on
    pending,    \* environment: groups that were added and have not appeared
    adds,       \* how many p2p_group_add were accepted
    mishaps,    \* history: what went wrong (see Mishap)
    led         \* history: the rungs a bring-up began with

callVars == <<bring, rung, pre, cand>>
envVars == <<groups, band, pending, adds>>
fixedVars == <<backend, ladder>>
ladderVars == <<fixedVars, callVars, envVars, offset, won, mishaps, led>>

BringStage == {"off", "config", "add", "wait", "verify", "up", "failed"}
\* A group's frequency was not read; a bring-up ended by an error; a group, or an
\* add that may yet make one, was given up without being removed.
Mishap == {"unread", "aborted", "left"}

GTypeOK ==
    /\ backend \in {"cli", "dbus"}
    /\ ladder \in {Detect(TRUE), Detect(FALSE)}
    /\ offset \in Nat
    /\ won \in Bands
    /\ bring \in BringStage
    /\ rung \in 1 .. Len(ladder)
    /\ pre \subseteq Group
    /\ cand \in Group \cup {NoGroup}
    /\ groups \subseteq Group
    /\ band \in [Group -> Bands]
    /\ pending \subseteq 1 .. adds
    /\ adds \in 0 .. MaxAdds
    /\ mishaps \subseteq Mishap
    /\ led \subseteq Rung

\* won_resolution is seeded with the first candidate's resolution.
GInit ==
    /\ backend \in {"cli", "dbus"}
    /\ \E five \in BOOLEAN : ladder = Detect(five)
    /\ offset = 0
    /\ won = BandOf(Head(ladder))
    /\ bring = "off" /\ rung = 1 /\ pre = {} /\ cand = NoGroup
    /\ groups \in {{}, {0}}
    /\ band = [g \in Group |-> "2.4GHz"]
    /\ pending = {} /\ adds = 0
    /\ mishaps = {} /\ led = {}

-----------------------------------------------------------------------------
(***************************************************************************)
(* The environment.                                                        *)
(***************************************************************************)

\* A group that was asked for gets its interface, in a band of the driver's
\* choice.
GroupAppears(g) ==
    /\ g \in pending
    /\ pending' = pending \ {g}
    /\ groups' = groups \cup {g}
    /\ \E b \in Bands : band' = [band EXCEPT ![g] = b]
    /\ UNCHANGED <<fixedVars, callVars, adds, offset, won, mishaps, led>>

\* remove_group of g: it succeeds, or g stays: wpa_cli fails, or over D-Bus the
\* group has no interface object.
Removed(g) ==
    \/ groups' = groups \ {g} /\ mishaps' = mishaps
    \/ groups' = groups /\ mishaps' = mishaps \cup {"left"}

-----------------------------------------------------------------------------
(***************************************************************************)
(* start_group_owner, up to its result in `bring` and `cand`.              *)
(***************************************************************************)

\* The ladder rotated left by the offset, and the rung the walk is at.
Rotated == LET off == offset % Len(ladder)
           IN  SubSeq(ladder, off + 1, Len(ladder)) \o SubSeq(ladder, 1, off)
Here == Rotated[rung]

\* A command before the first p2p_group_add fails: `?` returns its error.
ConfigFails ==
    /\ bring = "config"
    /\ bring' = "failed"
    /\ mishaps' = mishaps \cup {"aborted"}
    /\ UNCHANGED <<fixedVars, rung, pre, cand, envVars, offset, won, led>>

\* wpa_cli backend: WFD, device and discovery commands are through.
ConfigDone ==
    /\ bring = "config" /\ backend = "cli"
    /\ bring' = "add" /\ rung' = 1
    /\ UNCHANGED <<fixedVars, pre, cand, envVars, offset, won, mishaps, led>>

\* D-Bus backend: remove_stale_p2p_groups, best effort for each group.
StaleRemoved ==
    /\ bring = "config" /\ backend = "dbus"
    /\ bring' = "add" /\ rung' = 1
    /\ groups' \in SUBSET groups
    /\ mishaps' = IF groups' = {} THEN mishaps ELSE mishaps \cup {"left"}
    /\ UNCHANGED <<fixedVars, pre, cand, band, pending, adds, offset, won, led>>

\* Mutation of NextRung: one rung too many.
NextRungPastEnd ==
    /\ pre' = {} /\ cand' = NoGroup
    /\ IF rung <= Len(ladder) THEN bring' = "add" /\ rung' = rung + 1
                              ELSE bring' = "failed" /\ rung' = rung

\* The next rung of the ladder, or the end of it.
NextRung ==
    /\ pre' = {} /\ cand' = NoGroup
    /\ IF rung < Len(ladder) THEN bring' = "add" /\ rung' = rung + 1
                             ELSE bring' = "failed" /\ rung' = rung

Fails == bring' = "failed" /\ pre' = {} /\ UNCHANGED <<rung, cand>>

\* (wpa_cli: the first rung of a bring-up is on record.)
Leads == led' = IF backend = "cli" /\ rung = 1 THEN led \cup {Here} ELSE led

\* The snapshot, and a p2p_group_add that is accepted.  (`ip link show` is taken
\* to succeed; the snapshot would be empty otherwise.)
AddAccepted ==
    /\ bring = "add" /\ adds < MaxAdds
    /\ pre' = groups
    /\ adds' = adds + 1
    /\ pending' = pending \cup {adds + 1}
    /\ bring' = "wait"
    /\ Leads
    /\ UNCHANGED <<fixedVars, rung, cand, groups, band, offset, won, mishaps>>

\* p2p_group_add answers FAIL.
AddRejected ==
    /\ bring = "add" /\ backend = "cli"
    /\ NextRung
    /\ Leads
    /\ UNCHANGED <<fixedVars, envVars, offset, won, mishaps>>

\* wpa_cli fails, or is killed after ten seconds, or the GroupAdd call returns an
\* error: `?` ends the bring-up.  wpa_supplicant may have accepted the add.
AddAborts ==
    /\ bring = "add"
    /\ bring' = "failed"
    /\ \/ UNCHANGED <<adds, pending>> /\ mishaps' = mishaps \cup {"aborted"}
       \/ /\ adds < MaxAdds /\ adds' = adds + 1
          /\ pending' = pending \cup {adds + 1}
          /\ mishaps' = mishaps \cup {"aborted", "left"}
    /\ Leads
    /\ UNCHANGED <<fixedVars, rung, pre, cand, groups, band, offset, won>>

\* wait_for_group_interface: an interface that is not in the snapshot.  Of
\* several, the order of ip link decides, which is abstracted.
SeesNewGroup ==
    /\ bring = "wait" /\ backend = "cli"
    /\ cand' \in groups \ pre
    /\ pre' = {}
    /\ bring' = "verify"
    /\ UNCHANGED <<fixedVars, rung, envVars, offset, won, mishaps, led>>

\* D-Bus backend: parse_group_interface takes whichever is first.
SeesAnyGroup ==
    /\ bring = "wait" /\ backend = "dbus"
    /\ cand' \in groups
    /\ pre' = {}
    /\ bring' = "up"
    /\ UNCHANGED <<fixedVars, rung, envVars, offset, won, mishaps, led>>

\* Ten seconds without an interface.  The group is not removed.
WaitTimesOut ==
    /\ bring = "wait"
    /\ mishaps' = mishaps \cup {"left"}
    /\ IF backend = "cli" THEN NextRung ELSE Fails
    /\ UNCHANGED <<fixedVars, envVars, offset, won, led>>

\* Mutation of Verified: the band is not compared.
VerifiedAnyBand ==
    /\ bring = "verify"
    /\ won' = BandOf(Here)
    /\ bring' = "up"
    /\ UNCHANGED <<fixedVars, rung, pre, cand, envVars, offset, mishaps, led>>

\* The winner: its frequency is in the band of the rung.
Verified ==
    /\ bring = "verify"
    /\ band[cand] = BandOf(Here)
    /\ won' = BandOf(Here)
    /\ bring' = "up"
    /\ UNCHANGED <<fixedVars, rung, pre, cand, envVars, offset, mishaps, led>>

\* The status cannot be read, or has no frequency and the rung is a 2.4 GHz
\* one: accepted as it is.
AcceptedUnread ==
    /\ bring = "verify"
    /\ won' = BandOf(Here)
    /\ bring' = "up"
    /\ mishaps' = mishaps \cup {"unread"}
    /\ UNCHANGED <<fixedVars, rung, pre, cand, envVars, offset, led>>

\* The frequency is in the wrong band, or is missing and the rung is on 5 GHz.
Mismatch == band[cand] # BandOf(Here) \/ BandOf(Here) = "5GHz"

\* Mutation of WrongBand: the group is left up.
WrongBandLeavesGroup ==
    /\ bring = "verify"
    /\ Mismatch
    /\ NextRung
    /\ UNCHANGED <<fixedVars, envVars, offset, won, mishaps, led>>

\* The wrong band: the group is torn down, whether that succeeds or not.
WrongBand ==
    /\ bring = "verify"
    /\ Mismatch
    /\ Removed(cand)
    /\ NextRung
    /\ UNCHANGED <<fixedVars, band, pending, adds, offset, won, led>>

BringUpStep ==
    \/ ConfigFails \/ ConfigDone \/ StaleRemoved
    \/ AddAccepted \/ AddRejected \/ AddAborts
    \/ SeesNewGroup \/ SeesAnyGroup \/ WaitTimesOut
    \/ Verified \/ AcceptedUnread \/ WrongBand

-----------------------------------------------------------------------------
(***************************************************************************)
(* rotate_discovery_channel.                                               *)
(***************************************************************************)

\* Mutation of RungLeft: one channel too few.
RungLeftButOne == backend = "cli" /\ offset + 2 < Len(Socials)

\* fetch_add and the number of social rungs; the D-Bus backend has no
\* rotation.  The result is whether a rung is left to lead the next bring-up.
RungLeft == backend = "cli" /\ offset + 1 < Len(Socials)

RotateDiscoveryChannel ==
    /\ offset' = IF backend = "cli" THEN offset + 1 ELSE offset
    /\ UNCHANGED <<fixedVars, callVars, envVars, won, mishaps, led>>
=============================================================================
