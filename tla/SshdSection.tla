---------------------------- MODULE SshdSection ----------------------------
(***************************************************************************)
(* What collecting the sshd configuration promises the rest of the program: *)
(* one section, published once and never revised.  It is the resolution of  *)
(* the configuration when the disk stayed as it was; otherwise it may be    *)
(* anything but partial: a section that is not "collected" has no data.      *)
(***************************************************************************)
EXTENDS Integers

CONSTANTS Contents, Disks, Pending, Nothing,
          Resolution(_, _)    \* the section due for contents and a disk

VARIABLES content, disk, churn, section

Init ==
  /\ content \in Contents
  /\ disk \in Disks
  /\ churn = 0
  /\ section = Pending

Publish ==
  /\ section = Pending
  /\ section' # Pending
  /\ churn = 0 => section' = Resolution(content, disk)
  /\ section'.status # "collected" => section'.data = Nothing
  /\ UNCHANGED <<content, disk, churn>>

DiskChanges ==
  /\ section = Pending
  /\ disk' \in Disks
  /\ churn' = churn + 1
  /\ UNCHANGED <<content, section>>

Next == Publish \/ DiskChanges

Spec == Init /\ [][Next]_<<content, disk, churn, section>>
=============================================================================
