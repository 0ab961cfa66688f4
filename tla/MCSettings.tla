----------------------------- MODULE MCSettings -----------------------------
(* An instance of Settings for TLC.                                        *)
EXTENDS Settings

CONSTANTS eth

Unreachable == <<"send-destination-unreachable", "ipv6">>
Retries == <<"synack-retries", "ipv4">>
Aging == <<"aging-timeout", eth>>
Optimistic == <<"optimistic-nd", eth>>
Admin == <<"admin-status", eth>>
Mtu == <<"mtu", eth>>
Settings == {Unreachable, Retries, Aging, Optimistic, Admin, Mtu}

\* A good value, mostly not the default, and one outside the range.
Values ==
    [s \in Settings |->
        CASE s = Unreachable -> {0, 1}
          [] s = Retries -> {255, -1}
          [] s = Aging -> {0, 432001}
          [] s \in {Optimistic, Admin} -> {0}
          [] s = Mtu -> {67}]

\* What the kernel starts with is mostly not kermond's default.
Unset ==
    [s \in Settings |->
        CASE s = Unreachable -> 0
          [] s = Retries -> 6
          [] s = Aging -> 30000
          [] s = Mtu -> 9000
          [] s \in {Optimistic, Admin} -> 0]

\* Settings interact with those of their tree only.
Together == {{Unreachable}, {Retries}, {Aging}, {Optimistic}, {Admin, Mtu}}
=============================================================================
