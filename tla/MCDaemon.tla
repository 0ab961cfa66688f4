------------------------------ MODULE MCDaemon ------------------------------
(* The daemon's own module table, in link order, for TLC.                  *)
EXTENDS Daemon, Sequences

Table == << "ifstatus", "ifconfig", "rib", "fib", "neighbor-settings", "icmp", "tcp",
            "entity", "address-cache", "static-address", "neighbor-cache",
            "static-neighbor" >>

Entries(names) == {i \in 1 .. Len(Table) : Table[i] \in names}
TableSize == Len(Table)
AllEntries == 1 .. TableSize

\* tcp, entity and neighbor-settings have no init function.
WithInit == AllEntries \ Entries({"tcp", "entity", "neighbor-settings"})

\* ifstatus, fib and the two caches have no start function.
WithStart == AllEntries \ Entries({"ifstatus", "fib", "address-cache", "neighbor-cache"})

MayFail == Entries({"ifconfig", "rib", "address-cache", "static-address",
                    "neighbor-cache", "static-neighbor"})

Registering == Entries({"ifstatus", "ifconfig", "fib", "entity", "address-cache",
                        "static-address", "neighbor-cache", "static-neighbor"})

\* Those that fail without a link, address or neighbor cache.
NeedCache == Entries({"ifconfig", "address-cache", "neighbor-cache"})
=============================================================================
