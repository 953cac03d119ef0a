------------------------------- MODULE MCStart2 -------------------------------
(* Two devices of two functions on a bus, and drives of up to three          *)
(* cylinders of up to three heads, of tracks of two sectors.                   *)
EXTENDS Start2, TLC

\* Kinds of functions; a device of class 4 and subclass 6, a multimedia
\* device, is followed to the bus that its byte 25 happens to name.
Class(k) == IF k = "bridge" THEN <<6, 4>> ELSE IF k \in {"media0", "media1", "media2"} THEN <<4, 6>> ELSE <<1, 1>>
Fun(k, m) == [vendorid  |-> 32902,
              deviceid  |-> IF k \in {"ide", "native"} THEN 28688 ELSE 4663,
              class     |-> Class(k)[1], subclass |-> Class(k)[2],
              progif    |-> IF k = "native" THEN {2, 7} ELSE {7},
              multi     |-> m,
              alias     |-> k = "alias",
              secondary |-> IF k \in {"bridge", "media1"} THEN 1 ELSE IF k = "media2" THEN 2 ELSE 0]
Kinds == {"none", "plain", "ide", "native", "bridge", "media0", "media1"}

\* Every bus 0 of four functions; two more buses may be behind it.
Bus0 == {<<0, d, f>> : d \in 0 .. 1, f \in 0 .. 1}
Behind(x, y) == (Loc(1, 0, 0) :> Fun(x, FALSE)) @@ (Loc(1, 1, 0) :> Fun(y, FALSE))
                @@ (Loc(2, 1, 0) :> Fun("plain", FALSE))
Bus(k, multi) == [loc \in {l \in Bus0 : k[l] # "none"} |-> Fun(k[loc], multi)]

MCTopologies ==
  {Bus(k, multi) @@ Behind(x, "plain") :
     k \in {f \in [Bus0 -> Kinds] : \A d \in 0 .. 1 : f[<<0, d, 1>>] \in {"none", "plain", "ide", "media1"}},
     multi \in BOOLEAN, x \in {"ide", "media2"}}
  \cup {Bus([l \in Bus0 |-> IF l[3] = 0 THEN "alias" ELSE "none"], FALSE)}

Disk(c, h, mbr, bad) == [there |-> TRUE, cyls |-> c, heads |-> h, mbr |-> mbr, bad |-> bad, floats |-> FALSE]
NoDisk == [there |-> FALSE, cyls |-> 0, heads |-> 0, mbr |-> 0, bad |-> {}, floats |-> FALSE]
Floats == [NoDisk EXCEPT !.floats = TRUE]

\* A drive that is good, has no table, is too large, has a sector that can
\* not be read: of data, of a track that is measured, the first one.
MCDisks == {Disk(2, 2, 1, {}), Disk(1, 3, 0, {}), Disk(3, 2, 1, {}),
            Disk(2, 2, 1, {7}), Disk(2, 2, 1, {2}), Disk(2, 1, 1, {0}), NoDisk}
Second  == {Disk(2, 1, 2, {1}), NoDisk}

Machine(a, b, c, d) == [x \in Drives |-> <<a, b, c, d>>[x + 1]]
Diskless   == Machine(NoDisk, NoDisk, NoDisk, NoDisk)
MCMachines == {Diskless, Machine(Disk(2, 2, 1, {}), NoDisk, Floats, Floats)}
              \cup {Machine(a, b, NoDisk, NoDisk) : a \in MCDisks, b \in Second}
              \cup {Machine(a, NoDisk, b, NoDisk) : a \in MCDisks, b \in Second}

\* Buses are of interest without disks, and disks behind one kind of bus.
Usual == Bus([l \in Bus0 |-> IF l = <<0, 1, 1>> THEN "ide" ELSE "plain"], TRUE) @@ Behind("ide", "plain")

MCInit == Init /\ ((drive = Diskless /\ buf = 0) \/ topology = Usual)
MCSpec == MCInit /\ [][Next]_startVars /\ Fairness
=============================================================================
