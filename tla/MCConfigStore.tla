--------------------------- MODULE MCConfigStore ---------------------------
(* ConfigStore with small sets.  Every kind of value a request can name is  *)
(* present once: a valid one and one that validation refuses.              *)
EXTENDS ConfigStore, TLC

CONSTANTS s1, badSsid, p1, badPwd, g1, g2, g3, g4, r1, r2, gen, sky, keep

MCPostSsids == {s1, badSsid}
MCValidSsids == {s1, gen, sky}
MCPostPasswords == {p1, badPwd}
MCGenPasswords3 == {g1, g2, g3}
MCGenPasswords4 == {g1, g2, g3, g4}
MCValidPasswords == {p1, g1, g2, g3, g4}
MCPostChannels == {1, 14}
MCBadChannel == {14}
MCRests == {r1, r2}

MCCut == {"cut"}
MCNoCut == {"format", "read", "open", "zero", "short", "softap", "remove",
             "mount"}
MCQuiet == {}

\* esp_random() passwords are interchangeable.
Symmetry == Permutations(GenPasswords)
=============================================================================
