------------------------------ MODULE MCHttpCache ------------------------------
\* The instances of HttpCache that TLC checks.
EXTENDS HttpCache

Plain == [policy |-> "protocol", noCache |-> FALSE, maxAge |-> None]
MCAsks == {Plain, [Plain EXCEPT !.maxAge = 1], [Plain EXCEPT !.noCache = TRUE],
           [Plain EXCEPT !.policy = "elseLoad"]}

Bare == [maxAge |-> None, expiresIn |-> None, noCache |-> FALSE, noStore |-> FALSE,
         tagged |-> TRUE, dated |-> TRUE, modified |-> FALSE, varies |-> FALSE]
MCProfiles == {[Bare EXCEPT !.maxAge = 2, !.dated = FALSE],
               [Bare EXCEPT !.expiresIn = 2, !.varies = TRUE],
               [Bare EXCEPT !.modified = TRUE, !.tagged = FALSE]}
MCSkews == {-1, 1}
================================================================================
