----------------------------- MODULE MCUnitScan -----------------------------
EXTENDS UnitScan

CONSTANTS sun, agc   \* SunPv, Agc

\* One scanner with two units: a count row of 3 asks for more than there are.
OneScanner == {agc}
OneCap     == [s \in {agc} |-> 2]
OneBase    == [s \in {agc} |-> 16]
OneCounts  == {-1, 1, 3}

\* Both scanners with the addresses of the code cut down to fewer units: the last
\* inverter and the first genset have the same row of com_alarm (kMaxInverters = 8
\* from 12, kMaxGensets = 4 from 16).
TwoScanners == {sun, agc}
TwoCap      == [s \in {sun, agc} |-> IF s = sun THEN 2 ELSE 1]
TwoBase     == [s \in {sun, agc} |-> IF s = sun THEN 15 ELSE 16]
TwoCounts   == {2}
==============================================================================
