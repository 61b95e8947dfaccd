----------------------------- MODULE MCFanCard ------------------------------
EXTENDS FanCard

\* A fan on a curve and one at a fixed level.
MCInitFans == {[mode |-> m, level |-> 0, curve |-> [i \in Points |-> 0]] :
                    m \in {"curve", "fixed"}}

\* A command's curve, and a fixed level.
MCOutsideFans == {[mode |-> "curve", level |-> 0, curve |-> [i \in Points |-> 1]],
                  [mode |-> "fixed", level |-> 1, curve |-> [i \in Points |-> 0]]}
=============================================================================
