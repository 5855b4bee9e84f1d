----------------------------- MODULE MCTsWriter -----------------------------
EXTENDS TsWriter

(* A period that is never over, and a time before all others.              *)
Never == 1000000000
NoTime == -1000000000

Tables == [sdt |-> 60, pat |-> 16, pmt |-> 30]
OneVideo == {1}
AudioTwo == {2}
AudioTwoThree == {2, 3}

K(size, late, key, samples) == [size |-> size, late |-> late, key |-> key, samples |-> samples]

(* Constant rate: video as long as 1 and 3 packets, some of it late; audio *)
(* units of which none, one or two more fit into a PES.                    *)
CbrKinds ==
  << {K(150, 0, TRUE, 0), K(400, 3600, FALSE, 0)},
     {K(165, 0, TRUE, 0), K(100, 0, TRUE, 0)} >>
CbrGaps == << {3600, 20000}, {1920, 9100} >>
CbrStarts == {1000, 100000}
CbrSections == {40, 200}

(* Variable rate: an Opus stream, and one whose units may be too large.    *)
VbrKinds ==
  << {K(400, 3600, TRUE, 0), K(10, 0, FALSE, 0)},
     {K(60, 0, TRUE, 960), K(60, 0, TRUE, 2880)},
     {K(150, 0, TRUE, 0), K(400, 0, TRUE, 0)} >>
VbrGaps == << {3600, 8000}, {1800, 5400}, {1920, 9000, 9100} >>
VbrStarts == {0}
=============================================================================
