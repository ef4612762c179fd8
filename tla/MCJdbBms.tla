------------------------------ MODULE MCJdbBms ------------------------------
(* Instances of JdbBms for TLC: registers of one or two words.             *)
EXTENDS JdbBms

OneEach  == [r \in Registers |-> {<<1>>}]
BothVary == [OneEach EXCEPT ![3] = {<<1>>, <<2, 1>>}, ![4] = {<<1>>, <<2>>}]
\* A frame of 0x05 that is longer than the register.
OneLong  == [r \in Registers |-> IF r = 3 THEN {<<1>>} ELSE IF r = 4 THEN {<<2>>} ELSE {<<2, 2>>}]

Plain == [data \in {<<>>} \cup AllData |-> [i \in 1 .. FrameLength - 1 |-> 0]]
\* Some data has a 0xDD that seems to start a frame that ends with its own or
\* behind it.
Beyond ==
  [Plain EXCEPT ![<<1>>] = [i \in 1 .. FrameLength - 1 |-> IF i = 1 THEN FrameLength - 1
                                                         ELSE FrameLength]]
\* And some, one that ends within it.
Within == [Plain EXCEPT ![<<1>>][1] = 1]
=============================================================================
