------------------------------- MODULE MCPacker -------------------------------
(* Small instances of Packer; the cfg picks the protocol. *)
EXTENDS Packer

\* A wall clock that may step back, and one that may also pass the uptime limit.
MCWalls == {2, 4}
MCWallsPastLimit == {4, 9}
MCOneWall == {4}
MCMonos == {0, 1}

\* No configured uptime origin: the value of NoTime.
MCNoOrigin == -1
=============================================================================
