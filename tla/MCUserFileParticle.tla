------------------------- MODULE MCUserFileParticle -------------------------
(***************************************************************************)
(* Three masses, two particles sharing one of them.  A total energy is     *)
(* rounded up, so that it stays above the rest mass.                       *)
(***************************************************************************)
EXTENDS UserFileParticle

CONSTANTS light, twin, heavy, photon, unknown

MCSpecies == {light, twin, heavy, photon}
MCMass == [s \in MCSpecies |->
             CASE s \in {light, twin} -> 5 [] s = heavy -> 9 [] s = photon -> 0]
MCHypot(p, m) == CHOOSE r \in 1..(p + m) :
                   r * r >= p * p + m * m /\ (r - 1) * (r - 1) < p * p + m * m

\* Below, between and above the rest masses, nothing and a negative number.
MCValues == {-1, 0, 3, 7, 12}
MCFormats == FormatType
MCBeamParticles == {[species |-> light, energy |-> 7], [species |-> heavy, energy |-> 12]}

KineticFormat == {[column |-> "Ek", pdgid |-> TRUE]}
=============================================================================
