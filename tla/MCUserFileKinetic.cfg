SPECIFICATION ParticleSpec
CONSTANTS
    light = light
    twin = twin
    heavy = heavy
    photon = photon
    unknown = unknown
    Species <- MCSpecies
    Unknown = unknown
    Mass <- MCMass
    Hypot <- MCHypot
    Formats <- KineticFormat
    Values <- MCValues
    BeamParticles <- MCBeamParticles
INVARIANTS
    KineticEnergyAsGiven
