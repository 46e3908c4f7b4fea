SPECIFICATION ParticleSpec
CONSTANTS
    light = light
    twin = twin
    heavy = heavy
    photon = photon
    unknown = unknown
    Species <- MCSpecies
    Unknown = unknown
    Mass <- MCMass
    Hypot <- MCHypot
    Formats <- MCFormats
    Values <- MCValues
    BeamParticles <- MCBeamParticles
INVARIANTS
    ParticleTypeOK
    LineDecidesAtSameMass
    KineticEnergyWhereMassKept
    NoDefinitionExactlySinceLoss
