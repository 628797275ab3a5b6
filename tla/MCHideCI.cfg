SPECIFICATION Spec
CONSTANTS
    Windows = {w1, w2}
    Owner = Owner
    Jenkins = Jenkins
    OpenStackCI = OpenStackCI
    ThirdCI = ThirdCI
    CIs <- MCCIs
    Trusted <- MCTrusted
    FirstParty <- MCFirstParty
    Remarks <- MCRemarks
    Names <- MCNames
    MaxComments = 4
    MaxPatchset = 2
INVARIANTS
    TypeOK
    LatestOfEveryPipeline
    FirstPartyOnTop
    ConflictIsCurrent
    HiddenAsCookie
