CONSTANTS
    SpaceSize = 3
    Macs <- MCMacs
    NoIp <- MCNoIp
    NoMac = NoMac
    OptionCodes <- MCOptionCodes
    OptionValues <- MCOptionValues
    NoOption = NoOption
    m1 = m1
    m2 = m2
    m3 = m3
    code1 = code1
    value1 = value1
SPECIFICATION Spec
INVARIANTS IInv NoDoubleLease ReservationHonoured
PROPERTIES LeaseStable EntryPermanent ImplementsLeaseTable
