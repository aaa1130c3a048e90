SPECIFICATION FairSpec
CONSTANTS
    h1 = h1
    h2 = h2
    vendor = vendor
    Hosts = {h1, h2}
    Me = h1
    Vendors = {vendor}
    VendorKeys <- MCVendorKeys
    MaxExits = 1
    MaxFaults = 1
    Banners = {"device", "recovery"}
    MaxConnects = 2
    MaxFailures = 1
CHECK_DEADLOCK FALSE
INVARIANTS
    LeftIsOffline
