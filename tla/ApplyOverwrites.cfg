SPECIFICATION SpecExisting
CONSTANTS
    settings = settings
    web = web
    secret = secret
    widget = widget
    image = image
    env = env
    c1 = c1
    c2 = c2
    Operator = Operator
    Calls = {c1, c2}
    Objects = {settings, web, secret, widget}
    Fields = {image, env}
    Manifests <- MCManifests
    Allowed = {settings, web, widget}
    Known = {settings, web, secret}
    MaxRevision = 2
PROPERTY ApplyKeepsRacingWrites
CHECK_DEADLOCK FALSE
